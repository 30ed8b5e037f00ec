---------------------------- MODULE Broker_proofs ----------------------------
(***************************************************************************)
(* Proofs about the broker, for every number of clients and topics, queues *)
(* of every length and every limit.                                        *)
(*                                                                         *)
(* While a handler runs, the counts are not exact: it holds references of  *)
(* its own, and gives them back.  Exact(d, held) says what the counts are  *)
(* then; each function of the broker is shown to keep it, with the         *)
(* references it takes and gives back.                                     *)
(***************************************************************************)
EXTENDS Broker, TLAPS, FiniteSetTheorems

States ==
  {"queued", "publish_qos0", "publish_qos1", "publish_qos2", "wait_for_puback", "wait_for_pubrec",
   "wait_for_pubrel", "wait_for_pubcomp", "send_pubrec", "resend_pubrel"}

\* A message that is sent in one of these states stays in its queue.
Staying == States \ {"publish_qos0"}

Msg ==
  {m \in [mid : Nat, dir : {"in", "out"}, state : States, qos : 0 .. 2, dup : BOOLEAN, retain : BOOLEAN,
          id : Nat] :
     m.qos > 0 => m.state \in Staying}

Content == [topic : Names, qos : 0 .. 2, retain : BOOLEAN, empty : BOOLEAN, body : Nat]

Stored == [refs : Int, source : Clients, smid : Nat, dests : SUBSET Clients, m : Content]

Context ==
  {x \in [known : BOOLEAN, sock : BOOLEAN, clean : BOOLEAN, will : {<<>>} \cup {<<m>> : m \in Content},
          msgs : Seq(Msg), n12 : Int, mid : Nat] :
     x.known \/ x.clean}

Leaf == [client : Clients, topic : Names, qos : 0 .. 2]

\* The types of what the broker remembers.
Types(d) ==
  /\ d = [store |-> d.store, last |-> d.last, kept |-> d.kept, subs |-> d.subs, ctx |-> d.ctx, out |-> d.out]
  /\ d.last \in Nat
  /\ d.store \in [DOMAIN d.store -> Stored] /\ DOMAIN d.store \subseteq 1 .. d.last
  /\ d.kept \in [Names -> Nat]
  /\ d.subs \subseteq Leaf
  /\ d.ctx \in [Clients -> Context]

\* The references that a handler holds.
Held == [Nat -> Nat]
NoneHeld == [id \in Nat |-> 0]
Holding(held, id) == [held EXCEPT ![id] = @ + 1]
Giving(held, id) == [held EXCEPT ![id] = @ - 1]

\* Nothing that is referred to has been freed.
NothingDangles(d, held) ==
  /\ \A c \in Clients : \A k \in DOMAIN d.ctx[c].msgs : d.ctx[c].msgs[k].id \in DOMAIN d.store
  /\ \A t \in Names : d.kept[t] # 0 => d.kept[t] \in DOMAIN d.store
  /\ \A id \in Nat : held[id] # 0 => id \in DOMAIN d.store

\* Each reference is counted, those of the queues, of the topics and of the handler.
AllCounted(d, held) == \A id \in DOMAIN d.store : d.store[id].refs = References(d, id) + held[id]

\* While a client is connected, its messages of QoS 1 and 2 are counted.
QueuesCounted(d) == \A c \in Clients : d.ctx[c].sock => d.ctx[c].n12 = Count12(d.ctx[c].msgs)

\* The store has what the publisher of an incoming message said of it.
AsPublished(stored, m) == stored.smid = m.mid /\ stored.m.retain = m.retain
IncomingIsStored(d) ==
  \A c \in Clients : \A k \in DOMAIN d.ctx[c].msgs :
    d.ctx[c].msgs[k].dir = "in" => AsPublished(d.store[d.ctx[c].msgs[k].id], d.ctx[c].msgs[k])

\* What a topic keeps has been published there, to be retained, and is not empty.
Keepable(m, t) == m.topic = t /\ m.retain = TRUE /\ m.empty = FALSE
KeptAsPublished(d) == \A t \in Names : d.kept[t] # 0 => Keepable(d.store[d.kept[t]].m, t)

Exact(d, held) ==
  /\ Types(d) /\ held \in Held
  /\ NothingDangles(d, held) /\ AllCounted(d, held) /\ QueuesCounted(d)
  /\ IncomingIsStored(d) /\ KeptAsPublished(d)

\* The broker, and what its file has saved.
BrokerIInv ==
  /\ Exact(db, NoneHeld)
  /\ body \in Nat
  /\ disk # <<>> => Exact(saved, NoneHeld) /\ disk = File(saved)

-----------------------------------------------------------------------------
\* The two kinds of places that refer to a message are finite sets.
LEMMA ReferencesFinite ==
  ASSUME NEW ctx \in [Clients -> Context], NEW kept, NEW id
  PROVE  /\ IsFiniteSet(Waiting(ctx, id)) /\ Cardinality(Waiting(ctx, id)) \in Nat
         /\ IsFiniteSet(Keeping(kept, id)) /\ Cardinality(Keeping(kept, id)) \in Nat
<1> DEFINE Of(c) == {<<c, k>> : k \in {j \in DOMAIN ctx[c].msgs : ctx[c].msgs[j].id = id}}
<1>1. ASSUME NEW c \in Clients
      PROVE  IsFiniteSet(Of(c))
  <2> DEFINE S == {j \in DOMAIN ctx[c].msgs : ctx[c].msgs[j].id = id}
  <2>1. ctx[c].msgs \in Seq(Msg)
    BY DEF Context
  <2>2. IsFiniteSet(1 .. Len(ctx[c].msgs))
    BY <2>1, FS_Interval
  <2>3. IsFiniteSet(S)
    <3>1. S \in SUBSET (1 .. Len(ctx[c].msgs))
      BY <2>1
    <3> QED BY <2>2, <3>1, FS_Subset
  <2> DEFINE f == [k \in S |-> <<c, k>>]
  <2>4. f \in Surjection(S, Of(c))
    BY DEF Surjection
  <2> QED BY <2>3, <2>4, FS_Surjection
<1>2. UNION {Of(c) : c \in Clients} = Waiting(ctx, id)
  BY DEF Waiting
<1> HIDE DEF Of
<1>3. IsFiniteSet({Of(c) : c \in Clients})
  <2> DEFINE f == [c \in Clients |-> Of(c)]
  <2>1. f \in Surjection(Clients, {Of(c) : c \in Clients})
    BY DEF Surjection
  <2> QED BY <2>1, FS_Surjection, BrokerAssumption
<1>4. IsFiniteSet(Waiting(ctx, id))
  <2>1. \A S \in {Of(c) : c \in Clients} : IsFiniteSet(S)
    BY <1>1
  <2>2. IsFiniteSet(UNION {Of(c) : c \in Clients})
    BY <1>3, <2>1, FS_UNION
  <2> QED BY <1>2, <2>2
<1>5. IsFiniteSet(Keeping(kept, id))
  <2>1. Keeping(kept, id) \in SUBSET Names
    BY DEF Keeping
  <2> QED BY <2>1, FS_Subset, BrokerAssumption
<1> QED
  BY <1>4, <1>5, FS_CardinalityType

\* The places of the queues, without the union.
LEMMA WaitingPlaces ==
  ASSUME NEW ctx \in [Clients -> Context], NEW id
  PROVE  Waiting(ctx, id) =
           {p \in Clients \X Nat : p[2] \in DOMAIN ctx[p[1]].msgs /\ ctx[p[1]].msgs[p[2]].id = id}
<1>1. \A c \in Clients : DOMAIN ctx[c].msgs \subseteq Nat
  BY DEF Context
<1> QED
  BY <1>1 DEF Waiting

\* Only the messages of a client and their number say where a message waits.
LEMMA WaitingSame ==
  ASSUME NEW ctx, NEW new, NEW id,
         \A c \in Clients :
           /\ DOMAIN new[c].msgs = DOMAIN ctx[c].msgs
           /\ \A k \in DOMAIN ctx[c].msgs : new[c].msgs[k].id = ctx[c].msgs[k].id
  PROVE  Waiting(new, id) = Waiting(ctx, id)
  BY DEF Waiting

\* A message at the end of a queue waits in one more place.
LEMMA WaitingAppended ==
  ASSUME NEW ctx \in [Clients -> Context], NEW new \in [Clients -> Context], NEW id,
         NEW c \in Clients,
         \A b \in Clients \ {c} : new[b].msgs = ctx[b].msgs,
         DOMAIN new[c].msgs = 1 .. Len(ctx[c].msgs) + 1,
         \A k \in DOMAIN ctx[c].msgs : new[c].msgs[k].id = ctx[c].msgs[k].id
  PROVE  Cardinality(Waiting(new, id))
           = Cardinality(Waiting(ctx, id)) + (IF new[c].msgs[Len(ctx[c].msgs) + 1].id = id THEN 1 ELSE 0)
<1> DEFINE n == Len(ctx[c].msgs)
<1>1. /\ DOMAIN ctx[c].msgs = 1 .. n /\ DOMAIN new[c].msgs = 1 .. n + 1
      /\ n \in Nat
      /\ \A k \in 1 .. n : new[c].msgs[k].id = ctx[c].msgs[k].id
  <2>1. ctx[c].msgs \in Seq(Msg)
    BY DEF Context
  <2> QED BY <2>1
<1> HIDE DEF n
<1>2. <<c, n + 1>> \notin Waiting(ctx, id)
  BY <1>1, WaitingPlaces
<1>3. Waiting(new, id) = Waiting(ctx, id) \cup (IF new[c].msgs[n + 1].id = id THEN {<<c, n + 1>>} ELSE {})
  <2>1. ASSUME NEW e \in Clients, NEW k \in Nat
        PROVE  <<e, k>> \in Waiting(new, id)
                 <=> <<e, k>> \in Waiting(ctx, id) \/ (new[c].msgs[n + 1].id = id /\ e = c /\ k = n + 1)
    <3>1. CASE e = c
      <4>1. k \in 1 .. n + 1 <=> k \in 1 .. n \/ k = n + 1
        BY <1>1
      <4> QED BY <1>1, <3>1, <4>1, WaitingPlaces
    <3>2. CASE e # c
      BY <3>2, WaitingPlaces
    <3> QED BY <3>1, <3>2
  <2>2. Waiting(new, id) \subseteq Clients \X Nat /\ Waiting(ctx, id) \subseteq Clients \X Nat
    BY WaitingPlaces
  <2> QED BY <1>1, <2>1, <2>2
<1>4. IsFiniteSet(Waiting(ctx, id)) /\ Cardinality(Waiting(ctx, id)) \in Nat
  BY ReferencesFinite
<1>5. CASE new[c].msgs[n + 1].id = id
  <2>1. Waiting(new, id) = Waiting(ctx, id) \cup {<<c, n + 1>>}
    BY <1>3, <1>5
  <2>2. \A x : x \notin Waiting(ctx, id) =>
          Cardinality(Waiting(ctx, id) \cup {x}) = Cardinality(Waiting(ctx, id)) + 1
    BY <1>4, FS_AddElement
  <2> QED BY <1>2, <1>5, <2>1, <2>2 DEF n
<1>6. CASE new[c].msgs[n + 1].id # id
  BY <1>3, <1>4, <1>6 DEF n
<1> QED
  BY <1>5, <1>6 DEF n

\* What is left of a sequence without one of its elements.
LEMMA RemovedElements ==
  ASSUME NEW S, NEW s \in Seq(S), NEW k \in DOMAIN s
  PROVE  /\ RemoveAt(s, k) \in Seq(S) /\ Len(RemoveAt(s, k)) = Len(s) - 1
         /\ DOMAIN RemoveAt(s, k) = 1 .. Len(s) - 1
         /\ \A j \in 1 .. Len(s) - 1 : RemoveAt(s, k)[j] = s[IF j < k THEN j ELSE j + 1]
<1> DEFINE before == SubSeq(s, 1, k - 1)
           after == SubSeq(s, k + 1, Len(s))
<1>1. /\ before \in Seq(S) /\ Len(before) = k - 1
      /\ \A j \in 1 .. k - 1 : before[j] = s[j]
  OBVIOUS
<1>2. /\ after \in Seq(S) /\ Len(after) = Len(s) - k
      /\ \A j \in 1 .. Len(s) - k : after[j] = s[j + k]
  OBVIOUS
<1>3. RemoveAt(s, k) = before \o after
  BY DEF RemoveAt
<1>4. k \in 1 .. Len(s) /\ Len(s) \in Nat
  OBVIOUS
<1> HIDE DEF before, after
<1>5. /\ before \o after \in Seq(S) /\ Len(before \o after) = Len(s) - 1
      /\ DOMAIN (before \o after) = 1 .. Len(s) - 1
  BY <1>1, <1>2, <1>4
<1>6. ASSUME NEW j \in 1 .. Len(s) - 1
      PROVE  (before \o after)[j] = s[IF j < k THEN j ELSE j + 1]
  <2>1. (before \o after)[j] = IF j <= Len(before) THEN before[j] ELSE after[j - Len(before)]
    <3>1. j \in 1 .. Len(before) + Len(after)
      BY <1>1, <1>2, <1>4
    <3> QED BY <1>1, <1>2, <3>1, SMTT(30)
  <2>2. CASE j < k
    BY <1>1, <1>4, <2>1, <2>2
  <2>3. CASE ~(j < k)
    <3> DEFINE i == j - (k - 1)
    <3>1. /\ i \in 1 .. Len(s) - k /\ i + k = j + 1
          /\ ~(j <= k - 1)
      BY <1>4, <2>3
    <3>2. (before \o after)[j] = after[i]
      BY <1>1, <2>1, <3>1
    <3> HIDE DEF i
    <3>3. after[i] = s[j + 1]
      BY <1>2, <3>1
    <3> QED BY <2>3, <3>2, <3>3
  <2> QED BY <2>2, <2>3
<1> QED
  BY <1>3, <1>5, <1>6

\* One place fewer for the message that is taken from a queue, though the others move up.
LEMMA WaitingRemoved ==
  ASSUME NEW ctx \in [Clients -> Context], NEW new \in [Clients -> Context], NEW id,
         NEW c \in Clients, NEW k \in DOMAIN ctx[c].msgs,
         \A b \in Clients \ {c} : new[b].msgs = ctx[b].msgs,
         DOMAIN new[c].msgs = 1 .. Len(ctx[c].msgs) - 1,
         \A j \in DOMAIN new[c].msgs : new[c].msgs[j].id = RemoveAt(ctx[c].msgs, k)[j].id
  PROVE  Cardinality(Waiting(new, id))
           = Cardinality(Waiting(ctx, id)) - (IF ctx[c].msgs[k].id = id THEN 1 ELSE 0)
<1> DEFINE msgs == ctx[c].msgs
           n == Len(msgs)
           old == Waiting(ctx, id) \ {<<c, k>>}
           Up(p) == IF p[1] = c /\ p[2] > k THEN <<c, p[2] - 1>> ELSE p
           f == [p \in old |-> Up(p)]
<1>1. /\ msgs \in Seq(Msg) /\ n \in Nat /\ k \in 1 .. n /\ DOMAIN msgs = 1 .. n
  BY DEF Context
<1>2. \A j \in 1 .. n - 1 : new[c].msgs[j].id = msgs[IF j < k THEN j ELSE j + 1].id
  BY <1>1, RemovedElements
<1>3. \A p \in old : /\ p = <<p[1], p[2]>> /\ p[1] \in Clients /\ p[2] \in DOMAIN ctx[p[1]].msgs
                      /\ p[2] \in Nat /\ ctx[p[1]].msgs[p[2]].id = id /\ p # <<c, k>>
  BY WaitingPlaces
<1>4. \A p \in old : Up(p) \in Waiting(new, id)
  <2> TAKE p \in old
  <2>1. CASE p[1] = c /\ p[2] > k
    <3>1. p[2] - 1 \in 1 .. n - 1 /\ ~(p[2] - 1 < k) /\ p[2] - 1 + 1 = p[2]
      BY <1>1, <1>3, <2>1
    <3>2. new[c].msgs[p[2] - 1].id = id
      <4>1. new[c].msgs[p[2] - 1].id = msgs[p[2]].id
        BY <1>2, <3>1
      <4> QED BY <1>3, <2>1, <4>1
    <3> QED BY <1>1, <2>1, <3>1, <3>2, WaitingPlaces
  <2>2. CASE p[1] = c /\ ~(p[2] > k)
    <3>1. p[2] \in 1 .. n - 1 /\ p[2] < k
      BY <1>1, <1>3, <2>2
    <3>2. new[c].msgs[p[2]].id = id
      BY <1>2, <1>3, <2>2, <3>1
    <3> QED BY <1>3, <2>2, <3>1, <3>2, WaitingPlaces
  <2>3. CASE p[1] # c
    BY <1>3, <2>3, WaitingPlaces
  <2> QED BY <2>1, <2>2, <2>3
<1>5. \A p, q \in old : Up(p) = Up(q) => p = q
  <2> TAKE p, q \in old
  <2>1. CASE p[1] # c \/ q[1] # c
    BY <1>3, <2>1
  <2>2. CASE p[1] = c /\ q[1] = c
    <3>1. p[2] # k /\ q[2] # k
      BY <1>3, <2>2
    <3> QED BY <1>1, <1>3, <2>2, <3>1
  <2> QED BY <2>1, <2>2
<1>6. ASSUME NEW q \in Waiting(new, id)
      PROVE  \E p \in old : Up(p) = q
  <2>1. /\ q = <<q[1], q[2]>> /\ q[1] \in Clients /\ q[2] \in Nat /\ q[2] \in DOMAIN new[q[1]].msgs
        /\ new[q[1]].msgs[q[2]].id = id
    BY WaitingPlaces
  <2>2. CASE q[1] # c
    <3>1. q \in old
      BY <2>1, <2>2, WaitingPlaces
    <3> QED BY <2>2, <3>1
  <2>3. CASE q[1] = c /\ q[2] < k
    <3>1. q[2] \in 1 .. n - 1 /\ msgs[q[2]].id = id
      BY <1>2, <2>1, <2>3
    <3>2. q \in old
      BY <1>1, <2>1, <2>3, <3>1, WaitingPlaces
    <3> QED BY <1>1, <2>1, <2>3, <3>2
  <2>4. CASE q[1] = c /\ ~(q[2] < k)
    <3>1. q[2] \in 1 .. n - 1 /\ msgs[q[2] + 1].id = id
      BY <1>2, <2>1, <2>4
    <3>2. <<c, q[2] + 1>> \in old
      <4>1. q[2] + 1 \in DOMAIN ctx[c].msgs /\ q[2] + 1 \in Nat /\ q[2] + 1 # k
        BY <1>1, <2>1, <2>4, <3>1
      <4>2. <<c, q[2] + 1>> \in Waiting(ctx, id)
        BY <3>1, <4>1, WaitingPlaces
      <4> QED BY <4>1, <4>2
    <3>3. Up(<<c, q[2] + 1>>) = <<c, q[2]>>
      BY <1>1, <2>1, <2>4
    <3> QED BY <2>1, <2>4, <3>2, <3>3
  <2> QED BY <2>2, <2>3, <2>4
<1>7. f \in Bijection(old, Waiting(new, id))
  <2> HIDE DEF old, Up
  <2>1. f \in [old -> Waiting(new, id)] /\ \A p \in old : f[p] = Up(p)
    BY <1>4
  <2> QED BY <2>1, <1>5, <1>6 DEF Bijection, Injection, IsInjective, Surjection
<1>8. IsFiniteSet(old)
      /\ Cardinality(old) = Cardinality(Waiting(ctx, id)) - (IF msgs[k].id = id THEN 1 ELSE 0)
  <2>1. <<c, k>> \in Waiting(ctx, id) <=> msgs[k].id = id
    BY <1>1, WaitingPlaces
  <2>2. IsFiniteSet(Waiting(ctx, id)) /\ Cardinality(Waiting(ctx, id)) \in Nat
    BY ReferencesFinite
  <2>3. /\ IsFiniteSet(old)
        /\ Cardinality(old) = IF <<c, k>> \in Waiting(ctx, id) THEN Cardinality(Waiting(ctx, id)) - 1
                              ELSE Cardinality(Waiting(ctx, id))
    BY <2>2, FS_RemoveElement
  <2> HIDE DEF old
  <2> QED BY <2>1, <2>2, <2>3
<1> QED
  BY <1>7, <1>8, FS_Bijection DEF ExistsBijection

-----------------------------------------------------------------------------
\* The counted places of a queue are a finite set.
LEMMA CountFinite ==
  ASSUME NEW s \in Seq(Msg)
  PROVE  IsFiniteSet({k \in DOMAIN s : s[k].qos > 0}) /\ Count12(s) \in Nat
<1>1. IsFiniteSet(1 .. Len(s))
  BY FS_Interval
<1>2. {k \in DOMAIN s : s[k].qos > 0} \in SUBSET (1 .. Len(s))
  OBVIOUS
<1>3. IsFiniteSet({k \in DOMAIN s : s[k].qos > 0})
  BY <1>1, <1>2, FS_Subset
<1> QED
  BY <1>3, FS_CardinalityType DEF Count12

\* The count depends on the QoS of the messages only.
LEMMA CountSame ==
  ASSUME NEW s, NEW new, DOMAIN new = DOMAIN s, \A k \in DOMAIN s : new[k].qos = s[k].qos
  PROVE  Count12(new) = Count12(s)
  BY DEF Count12

\* Nothing waits in an empty queue.
LEMMA CountEmpty == Count12(<<>>) = 0
<1>1. {k \in DOMAIN <<>> : <<>>[k].qos > 0} = {}
  OBVIOUS
<1> QED
  BY <1>1, FS_EmptySet DEF Count12

\* A message of QoS 1 or 2 at the end is one more.
LEMMA CountAppended ==
  ASSUME NEW s \in Seq(Msg), NEW m \in Msg
  PROVE  Count12(Append(s, m)) = Count12(s) + (IF m.qos > 0 THEN 1 ELSE 0)
<1> DEFINE n == Len(s)
           new == Append(s, m)
           old == {k \in DOMAIN s : s[k].qos > 0}
<1>1. /\ n \in Nat /\ DOMAIN s = 1 .. n /\ DOMAIN new = 1 .. n + 1
      /\ \A k \in 1 .. n : new[k] = s[k]
      /\ new[n + 1] = m
  OBVIOUS
<1> HIDE DEF new
<1>2. {k \in DOMAIN new : new[k].qos > 0} = old \cup (IF m.qos > 0 THEN {n + 1} ELSE {})
  BY <1>1
<1>3. n + 1 \notin old /\ IsFiniteSet(old) /\ Cardinality(old) \in Nat /\ Count12(s) = Cardinality(old)
  BY <1>1, CountFinite, SMTT(30) DEF Count12
<1>4. Cardinality(old \cup {n + 1}) = Cardinality(old) + 1
  BY <1>3, FS_AddElement
<1>5. Count12(new) = IF m.qos > 0 THEN Cardinality(old \cup {n + 1}) ELSE Cardinality(old)
  BY <1>2 DEF Count12
<1> QED
  BY <1>3, <1>4, <1>5 DEF new

\* A message of QoS 1 or 2 that is taken out is one less.
LEMMA CountRemoved ==
  ASSUME NEW s \in Seq(Msg), NEW k \in DOMAIN s
  PROVE  Count12(RemoveAt(s, k)) = Count12(s) - (IF s[k].qos > 0 THEN 1 ELSE 0)
<1> DEFINE n == Len(s)
           new == RemoveAt(s, k)
           all == {j \in DOMAIN s : s[j].qos > 0}
           old == all \ {k}
           left == {j \in DOMAIN new : new[j].qos > 0}
           f == [j \in old |-> IF j < k THEN j ELSE j - 1]
<1>1. /\ n \in Nat /\ k \in 1 .. n /\ DOMAIN s = 1 .. n /\ DOMAIN new = 1 .. n - 1
      /\ \A j \in 1 .. n - 1 : new[j] = s[IF j < k THEN j ELSE j + 1]
  BY RemovedElements
<1> HIDE DEF new
<1>2. \A j \in old : j \in 1 .. n /\ j # k /\ s[j].qos > 0
  BY <1>1
<1>3. f \in [old -> left]
  <2>1. ASSUME NEW j \in old, ~(j < k)
        PROVE  j - 1 \in left
    <3>1. j - 1 \in 1 .. n - 1 /\ ~(j - 1 < k) /\ j - 1 + 1 = j
      BY <1>1, <1>2, <2>1
    <3> QED BY <1>1, <1>2, <3>1
  <2>2. ASSUME NEW j \in old, j < k
        PROVE  j \in left
    <3>1. j \in 1 .. n - 1
      BY <1>1, <1>2, <2>2
    <3> QED BY <1>1, <1>2, <2>2, <3>1
  <2> QED BY <2>1, <2>2
<1>4. \A i, j \in old : f[i] = f[j] => i = j
  BY <1>1, <1>2
<1>5. ASSUME NEW j \in left
      PROVE  \E i \in old : f[i] = j
  <2>1. j \in 1 .. n - 1 /\ new[j].qos > 0
    BY <1>1
  <2>2. CASE j < k
    <3>1. j \in old
      BY <1>1, <2>1, <2>2
    <3> QED BY <2>2, <3>1
  <2>3. CASE ~(j < k)
    <3>1. j + 1 \in 1 .. n /\ s[j + 1].qos > 0
      BY <1>1, <2>1, <2>3
    <3>2. j + 1 \in old /\ ~(j + 1 < k) /\ j + 1 - 1 = j
      <4>1. j + 1 \in all /\ j + 1 # k
        BY <1>1, <2>1, <2>3, <3>1
      <4> QED BY <1>1, <2>1, <2>3, <4>1
    <3>3. f[j + 1] = j + 1 - 1
      <4> HIDE DEF old
      <4>1. f[j + 1] = IF j + 1 < k THEN j + 1 ELSE j + 1 - 1
        BY <3>2
      <4> QED BY <3>2, <4>1
    <3> QED BY <3>2, <3>3
  <2> QED BY <2>2, <2>3
<1>6. f \in Bijection(old, left)
  <2> HIDE DEF old, left
  <2>1. DOMAIN f = old
    BY <1>3
  <2> HIDE DEF f
  <2> QED BY <1>3, <1>4, <1>5, <2>1 DEF Bijection, Injection, IsInjective, Surjection
<1>7. IsFiniteSet(all) /\ Cardinality(all) \in Nat /\ Count12(s) = Cardinality(all)
  BY CountFinite DEF Count12
<1>8. /\ IsFiniteSet(old)
      /\ Cardinality(old) = IF k \in all THEN Cardinality(all) - 1 ELSE Cardinality(all)
  BY <1>7, FS_RemoveElement
<1>9. Cardinality(left) = Cardinality(old)
  BY <1>6, <1>8, FS_Bijection DEF ExistsBijection
<1>10. Count12(new) = Cardinality(left) /\ (k \in all <=> s[k].qos > 0)
  BY <1>1 DEF Count12
<1> HIDE DEF all, old, left
<1> QED
  BY <1>7, <1>8, <1>9, <1>10 DEF new

\* A topic that keeps another message, or none.
LEMMA KeepingChanges ==
  ASSUME NEW kept \in [Names -> Nat], NEW t \in Names, NEW id \in Nat, NEW new \in Nat, kept[t] # new
  PROVE  Cardinality(Keeping([kept EXCEPT ![t] = new], id))
           = Cardinality(Keeping(kept, id)) + (IF id = new THEN 1 ELSE 0) - (IF id = kept[t] THEN 1 ELSE 0)
<1> DEFINE old == Keeping(kept, id)
           now == Keeping([kept EXCEPT ![t] = new], id)
<1>1. IsFiniteSet(old) /\ Cardinality(old) \in Nat
  <2>1. old \in SUBSET Names
    BY DEF Keeping
  <2>2. IsFiniteSet(old)
    BY <2>1, FS_Subset, BrokerAssumption
  <2> QED BY <2>2, FS_CardinalityType
<1>2. /\ t \in old <=> kept[t] = id
      /\ id = new => now = old \cup {t} /\ t \notin old
      /\ id # new => now = old \ {t}
  BY DEF Keeping
<1> HIDE DEF old, now
<1>3. CASE id = new
  <2>2. Cardinality(old \cup {t}) = Cardinality(old) + 1
    BY <1>1, <1>2, <1>3, FS_AddElement
  <2>3. Cardinality(now) = Cardinality(old) + 1
    BY <1>2, <1>3, <2>2
  <2> QED BY <1>1, <1>3, <2>3 DEF old, now
<1>4. CASE id # new
  <2>2. Cardinality(old \ {t}) = IF t \in old THEN Cardinality(old) - 1 ELSE Cardinality(old)
    BY <1>1, FS_RemoveElement
  <2>3. Cardinality(now) = Cardinality(old) - IF kept[t] = id THEN 1 ELSE 0
    BY <1>1, <1>2, <1>4, <2>2
  <2> QED BY <1>1, <1>4, <2>3 DEF old, now
<1> QED
  BY <1>3, <1>4

-----------------------------------------------------------------------------
\* The reference counts, identifiers and contents of two stores agree.
SameCounts(d, e) ==
  /\ DOMAIN e.store = DOMAIN d.store
  /\ \A id \in DOMAIN d.store : /\ e.store[id].refs = d.store[id].refs
                                /\ e.store[id].smid = d.store[id].smid /\ e.store[id].m = d.store[id].m

\* What the messages of the first store say is what they say in the second.
SameContent(d, e) ==
  \A id \in DOMAIN d.store : id \in DOMAIN e.store =>
    /\ e.store[id].m = d.store[id].m
    /\ e.store[id].source = d.store[id].source /\ e.store[id].smid = d.store[id].smid

\* The queue of a client has the same messages, whatever their states are.
SameMessages(s, new) ==
  /\ DOMAIN new = DOMAIN s
  /\ \A k \in DOMAIN s : /\ new[k].id = s[k].id /\ new[k].dir = s[k].dir
                         /\ new[k].mid = s[k].mid /\ new[k].qos = s[k].qos /\ new[k].retain = s[k].retain

\* Each message of QoS 1 or 2 is still there.
SameMessage(m, n) == n.id = m.id /\ n.dir = m.dir /\ n.mid = m.mid /\ n.qos = m.qos
Keeps(s, new) == \A k \in DOMAIN s : s[k].qos = 0 \/ \E j \in DOMAIN new : SameMessage(s[k], new[j])

\* Also, those with this identifier may have gone.
KeepsBut(s, new, mid, dir) ==
  \A k \in DOMAIN s : \/ s[k].qos = 0 \/ (s[k].mid = mid /\ s[k].dir = dir)
                      \/ \E j \in DOMAIN new : SameMessage(s[k], new[j])

\* The connection of a client, and its kind, are as they were.
SameConnection(x, y) == y.known = x.known /\ y.clean = x.clean /\ y.sock = x.sock

\* No client loses a message or its connection.
KeepsAll(d, e) ==
  \A b \in Clients : SameConnection(d.ctx[b], e.ctx[b]) /\ Keeps(d.ctx[b].msgs, e.ctx[b].msgs)

\* A connection is not new, with the count it had, or its messages have been counted.
CountGoesOn(old, new) == new.sock => (old.sock /\ new.n12 = old.n12) \/ new.n12 = Count12(new.msgs)

\* A queue with the same messages, in whatever states, has kept them.
LEMMA SameKeeps ==
  ASSUME NEW s, NEW new, SameMessages(s, new)
  PROVE  Keeps(s, new)
  BY DEF SameMessages, Keeps, SameMessage

\* What has been kept twice has been kept.
LEMMA KeepsOn ==
  ASSUME NEW s, NEW t, NEW u, Keeps(s, t), Keeps(t, u)
  PROVE  Keeps(s, u)
<1> SUFFICES ASSUME NEW k \in DOMAIN s, s[k].qos # 0
             PROVE  \E j \in DOMAIN u : SameMessage(s[k], u[j])
  BY DEF Keeps
<1>1. PICK i \in DOMAIN t : SameMessage(s[k], t[i])
  BY DEF Keeps
<1>2. PICK j \in DOMAIN u : SameMessage(t[i], u[j])
  BY <1>1 DEF Keeps, SameMessage
<1> QED
  BY <1>1, <1>2 DEF SameMessage

\* A client whose context is the same has lost nothing.
LEMMA KeepsAllSame ==
  ASSUME NEW d, NEW e, e.ctx = d.ctx
  PROVE  KeepsAll(d, e)
  BY DEF KeepsAll, SameConnection, Keeps, SameMessage

\* What no client loses in two steps it does not lose.
LEMMA KeepsAllOn ==
  ASSUME NEW d, NEW e, NEW f, KeepsAll(d, e), KeepsAll(e, f)
  PROVE  KeepsAll(d, f)
<1> SUFFICES ASSUME NEW b \in Clients
             PROVE  SameConnection(d.ctx[b], f.ctx[b]) /\ Keeps(d.ctx[b].msgs, f.ctx[b].msgs)
  BY DEF KeepsAll
<1>1. SameConnection(d.ctx[b], e.ctx[b]) /\ SameConnection(e.ctx[b], f.ctx[b])
  BY DEF KeepsAll
<1>2. Keeps(d.ctx[b].msgs, e.ctx[b].msgs) /\ Keeps(e.ctx[b].msgs, f.ctx[b].msgs)
  BY DEF KeepsAll
<1>3. Keeps(d.ctx[b].msgs, f.ctx[b].msgs)
  BY <1>2, KeepsOn
<1> QED
  BY <1>1, <1>3 DEF SameConnection

\* One context has changed, in the states of its messages only.
LEMMA KeepsAllOne ==
  ASSUME NEW d, NEW e, NEW c \in Clients, NEW x, d.ctx \in [Clients -> Context],
         e.ctx = [d.ctx EXCEPT ![c] = x],
         SameConnection(d.ctx[c], x), SameMessages(d.ctx[c].msgs, x.msgs)
  PROVE  KeepsAll(d, e)
<1> SUFFICES ASSUME NEW b \in Clients
             PROVE  SameConnection(d.ctx[b], e.ctx[b]) /\ Keeps(d.ctx[b].msgs, e.ctx[b].msgs)
  BY DEF KeepsAll
<1>1. e.ctx[b] = IF b = c THEN x ELSE d.ctx[b]
  OBVIOUS
<1>2. CASE b = c
  <2>1. Keeps(d.ctx[c].msgs, x.msgs)
    BY SameKeeps
  <2> QED BY <1>1, <1>2, <2>1
<1>3. CASE b # c
  BY <1>1, <1>3 DEF SameConnection, Keeps, SameMessage
<1> QED
  BY <1>2, <1>3

\* No client loses a message or its connection, but this one may lose what has this identifier.
KeepsAllBut(d, e, c, mid, dir) ==
  \A b \in Clients :
    /\ SameConnection(d.ctx[b], e.ctx[b])
    /\ b # c => Keeps(d.ctx[b].msgs, e.ctx[b].msgs)
    /\ b = c => KeepsBut(d.ctx[b].msgs, e.ctx[b].msgs, mid, dir)

\* What is left of a queue is all but the message that was taken, of which nothing is promised
\* if its QoS is 0.
LEMMA RemovedKeeps ==
  ASSUME NEW s \in Seq(Msg), NEW k \in DOMAIN s, NEW new, SameMessages(RemoveAt(s, k), new)
  PROVE  /\ KeepsBut(s, new, s[k].mid, s[k].dir)
         /\ s[k].qos = 0 => Keeps(s, new)
<1>1. ASSUME NEW i \in DOMAIN s, i # k
      PROVE  \E j \in DOMAIN new : SameMessage(s[i], new[j])
  <2> DEFINE j == IF i < k THEN i ELSE i - 1
  <2>1. j \in 1 .. Len(s) - 1 /\ i = IF j < k THEN j ELSE j + 1
    BY <1>1
  <2> HIDE DEF j
  <2>2. j \in DOMAIN RemoveAt(s, k) /\ RemoveAt(s, k)[j] = s[i]
    BY <2>1, RemovedElements
  <2> QED BY <2>2 DEF SameMessages, SameMessage
<1> QED
  BY <1>1 DEF Keeps, KeepsBut

\* No client but this one loses a message or its connection.
KeepsOthers(d, e, c) ==
  \A b \in Clients \ {c} : SameConnection(d.ctx[b], e.ctx[b]) /\ Keeps(d.ctx[b].msgs, e.ctx[b].msgs)

\* A step in which no client loses anything, and one in which only this context changes
LEMMA KeepsOthersOn ==
  ASSUME NEW d, NEW e, NEW f, NEW c, KeepsAll(d, e), \A b \in Clients \ {c} : f.ctx[b] = e.ctx[b]
  PROVE  KeepsOthers(d, f, c)
  BY DEF KeepsAll, KeepsOthers

\* Where no client loses anything this one does not.
LEMMA KeepsAllIsBut ==
  ASSUME NEW d, NEW e, NEW c, NEW mid, NEW dir, KeepsAll(d, e)
  PROVE  KeepsAllBut(d, e, c, mid, dir)
<1>1. \A b \in Clients : SameConnection(d.ctx[b], e.ctx[b]) /\ Keeps(d.ctx[b].msgs, e.ctx[b].msgs)
  BY DEF KeepsAll
<1>2. \A s, new : Keeps(s, new) => KeepsBut(s, new, mid, dir)
  <2> SUFFICES ASSUME NEW s, NEW new, Keeps(s, new), NEW k \in DOMAIN s
               PROVE  \/ s[k].qos = 0 \/ (s[k].mid = mid /\ s[k].dir = dir)
                      \/ \E j \in DOMAIN new : SameMessage(s[k], new[j])
    BY DEF KeepsBut
  <2> QED BY DEF Keeps
<1> QED
  BY <1>1, <1>2 DEF KeepsAllBut

\* Also after steps, and before steps, in which no client loses anything.
LEMMA KeepsAllButOn ==
  ASSUME NEW c, NEW mid, NEW dir, NEW d, NEW e, NEW f, NEW g,
         KeepsAll(d, e), KeepsAllBut(e, f, c, mid, dir), KeepsAll(f, g)
  PROVE  KeepsAllBut(d, g, c, mid, dir)
<1> SUFFICES ASSUME NEW b \in Clients
             PROVE  /\ SameConnection(d.ctx[b], g.ctx[b])
                    /\ b # c => Keeps(d.ctx[b].msgs, g.ctx[b].msgs)
                    /\ b = c => KeepsBut(d.ctx[b].msgs, g.ctx[b].msgs, mid, dir)
  BY DEF KeepsAllBut
<1> DEFINE s == d.ctx[b].msgs
           t == e.ctx[b].msgs
           u == f.ctx[b].msgs
           v == g.ctx[b].msgs
<1>1. SameConnection(d.ctx[b], g.ctx[b])
  BY DEF KeepsAll, KeepsAllBut, SameConnection
<1>2. Keeps(s, t) /\ Keeps(u, v)
  BY DEF KeepsAll
<1>3. CASE b # c
  <2>1. Keeps(t, u)
    BY <1>3 DEF KeepsAllBut
  <2> HIDE DEF s, t, u, v
  <2>2. Keeps(s, v)
    BY <1>2, <2>1, KeepsOn
  <2> QED BY <1>1, <1>3, <2>2 DEF s, v
<1>4. CASE b = c
  <2>1. KeepsBut(t, u, mid, dir)
    BY <1>4 DEF KeepsAllBut
  <2> HIDE DEF s, t, u, v
  <2>2. ASSUME NEW k \in DOMAIN s, s[k].qos # 0, ~(s[k].mid = mid /\ s[k].dir = dir)
        PROVE  \E j \in DOMAIN v : SameMessage(s[k], v[j])
    <3>1. PICK i \in DOMAIN t : SameMessage(s[k], t[i])
      BY <1>2, <2>2 DEF Keeps
    <3>2. PICK j \in DOMAIN u : SameMessage(t[i], u[j])
      BY <2>1, <2>2, <3>1 DEF KeepsBut, SameMessage
    <3>3. PICK l \in DOMAIN v : SameMessage(u[j], v[l])
      BY <1>2, <2>2, <3>1, <3>2 DEF Keeps, SameMessage
    <3>4. SameMessage(s[k], v[l])
      BY <3>1, <3>2, <3>3 DEF SameMessage
    <3> QED BY <3>4
  <2>3. KeepsBut(s, v, mid, dir)
    BY ONLY <2>2 DEF KeepsBut
  <2> QED BY <1>1, <1>4, <2>3 DEF s, v
<1> QED
  BY <1>3, <1>4

\* The numbers of references are natural.
LEMMA ReferencesNat ==
  ASSUME NEW d, Types(d), NEW id
  PROVE  References(d, id) \in Nat
<1>1. Cardinality(Waiting(d.ctx, id)) \in Nat /\ Cardinality(Keeping(d.kept, id)) \in Nat
  BY ReferencesFinite DEF Types
<1> QED
  BY <1>1 DEF References

\* What is no message of a queue and no count may change.
LEMMA ExactAlike ==
  ASSUME NEW d, NEW e, NEW held, Exact(d, held), Types(e),
         SameCounts(d, e), e.kept = d.kept,
         \A c \in Clients : SameMessages(d.ctx[c].msgs, e.ctx[c].msgs) /\ CountGoesOn(d.ctx[c], e.ctx[c])
  PROVE  Exact(e, held)
<1>1. NothingDangles(e, held)
  BY DEF Exact, NothingDangles, SameCounts, SameMessages
<1>2. \A id : References(e, id) = References(d, id)
  <2> TAKE id
  <2>1. Waiting(e.ctx, id) = Waiting(d.ctx, id)
    BY WaitingSame DEF SameMessages
  <2> QED BY <2>1 DEF References
<1>3. AllCounted(e, held)
  BY <1>2 DEF Exact, AllCounted, SameCounts
<1>4. ASSUME NEW c \in Clients
      PROVE  Count12(e.ctx[c].msgs) = Count12(d.ctx[c].msgs)
  BY CountSame DEF SameMessages
<1>5. QueuesCounted(e)
  BY <1>4 DEF Exact, QueuesCounted, CountGoesOn
<1>6. IncomingIsStored(e)
  <2> SUFFICES ASSUME NEW c \in Clients, NEW k \in DOMAIN e.ctx[c].msgs, e.ctx[c].msgs[k].dir = "in"
               PROVE  AsPublished(e.store[e.ctx[c].msgs[k].id], e.ctx[c].msgs[k])
    BY DEF IncomingIsStored
  <2>1. /\ k \in DOMAIN d.ctx[c].msgs /\ d.ctx[c].msgs[k].dir = "in"
        /\ e.ctx[c].msgs[k].id = d.ctx[c].msgs[k].id /\ e.ctx[c].msgs[k].mid = d.ctx[c].msgs[k].mid
        /\ e.ctx[c].msgs[k].retain = d.ctx[c].msgs[k].retain
    BY DEF SameMessages
  <2>2. /\ AsPublished(d.store[d.ctx[c].msgs[k].id], d.ctx[c].msgs[k])
        /\ d.ctx[c].msgs[k].id \in DOMAIN d.store
    BY <2>1 DEF Exact, IncomingIsStored, NothingDangles
  <2> QED BY <2>1, <2>2 DEF SameCounts, AsPublished
<1>7. KeptAsPublished(e)
  BY DEF Exact, NothingDangles, SameCounts, KeptAsPublished
<1> QED
  BY <1>1, <1>3, <1>5, <1>6, <1>7 DEF Exact

\* A reference that the handler holds goes to the end of a queue.
LEMMA ExactAppended ==
  ASSUME NEW d, NEW e, NEW held, Exact(d, held), Types(e),
         SameCounts(d, e), e.kept = d.kept,
         NEW c \in Clients, NEW m \in Msg, held[m.id] # 0,
         \A b \in Clients \ {c} : e.ctx[b] = d.ctx[b],
         e.ctx[c].msgs = Append(d.ctx[c].msgs, m),
         e.ctx[c].sock => d.ctx[c].sock /\ e.ctx[c].n12 = d.ctx[c].n12 + (IF m.qos > 0 THEN 1 ELSE 0),
         m.dir = "in" => AsPublished(d.store[m.id], m)
  PROVE  Exact(e, Giving(held, m.id))
<1> DEFINE n == Len(d.ctx[c].msgs)
<1>1. /\ m.id \in Nat /\ held \in [Nat -> Nat] /\ m.id \in DOMAIN d.store
      /\ d.ctx \in [Clients -> Context] /\ e.ctx \in [Clients -> Context]
  BY DEF Msg, Exact, Held, NothingDangles, Types
<1>2. /\ d.ctx[c].msgs \in Seq(Msg) /\ n \in Nat /\ DOMAIN d.ctx[c].msgs = 1 .. n
      /\ DOMAIN e.ctx[c].msgs = 1 .. n + 1 /\ e.ctx[c].msgs[n + 1] = m
      /\ \A k \in 1 .. n : e.ctx[c].msgs[k] = d.ctx[c].msgs[k]
  <2>1. d.ctx[c].msgs \in Seq(Msg)
    BY <1>1 DEF Context
  <2> QED BY <2>1, SMTT(30)
<1>3. ASSUME NEW b \in Clients, NEW k \in DOMAIN e.ctx[b].msgs
      PROVE  \/ k \in DOMAIN d.ctx[b].msgs /\ e.ctx[b].msgs[k] = d.ctx[b].msgs[k]
             \/ b = c /\ e.ctx[b].msgs[k] = m
  <2>1. CASE b = c
    <3>1. k \in 1 .. n \/ k = n + 1
      <4>1. k \in 1 .. n + 1
        BY <1>2, <2>1
      <4> HIDE DEF n
      <4> QED BY ONLY <1>2, <4>1
    <3> QED BY <1>2, <2>1, <3>1
  <2>2. CASE b # c
    BY <2>2
  <2> QED BY <2>1, <2>2
<1>4. Giving(held, m.id) \in Held
  <2>1. held[m.id] - 1 \in Nat
    <3>1. held[m.id] \in Nat
      BY <1>1
    <3> QED BY <3>1
  <2> QED BY <1>1, <2>1 DEF Giving, Held
<1>5. NothingDangles(e, Giving(held, m.id))
  <2>1. \A b \in Clients : \A k \in DOMAIN e.ctx[b].msgs : e.ctx[b].msgs[k].id \in DOMAIN e.store
    BY <1>1, <1>3 DEF Exact, NothingDangles, SameCounts
  <2>2. \A t \in Names : e.kept[t] # 0 => e.kept[t] \in DOMAIN e.store
    BY DEF Exact, NothingDangles, SameCounts
  <2>3. \A id \in Nat : Giving(held, m.id)[id] # 0 => id \in DOMAIN e.store
    BY <1>1 DEF Exact, NothingDangles, SameCounts, Giving
  <2> QED BY <2>1, <2>2, <2>3 DEF NothingDangles
<1>6. AllCounted(e, Giving(held, m.id))
  <2> SUFFICES ASSUME NEW id \in DOMAIN e.store
               PROVE  e.store[id].refs = References(e, id) + Giving(held, m.id)[id]
    BY DEF AllCounted
  <2>1. id \in DOMAIN d.store /\ e.store[id].refs = d.store[id].refs /\ id \in Nat
    BY DEF SameCounts, Exact, Types
  <2>2. d.store[id].refs = References(d, id) + held[id]
    BY <2>1 DEF Exact, AllCounted
  <2>3. Cardinality(Waiting(e.ctx, id)) = Cardinality(Waiting(d.ctx, id)) + (IF m.id = id THEN 1 ELSE 0)
    <3>1. \A b \in Clients \ {c} : e.ctx[b].msgs = d.ctx[b].msgs
      OBVIOUS
    <3>2. (\A k \in 1 .. n : e.ctx[c].msgs[k].id = d.ctx[c].msgs[k].id) /\ e.ctx[c].msgs[n + 1].id = m.id
      BY <1>2
    <3>3. DOMAIN e.ctx[c].msgs = 1 .. Len(d.ctx[c].msgs) + 1
          /\ \A k \in DOMAIN d.ctx[c].msgs : e.ctx[c].msgs[k].id = d.ctx[c].msgs[k].id
      BY <1>2
    <3>4. Cardinality(Waiting(e.ctx, id))
            = Cardinality(Waiting(d.ctx, id)) + (IF e.ctx[c].msgs[Len(d.ctx[c].msgs) + 1].id = id THEN 1 ELSE 0)
      <4>1. d.ctx \in [Clients -> Context] /\ e.ctx \in [Clients -> Context]
        BY <1>1
      <4> QED BY ONLY <3>1, <3>3, <4>1, c \in Clients, WaitingAppended, SMT
    <3> QED BY <3>2, <3>4
  <2>4. References(e, id) = References(d, id) + (IF m.id = id THEN 1 ELSE 0)
    <3>1. Cardinality(Waiting(d.ctx, id)) \in Nat /\ Cardinality(Keeping(d.kept, id)) \in Nat
      BY <1>1, ReferencesFinite
    <3> QED BY <2>3, <3>1 DEF References
  <2>5. References(d, id) \in Nat
    BY ReferencesNat DEF Exact
  <2>6. Giving(held, m.id)[id] = held[id] - (IF m.id = id THEN 1 ELSE 0) /\ held[id] \in Nat
    <3>1. held[id] \in Nat /\ held[m.id] \in Nat
      BY <1>1, <2>1
    <3>2. Giving(held, m.id)[id] = IF id = m.id THEN held[id] - 1 ELSE held[id]
      BY <1>1, <2>1 DEF Giving
    <3> QED BY <3>1, <3>2
  <2> QED BY <2>1, <2>2, <2>4, <2>5, <2>6
<1>7. QueuesCounted(e)
  <2> SUFFICES ASSUME NEW b \in Clients, e.ctx[b].sock
               PROVE  e.ctx[b].n12 = Count12(e.ctx[b].msgs)
    BY DEF QueuesCounted
  <2>1. CASE b = c
    <3>1. d.ctx[c].n12 = Count12(d.ctx[c].msgs)
      BY <2>1 DEF Exact, QueuesCounted
    <3>2. Count12(e.ctx[c].msgs) = Count12(d.ctx[c].msgs) + (IF m.qos > 0 THEN 1 ELSE 0)
      BY <1>2, CountAppended
    <3> QED BY <2>1, <3>1, <3>2
  <2>2. CASE b # c
    BY <2>2 DEF Exact, QueuesCounted
  <2> QED BY <2>1, <2>2
<1>8. IncomingIsStored(e)
  <2> SUFFICES ASSUME NEW b \in Clients, NEW k \in DOMAIN e.ctx[b].msgs, e.ctx[b].msgs[k].dir = "in"
               PROVE  AsPublished(e.store[e.ctx[b].msgs[k].id], e.ctx[b].msgs[k])
    BY DEF IncomingIsStored
  <2>1. CASE b = c /\ e.ctx[b].msgs[k] = m
    BY <1>1, <2>1 DEF SameCounts, AsPublished
  <2>2. CASE k \in DOMAIN d.ctx[b].msgs /\ e.ctx[b].msgs[k] = d.ctx[b].msgs[k]
    <3> DEFINE i == d.ctx[b].msgs[k].id
    <3>1. i \in DOMAIN d.store /\ AsPublished(d.store[i], d.ctx[b].msgs[k])
      BY <2>2 DEF Exact, IncomingIsStored, NothingDangles
    <3>2. e.store[i].smid = d.store[i].smid /\ e.store[i].m = d.store[i].m
      BY <3>1 DEF SameCounts
    <3> QED BY <2>2, <3>1, <3>2 DEF AsPublished
  <2> QED BY <1>3, <2>1, <2>2
<1>9. KeptAsPublished(e)
  BY DEF Exact, NothingDangles, SameCounts, KeptAsPublished
<1> QED
  BY <1>4, <1>5, <1>6, <1>7, <1>8, <1>9 DEF Exact

\* What Holding and Giving make of the references that are held.
LEMMA HeldChanges ==
  ASSUME NEW held \in Held, NEW id \in Nat
  PROVE  /\ Holding(held, id) \in Held
         /\ \A i \in Nat : Holding(held, id)[i] = held[i] + (IF i = id THEN 1 ELSE 0) /\ held[i] \in Nat
         /\ held[id] # 0 => Giving(held, id) \in Held
         /\ \A i \in Nat : Giving(held, id)[i] = held[i] - (IF i = id THEN 1 ELSE 0)
         /\ Giving(Holding(held, id), id) = held
<1>1. held \in [Nat -> Nat]
  BY DEF Held
<1>2. Holding(held, id) = [i \in Nat |-> IF i = id THEN held[i] + 1 ELSE held[i]]
  BY <1>1 DEF Holding
<1>3. Giving(held, id) = [i \in Nat |-> IF i = id THEN held[i] - 1 ELSE held[i]]
  BY <1>1 DEF Giving
<1>4. Holding(held, id) \in Held
  BY <1>1, <1>2 DEF Held
<1>5. held[id] # 0 => Giving(held, id) \in Held
  <2> SUFFICES ASSUME held[id] # 0
               PROVE  \A i \in Nat : (IF i = id THEN held[i] - 1 ELSE held[i]) \in Nat
    BY <1>3 DEF Held
  <2>1. \A i \in Nat : held[i] \in Nat
    BY <1>1
  <2> QED BY <2>1
<1>6. Giving(Holding(held, id), id) = held
  <2>1. Giving(Holding(held, id), id)
          = [i \in Nat |-> IF i = id THEN Holding(held, id)[i] - 1 ELSE Holding(held, id)[i]]
    BY <1>2 DEF Giving
  <2>2. \A i \in Nat : (IF i = id THEN Holding(held, id)[i] - 1 ELSE Holding(held, id)[i]) = held[i]
    BY <1>1, <1>2
  <2> QED BY <1>1, <2>1, <2>2
<1> QED
  BY <1>1, <1>2, <1>3, <1>4, <1>5, <1>6

\* The reference of a message that is taken from a queue goes to the handler.
LEMMA ExactRemoved ==
  ASSUME NEW d, NEW e, NEW held, Exact(d, held), Types(e),
         SameCounts(d, e), e.kept = d.kept,
         NEW c \in Clients, NEW k \in DOMAIN d.ctx[c].msgs,
         \A b \in Clients \ {c} : e.ctx[b] = d.ctx[b],
         SameMessages(RemoveAt(d.ctx[c].msgs, k), e.ctx[c].msgs),
         e.ctx[c].sock =>
           d.ctx[c].sock /\ e.ctx[c].n12 = d.ctx[c].n12 - (IF d.ctx[c].msgs[k].qos > 0 THEN 1 ELSE 0)
  PROVE  Exact(e, Holding(held, d.ctx[c].msgs[k].id))
<1> DEFINE msgs == d.ctx[c].msgs
           n == Len(msgs)
           gone == msgs[k].id
<1>1. d.ctx \in [Clients -> Context] /\ e.ctx \in [Clients -> Context] /\ held \in Held
  BY DEF Exact, Types
<1>2. /\ msgs \in Seq(Msg) /\ n \in Nat /\ DOMAIN msgs = 1 .. n /\ k \in 1 .. n /\ gone \in Nat
      /\ gone \in DOMAIN d.store
  <2>1. msgs \in Seq(Msg)
    BY <1>1 DEF Context
  <2>2. gone \in DOMAIN d.store
    BY DEF Exact, NothingDangles
  <2>3. gone \in Nat
    BY <2>2 DEF Exact, Types
  <2> QED BY <2>1, <2>2, <2>3
<1>3. /\ DOMAIN e.ctx[c].msgs = 1 .. n - 1
      /\ \A j \in 1 .. n - 1 :
           LET old == msgs[IF j < k THEN j ELSE j + 1]
           IN  /\ e.ctx[c].msgs[j].id = old.id /\ e.ctx[c].msgs[j].dir = old.dir
               /\ e.ctx[c].msgs[j].mid = old.mid /\ e.ctx[c].msgs[j].qos = old.qos
               /\ e.ctx[c].msgs[j].retain = old.retain
  <2> DEFINE rest == RemoveAt(msgs, k)
  <2>1. DOMAIN rest = 1 .. n - 1 /\ \A j \in 1 .. n - 1 : rest[j] = msgs[IF j < k THEN j ELSE j + 1]
    BY <1>2, RemovedElements
  <2>2. /\ DOMAIN e.ctx[c].msgs = DOMAIN rest
        /\ \A j \in DOMAIN rest : /\ e.ctx[c].msgs[j].id = rest[j].id /\ e.ctx[c].msgs[j].dir = rest[j].dir
                                  /\ e.ctx[c].msgs[j].mid = rest[j].mid /\ e.ctx[c].msgs[j].qos = rest[j].qos
                                  /\ e.ctx[c].msgs[j].retain = rest[j].retain
    BY DEF SameMessages
  <2> HIDE DEF rest
  <2> QED BY <2>1, <2>2
<1>4. ASSUME NEW b \in Clients, NEW j \in DOMAIN e.ctx[b].msgs
      PROVE  \E i \in DOMAIN d.ctx[b].msgs :
               /\ e.ctx[b].msgs[j].id = d.ctx[b].msgs[i].id /\ e.ctx[b].msgs[j].dir = d.ctx[b].msgs[i].dir
               /\ e.ctx[b].msgs[j].mid = d.ctx[b].msgs[i].mid
               /\ e.ctx[b].msgs[j].retain = d.ctx[b].msgs[i].retain
  <2>1. CASE b = c
    <3>1. j \in 1 .. n - 1
      BY <1>3, <2>1
    <3>2. (IF j < k THEN j ELSE j + 1) \in 1 .. n
      BY <1>2, <3>1
    <3> QED BY <1>2, <1>3, <2>1, <3>1, <3>2
  <2>2. CASE b # c
    BY <2>2
  <2> QED BY <2>1, <2>2
<1>5. NothingDangles(e, Holding(held, gone))
  <2>1. \A b \in Clients : \A j \in DOMAIN e.ctx[b].msgs : e.ctx[b].msgs[j].id \in DOMAIN e.store
    BY <1>4 DEF Exact, NothingDangles, SameCounts
  <2>2. \A t \in Names : e.kept[t] # 0 => e.kept[t] \in DOMAIN e.store
    BY DEF Exact, NothingDangles, SameCounts
  <2>3. \A id \in Nat : Holding(held, gone)[id] # 0 => id \in DOMAIN e.store
    <3>1. \A id \in Nat : Holding(held, gone)[id] # 0 => held[id] # 0 \/ id = gone
      <4> TAKE id \in Nat
      <4>1. Holding(held, gone)[id] = held[id] + (IF id = gone THEN 1 ELSE 0) /\ held[id] \in Nat
        BY <1>1, <1>2, HeldChanges, ZenonT(60)
      <4> HIDE DEF gone
      <4> QED BY <4>1
    <3> QED BY <1>2, <3>1 DEF Exact, NothingDangles, SameCounts
  <2> QED BY <2>1, <2>2, <2>3 DEF NothingDangles
<1>6. AllCounted(e, Holding(held, gone))
  <2> SUFFICES ASSUME NEW id \in DOMAIN e.store
               PROVE  e.store[id].refs = References(e, id) + Holding(held, gone)[id]
    BY DEF AllCounted
  <2>1. id \in DOMAIN d.store /\ e.store[id].refs = d.store[id].refs /\ id \in Nat
    BY DEF SameCounts, Exact, Types
  <2>2. d.store[id].refs = References(d, id) + held[id]
    BY <2>1 DEF Exact, AllCounted
  <2>3. Cardinality(Waiting(e.ctx, id)) = Cardinality(Waiting(d.ctx, id)) - (IF gone = id THEN 1 ELSE 0)
    <3>1. \A b \in Clients \ {c} : e.ctx[b].msgs = d.ctx[b].msgs
      OBVIOUS
    <3>2. /\ DOMAIN e.ctx[c].msgs = 1 .. Len(d.ctx[c].msgs) - 1
          /\ \A j \in DOMAIN e.ctx[c].msgs : e.ctx[c].msgs[j].id = RemoveAt(d.ctx[c].msgs, k)[j].id
      BY <1>3 DEF SameMessages
    <3>3. d.ctx \in [Clients -> Context] /\ e.ctx \in [Clients -> Context]
      BY <1>1
    <3> QED BY ONLY <3>1, <3>2, <3>3, c \in Clients, k \in DOMAIN d.ctx[c].msgs, WaitingRemoved, SMTT(30)
  <2>4. References(e, id) = References(d, id) - (IF gone = id THEN 1 ELSE 0)
    <3>1. Cardinality(Waiting(d.ctx, id)) \in Nat /\ Cardinality(Keeping(d.kept, id)) \in Nat
      BY <1>1, ReferencesFinite
    <3> QED BY <2>3, <3>1 DEF References
  <2>5. References(d, id) \in Nat
    BY ReferencesNat DEF Exact
  <2>6. Holding(held, gone)[id] = held[id] + (IF id = gone THEN 1 ELSE 0) /\ held[id] \in Nat
    BY <1>1, <1>2, <2>1, HeldChanges, ZenonT(60)
  <2> QED BY <2>1, <2>2, <2>4, <2>5, <2>6
<1>7. QueuesCounted(e)
  <2> SUFFICES ASSUME NEW b \in Clients, e.ctx[b].sock
               PROVE  e.ctx[b].n12 = Count12(e.ctx[b].msgs)
    BY DEF QueuesCounted
  <2>1. CASE b = c
    <3>1. d.ctx[c].n12 = Count12(msgs)
      BY <2>1 DEF Exact, QueuesCounted
    <3>2. Count12(e.ctx[c].msgs) = Count12(RemoveAt(msgs, k))
      BY CountSame DEF SameMessages
    <3>3. Count12(RemoveAt(msgs, k)) = Count12(msgs) - (IF msgs[k].qos > 0 THEN 1 ELSE 0)
      BY <1>2, CountRemoved
    <3> QED BY <2>1, <3>1, <3>2, <3>3
  <2>2. CASE b # c
    BY <2>2 DEF Exact, QueuesCounted
  <2> QED BY <2>1, <2>2
<1>8. IncomingIsStored(e)
  <2> SUFFICES ASSUME NEW b \in Clients, NEW j \in DOMAIN e.ctx[b].msgs, e.ctx[b].msgs[j].dir = "in"
               PROVE  AsPublished(e.store[e.ctx[b].msgs[j].id], e.ctx[b].msgs[j])
    BY DEF IncomingIsStored
  <2>1. PICK i \in DOMAIN d.ctx[b].msgs :
               /\ e.ctx[b].msgs[j].id = d.ctx[b].msgs[i].id /\ e.ctx[b].msgs[j].dir = d.ctx[b].msgs[i].dir
               /\ e.ctx[b].msgs[j].mid = d.ctx[b].msgs[i].mid
               /\ e.ctx[b].msgs[j].retain = d.ctx[b].msgs[i].retain
    BY <1>4
  <2>2. /\ AsPublished(d.store[d.ctx[b].msgs[i].id], d.ctx[b].msgs[i])
        /\ d.ctx[b].msgs[i].id \in DOMAIN d.store
    BY <2>1 DEF Exact, IncomingIsStored, NothingDangles
  <2> QED BY <2>1, <2>2 DEF SameCounts, AsPublished
<1>9. Holding(held, gone) \in Held
  BY <1>1, <1>2, HeldChanges
<1>10. KeptAsPublished(e)
  BY DEF Exact, NothingDangles, SameCounts, KeptAsPublished
<1> QED
  BY <1>5, <1>6, <1>7, <1>8, <1>9, <1>10 DEF Exact

\* The handler gives its reference to a topic that keeps nothing.
LEMMA ExactKept ==
  ASSUME NEW d, NEW held, Exact(d, held), NEW t \in Names, NEW id \in Nat, id # 0,
         held[id] # 0, d.kept[t] = 0, Keepable(d.store[id].m, t)
  PROVE  Exact([d EXCEPT !.kept[t] = id], Giving(held, id))
<1> DEFINE e == [d EXCEPT !.kept[t] = id]
<1>1. /\ d.kept \in [Names -> Nat] /\ d.ctx \in [Clients -> Context] /\ held \in Held
      /\ DOMAIN d.store \subseteq 1 .. d.last /\ d.last \in Nat
  BY DEF Exact, Types
<1>2. /\ e.store = d.store /\ e.ctx = d.ctx /\ e.kept = [d.kept EXCEPT ![t] = id]
      /\ e.last = d.last /\ e.subs = d.subs
      /\ e = [store |-> e.store, last |-> e.last, kept |-> e.kept, subs |-> e.subs, ctx |-> e.ctx, out |-> e.out]
  BY DEF Exact, Types
<1> HIDE DEF e
<1>3. Types(e)
  <2>1. e.kept \in [Names -> Nat]
    BY <1>1, <1>2
  <2> QED BY <1>2, <2>1 DEF Exact, Types
<1>4. NothingDangles(e, Giving(held, id))
  <2>1. id \in DOMAIN d.store
    BY DEF Exact, NothingDangles
  <2>2. \A i \in Nat : Giving(held, id)[i] # 0 => i \in DOMAIN d.store
    <3> TAKE i \in Nat
    <3>1. Giving(held, id)[i] = held[i] - (IF i = id THEN 1 ELSE 0) /\ held[i] \in Nat
      BY <1>1, HeldChanges
    <3> QED BY <2>1, <3>1 DEF Exact, NothingDangles
  <2> QED BY <1>1, <1>2, <2>1, <2>2 DEF Exact, NothingDangles
<1>5. AllCounted(e, Giving(held, id))
  <2> SUFFICES ASSUME NEW i \in DOMAIN d.store
               PROVE  d.store[i].refs = References(e, i) + Giving(held, id)[i]
    BY <1>2 DEF AllCounted
  <2>1. i \in Nat /\ i # 0
    BY <1>1
  <2>2. d.store[i].refs = References(d, i) + held[i]
    BY DEF Exact, AllCounted
  <2>3. Cardinality(Keeping(e.kept, i)) = Cardinality(Keeping(d.kept, i)) + (IF i = id THEN 1 ELSE 0)
    <3>1. Cardinality(Keeping([d.kept EXCEPT ![t] = id], i))
            = Cardinality(Keeping(d.kept, i)) + (IF i = id THEN 1 ELSE 0) - (IF i = d.kept[t] THEN 1 ELSE 0)
      BY <1>1, <2>1, KeepingChanges, ZenonT(60)
    <3>2. Cardinality(Keeping(d.kept, i)) \in Nat
      BY <1>1, ReferencesFinite
    <3> QED BY <1>2, <2>1, <3>1, <3>2
  <2>4. Cardinality(Waiting(d.ctx, i)) \in Nat /\ Cardinality(Keeping(d.kept, i)) \in Nat
    BY <1>1, ReferencesFinite
  <2>5. References(e, i) = References(d, i) + (IF i = id THEN 1 ELSE 0)
    BY <1>2, <2>3, <2>4 DEF References
  <2>6. Giving(held, id)[i] = held[i] - (IF i = id THEN 1 ELSE 0) /\ held[i] \in Nat
    BY <1>1, <2>1, HeldChanges, ZenonT(60)
  <2>7. References(d, i) \in Nat
    BY ReferencesNat DEF Exact
  <2> QED BY <2>2, <2>5, <2>6, <2>7
<1>6. QueuesCounted(e) /\ IncomingIsStored(e)
  BY <1>2 DEF Exact, QueuesCounted, IncomingIsStored
<1>7. Giving(held, id) \in Held
  BY <1>1, HeldChanges
<1>8. KeptAsPublished(e)
  BY <1>1, <1>2 DEF Exact, KeptAsPublished
<1> QED
  BY <1>3, <1>4, <1>5, <1>6, <1>7, <1>8 DEF Exact, e

\* A topic gives the reference to the message that it has kept to the handler.
LEMMA ExactCleared ==
  ASSUME NEW d, NEW held, Exact(d, held), NEW t \in Names, d.kept[t] # 0
  PROVE  Exact([d EXCEPT !.kept[t] = 0], Holding(held, d.kept[t]))
<1> DEFINE e == [d EXCEPT !.kept[t] = 0]
           id == d.kept[t]
<1>1. /\ d.kept \in [Names -> Nat] /\ d.ctx \in [Clients -> Context] /\ held \in Held
      /\ DOMAIN d.store \subseteq 1 .. d.last /\ d.last \in Nat /\ id \in Nat
  BY DEF Exact, Types
<1>2. /\ e.store = d.store /\ e.ctx = d.ctx /\ e.kept = [d.kept EXCEPT ![t] = 0]
      /\ e.last = d.last /\ e.subs = d.subs
      /\ e = [store |-> e.store, last |-> e.last, kept |-> e.kept, subs |-> e.subs, ctx |-> e.ctx, out |-> e.out]
  BY DEF Exact, Types
<1> HIDE DEF e
<1>3. Types(e)
  <2>1. e.kept \in [Names -> Nat]
    BY <1>1, <1>2
  <2> QED BY <1>2, <2>1 DEF Exact, Types
<1>4. NothingDangles(e, Holding(held, id))
  <2>1. id \in DOMAIN d.store
    BY DEF Exact, NothingDangles
  <2>2. \A i \in Nat : Holding(held, id)[i] # 0 => i \in DOMAIN d.store
    <3> TAKE i \in Nat
    <3>1. Holding(held, id)[i] = held[i] + (IF i = id THEN 1 ELSE 0) /\ held[i] \in Nat
      BY <1>1, HeldChanges
    <3> QED BY <2>1, <3>1 DEF Exact, NothingDangles
  <2> QED BY <1>1, <1>2, <2>1, <2>2 DEF Exact, NothingDangles
<1>5. AllCounted(e, Holding(held, id))
  <2> SUFFICES ASSUME NEW i \in DOMAIN d.store
               PROVE  d.store[i].refs = References(e, i) + Holding(held, id)[i]
    BY <1>2 DEF AllCounted
  <2>1. i \in Nat /\ i # 0
    BY <1>1
  <2>2. d.store[i].refs = References(d, i) + held[i]
    BY DEF Exact, AllCounted
  <2>3. Cardinality(Keeping(e.kept, i)) = Cardinality(Keeping(d.kept, i)) - (IF i = id THEN 1 ELSE 0)
    <3>1. Cardinality(Keeping([d.kept EXCEPT ![t] = 0], i))
            = Cardinality(Keeping(d.kept, i)) + (IF i = 0 THEN 1 ELSE 0) - (IF i = d.kept[t] THEN 1 ELSE 0)
      BY <1>1, <2>1, KeepingChanges
    <3>2. Cardinality(Keeping(d.kept, i)) \in Nat
      BY <1>1, ReferencesFinite
    <3> QED BY <1>2, <2>1, <3>1, <3>2
  <2>4. Cardinality(Waiting(d.ctx, i)) \in Nat /\ Cardinality(Keeping(d.kept, i)) \in Nat
    BY <1>1, ReferencesFinite
  <2>5. References(e, i) = References(d, i) - (IF i = id THEN 1 ELSE 0)
    BY <1>2, <2>3, <2>4 DEF References
  <2>6. Holding(held, id)[i] = held[i] + (IF i = id THEN 1 ELSE 0) /\ held[i] \in Nat
    BY <1>1, <2>1, HeldChanges
  <2>7. References(d, i) \in Nat
    BY ReferencesNat DEF Exact
  <2> QED BY <2>2, <2>5, <2>6, <2>7
<1>6. QueuesCounted(e) /\ IncomingIsStored(e)
  BY <1>2 DEF Exact, QueuesCounted, IncomingIsStored
<1>7. Holding(held, id) \in Held
  BY <1>1, HeldChanges
<1>8. KeptAsPublished(e)
  BY <1>1, <1>2 DEF Exact, KeptAsPublished
<1> QED
  BY <1>3, <1>4, <1>5, <1>6, <1>7, <1>8 DEF Exact, e

-----------------------------------------------------------------------------
\* A function of the broker that changes the store only, or the contexts only and what is sent.
OnlyStore(d, e) ==
  e = [store |-> e.store, last |-> d.last, kept |-> d.kept, subs |-> d.subs, ctx |-> d.ctx, out |-> d.out]

OnlyContexts(d, e) ==
  e = [store |-> d.store, last |-> d.last, kept |-> d.kept, subs |-> d.subs, ctx |-> e.ctx, out |-> e.out]

\* The messages that come in agree with the store as long as the store says the same of them.
LEMMA IncomingStays ==
  ASSUME NEW d, NEW e, e.ctx = d.ctx, IncomingIsStored(d),
         \A c \in Clients : \A k \in DOMAIN d.ctx[c].msgs :
           LET i == d.ctx[c].msgs[k].id
           IN  e.store[i].smid = d.store[i].smid /\ e.store[i].m = d.store[i].m
  PROVE  IncomingIsStored(e)
<1> SUFFICES ASSUME NEW c \in Clients, NEW k \in DOMAIN d.ctx[c].msgs, d.ctx[c].msgs[k].dir = "in"
             PROVE  AsPublished(e.store[d.ctx[c].msgs[k].id], d.ctx[c].msgs[k])
  BY DEF IncomingIsStored
<1> DEFINE i == d.ctx[c].msgs[k].id
<1>1. AsPublished(d.store[i], d.ctx[c].msgs[k])
  BY DEF IncomingIsStored
<1>2. e.store[i].smid = d.store[i].smid /\ e.store[i].m = d.store[i].m
  OBVIOUS
<1> QED
  BY <1>1, <1>2 DEF AsPublished

\* A handler takes a reference to a message that is there.
LEMMA ExactRef ==
  ASSUME NEW d, NEW held, Exact(d, held), NEW id \in DOMAIN d.store
  PROVE  /\ Exact(Ref(d, id), Holding(held, id))
         /\ OnlyStore(d, Ref(d, id)) /\ DOMAIN Ref(d, id).store = DOMAIN d.store
         /\ SameContent(d, Ref(d, id))
<1> DEFINE e == Ref(d, id)
<1>1. /\ d.store \in [DOMAIN d.store -> Stored] /\ held \in Held /\ id \in Nat
      /\ DOMAIN d.store \subseteq Nat
  BY DEF Exact, Types
<1>2. OnlyStore(d, e) /\ e.store = [d.store EXCEPT ![id].refs = @ + 1]
  <2>1. e = [store |-> [d.store EXCEPT ![id].refs = @ + 1], last |-> d.last, kept |-> d.kept,
             subs |-> d.subs, ctx |-> d.ctx, out |-> d.out]
    BY DEF Exact, Types, Ref
  <2> HIDE DEF e
  <2> QED BY <2>1 DEF OnlyStore
<1> HIDE DEF e
<1>3. /\ DOMAIN e.store = DOMAIN d.store
      /\ \A i \in DOMAIN d.store :
           /\ e.store[i].refs = d.store[i].refs + (IF i = id THEN 1 ELSE 0)
           /\ e.store[i].smid = d.store[i].smid /\ e.store[i].m = d.store[i].m
           /\ e.store[i].source = d.store[i].source
           /\ e.store[i] \in Stored
  <2>1. DOMAIN e.store = DOMAIN d.store
    BY <1>1, <1>2
  <2>2. ASSUME NEW i \in DOMAIN d.store
        PROVE  /\ e.store[i].refs = d.store[i].refs + (IF i = id THEN 1 ELSE 0)
               /\ e.store[i].smid = d.store[i].smid /\ e.store[i].m = d.store[i].m
               /\ e.store[i].source = d.store[i].source
               /\ e.store[i] \in Stored
    <3>1. d.store[i] \in Stored
      BY <1>1
    <3>2. e.store[i] = IF i = id THEN [d.store[i] EXCEPT !.refs = @ + 1] ELSE d.store[i]
      BY <1>1, <1>2
    <3> QED BY <3>1, <3>2 DEF Stored
  <2> QED BY <2>1, <2>2
<1>4. Types(e)
  <2>1. e.store \in [DOMAIN e.store -> Stored]
    <3>1. e.store = [i \in DOMAIN e.store |-> e.store[i]]
      BY <1>1, <1>2
    <3> QED BY <1>3, <3>1
  <2> QED BY <1>2, <1>3, <2>1 DEF OnlyStore, Exact, Types
<1>5. /\ Holding(held, id) \in Held
      /\ \A i \in Nat : Holding(held, id)[i] = held[i] + (IF i = id THEN 1 ELSE 0) /\ held[i] \in Nat
  BY <1>1, HeldChanges
<1>6. NothingDangles(e, Holding(held, id))
  <2>1. \A i \in Nat : Holding(held, id)[i] # 0 => i = id \/ held[i] # 0
    BY <1>5
  <2> QED BY <1>2, <1>3, <2>1 DEF OnlyStore, Exact, NothingDangles
<1>7. AllCounted(e, Holding(held, id))
  <2> SUFFICES ASSUME NEW i \in DOMAIN d.store
               PROVE  e.store[i].refs = References(e, i) + Holding(held, id)[i]
    BY <1>3 DEF AllCounted
  <2>1. References(e, i) = References(d, i)
    BY <1>2 DEF OnlyStore, References
  <2>2. d.store[i].refs = References(d, i) + held[i]
    BY DEF Exact, AllCounted
  <2>3. References(d, i) \in Nat
    BY ReferencesNat DEF Exact
  <2>4. i \in Nat
    BY <1>1
  <2> QED BY <1>3, <1>5, <2>1, <2>2, <2>3, <2>4
<1>8. QueuesCounted(e)
  BY <1>2 DEF OnlyStore, Exact, QueuesCounted
<1>9. IncomingIsStored(e) /\ KeptAsPublished(e)
  <2>1. e.ctx = d.ctx /\ e.kept = d.kept
    BY <1>2 DEF OnlyStore
  <2>2. IncomingIsStored(e)
    <3>1. IncomingIsStored(d) /\ NothingDangles(d, held)
      BY DEF Exact
    <3>2. \A c \in Clients : \A k \in DOMAIN d.ctx[c].msgs :
            LET i == d.ctx[c].msgs[k].id
            IN  e.store[i].smid = d.store[i].smid /\ e.store[i].m = d.store[i].m
      BY <1>3, <3>1 DEF NothingDangles
    <3> QED BY <2>1, <3>1, <3>2, IncomingStays
  <2>3. KeptAsPublished(e)
    <3>1. KeptAsPublished(d) /\ NothingDangles(d, held)
      BY DEF Exact
    <3> QED BY ONLY <1>3, <2>1, <3>1 DEF KeptAsPublished, NothingDangles
  <2> QED BY <2>2, <2>3
<1>10. SameContent(d, e)
  BY <1>3 DEF SameContent
<1> QED
  BY <1>2, <1>3, <1>4, <1>5, <1>6, <1>7, <1>8, <1>9, <1>10 DEF Exact, e

\* A handler gives its reference back; with the last one the message is freed.
LEMMA ExactDeref ==
  ASSUME NEW d, NEW held, Exact(d, held), NEW id \in Nat, held[id] # 0
  PROVE  /\ Exact(Deref(d, id), Giving(held, id))
         /\ OnlyStore(d, Deref(d, id))
         /\ DOMAIN d.store \ {id} \subseteq DOMAIN Deref(d, id).store
         /\ DOMAIN Deref(d, id).store \subseteq DOMAIN d.store
         /\ SameContent(d, Deref(d, id))
<1> DEFINE e == Deref(d, id)
<1>1. /\ d.store \in [DOMAIN d.store -> Stored] /\ held \in Held /\ id \in DOMAIN d.store
      /\ DOMAIN d.store \subseteq Nat
  BY DEF Exact, Types, NothingDangles
<1>2. OnlyStore(d, e)
  BY DEF Exact, Types, OnlyStore, Deref
<1>3. e.store = IF d.store[id].refs = 1 THEN [i \in DOMAIN d.store \ {id} |-> d.store[i]]
                ELSE [d.store EXCEPT ![id].refs = @ - 1]
  BY DEF Exact, Types, Deref, Restrict
<1> HIDE DEF e
<1>4. /\ held[id] \in Nat /\ References(d, id) \in Nat /\ d.store[id].refs = References(d, id) + held[id]
      /\ Giving(held, id) \in Held
      /\ \A i \in Nat : Giving(held, id)[i] = held[i] - (IF i = id THEN 1 ELSE 0)
  <2>1. held[id] \in Nat
    BY <1>1 DEF Held
  <2>2. References(d, id) \in Nat
    BY ReferencesNat DEF Exact
  <2>3. d.store[id].refs = References(d, id) + held[id]
    BY <1>1 DEF Exact, AllCounted
  <2> QED BY <1>1, <2>1, <2>2, <2>3, HeldChanges
<1>5. /\ DOMAIN e.store \subseteq DOMAIN d.store
      /\ DOMAIN d.store \ {id} \subseteq DOMAIN e.store
      /\ id \in DOMAIN e.store <=> d.store[id].refs # 1
      /\ \A i \in DOMAIN e.store :
           /\ e.store[i].refs = d.store[i].refs - (IF i = id THEN 1 ELSE 0)
           /\ e.store[i].smid = d.store[i].smid /\ e.store[i].m = d.store[i].m
           /\ e.store[i].source = d.store[i].source
           /\ e.store[i] \in Stored
  <2>1. CASE d.store[id].refs = 1
    <3>1. e.store = [i \in DOMAIN d.store \ {id} |-> d.store[i]]
      BY <1>3, <2>1
    <3>2. \A i \in DOMAIN d.store : d.store[i] \in Stored /\ d.store[i].refs \in Int
      BY <1>1 DEF Stored
    <3> QED BY <1>1, <2>1, <3>1, <3>2
  <2>2. CASE d.store[id].refs # 1
    <3>1. e.store = [d.store EXCEPT ![id].refs = @ - 1]
      BY <1>3, <2>2
    <3>2. DOMAIN e.store = DOMAIN d.store
      BY <1>1, <3>1
    <3>3. ASSUME NEW i \in DOMAIN d.store
          PROVE  /\ e.store[i].refs = d.store[i].refs - (IF i = id THEN 1 ELSE 0)
                 /\ e.store[i].smid = d.store[i].smid /\ e.store[i].m = d.store[i].m
                 /\ e.store[i].source = d.store[i].source
                 /\ e.store[i] \in Stored
      <4>1. d.store[i] \in Stored
        BY <1>1
      <4>2. e.store[i] = IF i = id THEN [d.store[i] EXCEPT !.refs = @ - 1] ELSE d.store[i]
        BY <1>1, <3>1
      <4> QED BY <4>1, <4>2 DEF Stored
    <3> QED BY <1>1, <2>2, <3>2, <3>3
  <2> QED BY <2>1, <2>2
<1>6. Types(e)
  <2>1. e.store \in [DOMAIN e.store -> Stored]
    <3>1. e.store = [i \in DOMAIN e.store |-> e.store[i]]
      BY <1>1, <1>3
    <3> QED BY <1>5, <3>1
  <2> QED BY <1>2, <1>5, <2>1 DEF OnlyStore, Exact, Types
\* Nothing refers to what is freed: the handler had the one reference.
<1>7. ASSUME id \notin DOMAIN e.store
      PROVE  held[id] = 1 /\ Waiting(d.ctx, id) = {} /\ Keeping(d.kept, id) = {}
  <2>1. held[id] = 1 /\ References(d, id) = 0
    BY <1>4, <1>5, <1>7
  <2>2. d.ctx \in [Clients -> Context]
    BY DEF Exact, Types
  <2>3. /\ IsFiniteSet(Waiting(d.ctx, id)) /\ Cardinality(Waiting(d.ctx, id)) \in Nat
        /\ IsFiniteSet(Keeping(d.kept, id)) /\ Cardinality(Keeping(d.kept, id)) \in Nat
    BY <2>2, ReferencesFinite
  <2>4. Cardinality(Waiting(d.ctx, id)) = 0 /\ Cardinality(Keeping(d.kept, id)) = 0
    BY <2>1, <2>3 DEF References
  <2> QED BY <2>1, <2>3, <2>4, FS_EmptySet
<1>8. NothingDangles(e, Giving(held, id))
  <2>1. \A c \in Clients : \A k \in DOMAIN e.ctx[c].msgs : e.ctx[c].msgs[k].id \in DOMAIN e.store
    <3> SUFFICES ASSUME NEW c \in Clients, NEW k \in DOMAIN d.ctx[c].msgs
                 PROVE  d.ctx[c].msgs[k].id \in DOMAIN e.store
      BY <1>2 DEF OnlyStore
    <3>1. d.ctx[c].msgs[k].id \in DOMAIN d.store
      BY DEF Exact, NothingDangles
    <3>2. <<c, k>> \in Waiting(d.ctx, d.ctx[c].msgs[k].id)
      BY DEF Waiting
    <3> QED BY <1>5, <1>7, <3>1, <3>2
  <2>2. \A t \in Names : e.kept[t] # 0 => e.kept[t] \in DOMAIN e.store
    <3> SUFFICES ASSUME NEW t \in Names, d.kept[t] # 0
                 PROVE  d.kept[t] \in DOMAIN e.store
      BY <1>2 DEF OnlyStore
    <3>1. d.kept[t] \in DOMAIN d.store
      BY DEF Exact, NothingDangles
    <3>2. t \in Keeping(d.kept, d.kept[t])
      BY DEF Keeping
    <3> QED BY <1>5, <1>7, <3>1, <3>2
  <2>3. \A i \in Nat : Giving(held, id)[i] # 0 => i \in DOMAIN e.store
    <3> SUFFICES ASSUME NEW i \in Nat, Giving(held, id)[i] # 0
                 PROVE  i \in DOMAIN e.store
      OBVIOUS
    <3>1. CASE i = id
      <4>1. held[id] # 1
        BY <1>4, <3>1
      <4> QED BY <1>7, <3>1, <4>1
    <3>2. CASE i # id
      <4>1. held[i] \in Nat
        BY <1>1 DEF Held
      <4>2. held[i] # 0
        BY <1>4, <3>2, <4>1
      <4> QED BY <1>5, <3>2, <4>2 DEF Exact, NothingDangles
    <3> QED BY <3>1, <3>2
  <2> QED BY <2>1, <2>2, <2>3 DEF NothingDangles
<1>9. AllCounted(e, Giving(held, id))
  <2> SUFFICES ASSUME NEW i \in DOMAIN e.store
               PROVE  e.store[i].refs = References(e, i) + Giving(held, id)[i]
    BY DEF AllCounted
  <2>1. References(e, i) = References(d, i)
    BY <1>2 DEF OnlyStore, References
  <2>2. d.store[i].refs = References(d, i) + held[i]
    BY <1>5 DEF Exact, AllCounted
  <2>3. References(d, i) \in Nat
    BY ReferencesNat DEF Exact
  <2>4. i \in Nat /\ held[i] \in Nat
    <3>1. i \in Nat
      BY <1>1, <1>5
    <3> QED BY <1>1, <3>1 DEF Held
  <2>5. e.store[i].refs = d.store[i].refs - (IF i = id THEN 1 ELSE 0)
    BY <1>5
  <2>6. Giving(held, id)[i] = held[i] - (IF i = id THEN 1 ELSE 0)
    BY <1>4, <2>4
  <2> QED BY <2>1, <2>2, <2>3, <2>4, <2>5, <2>6
<1>10. QueuesCounted(e)
  BY <1>2 DEF OnlyStore, Exact, QueuesCounted
<1>11. IncomingIsStored(e)
  <2>1. \A c \in Clients : \A k \in DOMAIN e.ctx[c].msgs : e.ctx[c].msgs[k].id \in DOMAIN e.store
    BY <1>8 DEF NothingDangles
  <2>2. e.ctx = d.ctx
    BY <1>2 DEF OnlyStore
  <2>3. IncomingIsStored(d)
    BY DEF Exact
  <2>4. \A c \in Clients : \A k \in DOMAIN d.ctx[c].msgs :
          LET i == d.ctx[c].msgs[k].id
          IN  e.store[i].smid = d.store[i].smid /\ e.store[i].m = d.store[i].m
    BY <1>5, <2>1, <2>2
  <2> QED BY <2>2, <2>3, <2>4, IncomingStays
<1>12. KeptAsPublished(e)
  <2>1. \A t \in Names : e.kept[t] # 0 => e.kept[t] \in DOMAIN e.store
    BY <1>8 DEF NothingDangles
  <2> QED BY <1>2, <1>5, <2>1 DEF OnlyStore, Exact, KeptAsPublished
<1> QED
  BY <1>2, <1>4, <1>5, <1>6, <1>8, <1>9, <1>10, <1>11, <1>12 DEF Exact, SameContent, e

\* A new message: nothing refers to it yet.
LEMMA ExactStored ==
  ASSUME NEW d, NEW held, Exact(d, held), NEW source \in Clients, NEW mid \in Nat, NEW m \in Content
  PROVE  LET e == MessageStore(d, source, mid, m)
         IN  /\ Exact(e, held)
             /\ e.last = d.last + 1 /\ e.kept = d.kept /\ e.subs = d.subs /\ e.ctx = d.ctx
             /\ DOMAIN e.store = DOMAIN d.store \cup {e.last}
             /\ e.store[e.last].smid = mid /\ e.store[e.last].m = m
<1> DEFINE e == MessageStore(d, source, mid, m)
           id == d.last + 1
           stored == [refs |-> 0, source |-> source, smid |-> mid, dests |-> {}, m |-> m]
<1>1. /\ d.store \in [DOMAIN d.store -> Stored] /\ DOMAIN d.store \subseteq 1 .. d.last /\ d.last \in Nat
      /\ held \in [Nat -> Nat] /\ d.kept \in [Names -> Nat]
  BY DEF Exact, Types, Held
<1>2. e = [store |-> [i \in DOMAIN d.store \cup {id} |-> IF i = id THEN stored ELSE d.store[i]],
           last |-> id, kept |-> d.kept, subs |-> d.subs, ctx |-> d.ctx, out |-> d.out]
  <2> DEFINE new == [i \in DOMAIN d.store \cup {id} |-> IF i = id THEN stored ELSE d.store[i]]
  <2>2. e = [d EXCEPT !.last = id, !.store = new]
    BY DEF MessageStore
  <2>3. d = [store |-> d.store, last |-> d.last, kept |-> d.kept, subs |-> d.subs, ctx |-> d.ctx, out |-> d.out]
    BY DEF Exact, Types
  <2> HIDE DEF new, e
  <2>4. e = [store |-> new, last |-> id, kept |-> d.kept, subs |-> d.subs, ctx |-> d.ctx, out |-> d.out]
    BY <2>2, <2>3
  <2> QED BY <2>4 DEF new
<1> HIDE DEF e
<1>3. /\ e.last = id /\ e.kept = d.kept /\ e.subs = d.subs /\ e.ctx = d.ctx /\ e.out = d.out
      /\ DOMAIN e.store = DOMAIN d.store \cup {id}
      /\ id \notin DOMAIN d.store /\ id \in Nat
      /\ e.store[id] = stored /\ \A i \in DOMAIN d.store : e.store[i] = d.store[i]
      /\ e.store = [i \in DOMAIN e.store |-> e.store[i]]
  BY <1>1, <1>2
<1>4. stored \in Stored
  BY DEF Stored
<1> HIDE DEF stored
<1>5. Types(e)
  <2>1. \A i \in DOMAIN e.store : e.store[i] \in Stored
    BY <1>1, <1>3, <1>4
  <2>2. DOMAIN e.store \subseteq 1 .. e.last
    BY <1>1, <1>3
  <2>3. e = [store |-> e.store, last |-> e.last, kept |-> e.kept, subs |-> e.subs, ctx |-> e.ctx, out |-> e.out]
    BY <1>2
  <2> QED BY <1>3, <2>1, <2>2, <2>3 DEF Exact, Types
<1>6. NothingDangles(e, held)
  BY <1>3 DEF Exact, NothingDangles
<1>7. AllCounted(e, held)
  <2> SUFFICES ASSUME NEW i \in DOMAIN e.store
               PROVE  e.store[i].refs = References(e, i) + held[i]
    BY DEF AllCounted
  <2>1. References(e, i) = References(d, i)
    BY <1>3 DEF References
  <2>2. CASE i # id
    BY <1>3, <2>1, <2>2 DEF Exact, AllCounted
  <2>3. CASE i = id
    <3>1. Waiting(d.ctx, id) = {} /\ Keeping(d.kept, id) = {}
      <4>1. id # 0
        BY <1>1
      <4> QED BY <1>3, <4>1 DEF Exact, NothingDangles, Waiting, Keeping
    <3>2. References(d, id) = 0
      BY <3>1, FS_EmptySet DEF References
    <3>3. held[id] = 0
      BY <1>3 DEF Exact, NothingDangles
    <3> QED BY <1>3, <2>1, <2>3, <3>2, <3>3 DEF stored
  <2> QED BY <2>2, <2>3
<1>8. QueuesCounted(e)
  BY <1>3 DEF Exact, QueuesCounted
<1>9. IncomingIsStored(e) /\ KeptAsPublished(e)
  BY <1>3 DEF Exact, IncomingIsStored, NothingDangles, KeptAsPublished
<1>10. e.store[id].smid = mid /\ e.store[id].m = m
  BY <1>3 DEF stored
<1> QED
  BY <1>3, <1>5, <1>6, <1>7, <1>8, <1>9, <1>10 DEF Exact, e

\* A context may change in what is no message of its queue and no count.
LEMMA ExactContext ==
  ASSUME NEW d, NEW held, Exact(d, held), NEW e, OnlyContexts(d, e),
         NEW c \in Clients, NEW x \in Context, e.ctx = [d.ctx EXCEPT ![c] = x],
         SameMessages(d.ctx[c].msgs, x.msgs), CountGoesOn(d.ctx[c], x)
  PROVE  Exact(e, held)
<1>1. /\ e.store = d.store /\ e.last = d.last /\ e.kept = d.kept /\ e.subs = d.subs
      /\ e = [store |-> e.store, last |-> e.last, kept |-> e.kept, subs |-> e.subs, ctx |-> e.ctx, out |-> e.out]
  BY DEF OnlyContexts
<1>2. d.ctx \in [Clients -> Context]
  BY DEF Exact, Types
<1>3. /\ e.ctx \in [Clients -> Context] /\ e.ctx[c] = x
      /\ \A b \in Clients \ {c} : e.ctx[b] = d.ctx[b]
  BY <1>2
<1>4. Types(e)
  BY <1>1, <1>3 DEF Exact, Types
<1>5. SameCounts(d, e)
  BY <1>1 DEF SameCounts
<1>6. ASSUME NEW b \in Clients
      PROVE  SameMessages(d.ctx[b].msgs, e.ctx[b].msgs) /\ CountGoesOn(d.ctx[b], e.ctx[b])
  <2>1. CASE b = c
    BY <1>3, <2>1
  <2>2. CASE b # c
    BY <1>3, <2>2 DEF SameMessages, CountGoesOn
  <2> QED BY <2>1, <2>2
<1> QED
  BY <1>1, <1>4, <1>5, <1>6, ExactAlike

\* What is sent is not remembered.
LEMMA ExactOut ==
  ASSUME NEW d, NEW held, Exact(d, held), NEW e,
         e = [store |-> d.store, last |-> d.last, kept |-> d.kept, subs |-> d.subs, ctx |-> d.ctx, out |-> e.out]
  PROVE  Exact(e, held)
<1>1. /\ e.store = d.store /\ e.last = d.last /\ e.kept = d.kept /\ e.subs = d.subs /\ e.ctx = d.ctx
      /\ e = [store |-> e.store, last |-> e.last, kept |-> e.kept, subs |-> e.subs, ctx |-> e.ctx, out |-> e.out]
  OBVIOUS
<1>2. Types(e) /\ SameCounts(d, e)
  BY <1>1 DEF Exact, Types, SameCounts
<1>3. \A b \in Clients : SameMessages(d.ctx[b].msgs, e.ctx[b].msgs) /\ CountGoesOn(d.ctx[b], e.ctx[b])
  BY <1>1 DEF SameMessages, CountGoesOn
<1> QED
  BY <1>1, <1>2, <1>3, ExactAlike

\* Sending changes nothing else.
LEMMA ExactSend ==
  ASSUME NEW d, NEW held, Exact(d, held), NEW c, NEW packet
  PROVE  LET e == Send(d, c, packet)
         IN  /\ Exact(e, held)
             /\ e = [store |-> d.store, last |-> d.last, kept |-> d.kept, subs |-> d.subs,
                     ctx |-> d.ctx, out |-> e.out]
             /\ e.ctx = d.ctx
<1> DEFINE e == Send(d, c, packet)
<1>1. CASE d.ctx[c].sock
  <2>1. e = [store |-> d.store, last |-> d.last, kept |-> d.kept, subs |-> d.subs,
             ctx |-> d.ctx, out |-> [d.out EXCEPT ![c] = Append(@, packet)]]
    BY <1>1 DEF Exact, Types, Send
  <2> HIDE DEF e
  <2>2. e = [store |-> d.store, last |-> d.last, kept |-> d.kept, subs |-> d.subs, ctx |-> d.ctx, out |-> e.out]
    BY <2>1
  <2> QED BY <2>2, ExactOut DEF e
<1>2. CASE ~d.ctx[c].sock
  BY <1>2 DEF Exact, Types, Send
<1>3. /\ Exact(e, held)
      /\ e = [store |-> d.store, last |-> d.last, kept |-> d.kept, subs |-> d.subs, ctx |-> d.ctx, out |-> e.out]
  BY <1>1, <1>2
<1> HIDE DEF e
<1>4. e.ctx = d.ctx
  BY <1>3
<1> QED
  BY <1>3, <1>4 DEF e

-----------------------------------------------------------------------------
\* A queue whose messages are other states of the same ones.
LEMMA SameIsQueue ==
  ASSUME NEW s \in Seq(Msg), NEW new, new = [j \in DOMAIN s |-> new[j]],
         \A j \in DOMAIN s : new[j] \in Msg
  PROVE  new \in Seq(Msg) /\ Len(new) = Len(s)
<1>1. DOMAIN s = 1 .. Len(s) /\ Len(s) \in Nat
  OBVIOUS
<1>2. new \in [1 .. Len(s) -> Msg]
  BY <1>1
<1> QED
  BY <1>1, <1>2

\* A message of QoS 1 or 2 stays in its queue when it is sent.
LEMMA PublishStates ==
  ASSUME NEW qos \in 0 .. 2
  PROVE  PublishState[qos] \in States /\ (qos > 0 => PublishState[qos] \in Staying)
<1>1. qos \in {0, 1, 2}
  OBVIOUS
<1> QED
  BY <1>1 DEF PublishState, States, Staying

\* A message that is started is the same one.
LEMMA StartedSame ==
  ASSUME NEW m \in Msg, NEW incoming \in Staying
  PROVE  LET new == Started(m, incoming)
         IN  new \in Msg /\ new.id = m.id /\ new.dir = m.dir /\ new.mid = m.mid /\ new.qos = m.qos
             /\ new.retain = m.retain
<1> DEFINE With(state) == [m EXCEPT !.state = state]
           Same(n) == n \in Msg /\ n.id = m.id /\ n.dir = m.dir /\ n.mid = m.mid /\ n.qos = m.qos
                      /\ n.retain = m.retain
<1>1. PublishState[m.qos] \in States /\ (m.qos > 0 => PublishState[m.qos] \in Staying)
  <2>1. m.qos \in 0 .. 2
    BY DEF Msg
  <2> QED BY <2>1, PublishStates
<1>2. \A state \in States : (m.qos > 0 => state \in Staying) => Same(With(state))
  BY DEF Msg
<1>3. incoming \in States
  BY DEF Staying
<1>4. Started(m, incoming) \in {m, With(PublishState[m.qos]), With(incoming)}
  BY DEF Started
<1>5. Same(m)
  OBVIOUS
<1>6. Same(With(PublishState[m.qos])) /\ Same(With(incoming))
  <2> HIDE DEF With, Same
  <2> QED BY <1>1, <1>2, <1>3
<1> HIDE DEF With
<1> QED
  BY <1>4, <1>5, <1>6

\* Starting messages of a queue.
LEMMA ExactStartFirst ==
  ASSUME NEW d, NEW held, Exact(d, held), NEW c \in Clients, NEW n
  PROVE  LET e == StartFirst(d, c, n)
         IN  /\ Exact(e, held) /\ OnlyContexts(d, e)
             /\ e.ctx = [d.ctx EXCEPT ![c] = e.ctx[c]]
             /\ SameMessages(d.ctx[c].msgs, e.ctx[c].msgs) /\ SameConnection(d.ctx[c], e.ctx[c])
             /\ KeepsAll(d, e)
<1> DEFINE e == StartFirst(d, c, n)
           msgs == d.ctx[c].msgs
           new == [j \in DOMAIN msgs |-> IF j <= n THEN Started(msgs[j], "wait_for_pubrel") ELSE msgs[j]]
           x == [d.ctx[c] EXCEPT !.msgs = new]
<1>1. d.ctx \in [Clients -> Context] /\ d.ctx[c] \in Context /\ msgs \in Seq(Msg)
  BY DEF Exact, Types, Context
<1>2. e = [store |-> d.store, last |-> d.last, kept |-> d.kept, subs |-> d.subs,
           ctx |-> [d.ctx EXCEPT ![c] = x], out |-> d.out]
  BY DEF Exact, Types, StartFirst
<1>3. \A j \in DOMAIN msgs : /\ new[j] \in Msg /\ new[j].id = msgs[j].id /\ new[j].dir = msgs[j].dir
                             /\ new[j].mid = msgs[j].mid /\ new[j].qos = msgs[j].qos
                             /\ new[j].retain = msgs[j].retain
  <2> TAKE j \in DOMAIN msgs
  <2>1. msgs[j] \in Msg /\ "wait_for_pubrel" \in Staying
    BY <1>1 DEF States, Staying
  <2> QED BY <2>1, StartedSame
<1>4. DOMAIN new = DOMAIN msgs /\ new = [j \in DOMAIN msgs |-> new[j]]
  OBVIOUS
<1> HIDE DEF new, e
<1>5. new \in Seq(Msg)
  BY <1>1, <1>3, <1>4, SameIsQueue
<1>6. /\ x \in Context /\ x.msgs = new /\ x.sock = d.ctx[c].sock /\ x.n12 = d.ctx[c].n12
      /\ SameConnection(d.ctx[c], x)
  BY <1>1, <1>5 DEF Context, SameConnection
<1> HIDE DEF x
<1>7. e.ctx = [d.ctx EXCEPT ![c] = x] /\ e.ctx[c] = x /\ OnlyContexts(d, e)
  BY <1>1, <1>2 DEF OnlyContexts
<1>8. SameMessages(msgs, x.msgs) /\ CountGoesOn(d.ctx[c], x)
  BY <1>3, <1>4, <1>6 DEF SameMessages, CountGoesOn
<1>9. Exact(e, held)
  BY <1>6, <1>7, <1>8, ExactContext
<1>10. KeepsAll(d, e)
  BY <1>1, <1>6, <1>7, <1>8, KeepsAllOne
<1> QED
  BY <1>6, <1>7, <1>8, <1>9, <1>10 DEF e

\* mosquitto__db_msg_store_deref looks at the store only.
LEMMA DerefFields ==
  ASSUME NEW d, NEW e, NEW id, d.store = e.store,
         d = [store |-> d.store, last |-> d.last, kept |-> d.kept, subs |-> d.subs, ctx |-> d.ctx, out |-> d.out],
         e = [store |-> e.store, last |-> e.last, kept |-> e.kept, subs |-> e.subs, ctx |-> e.ctx, out |-> e.out]
  PROVE  Deref(e, id) = [store |-> Deref(d, id).store, last |-> e.last, kept |-> e.kept, subs |-> e.subs,
                         ctx |-> e.ctx, out |-> e.out]
  BY DEF Deref

\* A message leaves a queue, and its reference is given back.
LEMMA ExactMessageRemove ==
  ASSUME NEW d, NEW held, Exact(d, held), NEW c \in Clients, NEW k \in DOMAIN d.ctx[c].msgs
  PROVE  LET e == MessageRemove(d, c, k)
         IN  /\ Exact(e, held)
             /\ KeepsAllBut(d, e, c, d.ctx[c].msgs[k].mid, d.ctx[c].msgs[k].dir)
             /\ d.ctx[c].msgs[k].qos = 0 => KeepsAll(d, e)
<1> DEFINE msgs == d.ctx[c].msgs
           rest == RemoveAt(msgs, k)
           AtHead(j) == MaxInflight > 0 /\ \A i \in 1 .. j : rest[i].state = "queued"
           new == [j \in DOMAIN rest |-> IF AtHead(j) THEN Started(rest[j], "send_pubrec") ELSE rest[j]]
           count == IF msgs[k].qos > 0 THEN d.ctx[c].n12 - 1 ELSE d.ctx[c].n12
           x == [d.ctx[c] EXCEPT !.msgs = new, !.n12 = count]
           id == msgs[k].id
           e == [store |-> d.store, last |-> d.last, kept |-> d.kept, subs |-> d.subs,
                 ctx |-> [d.ctx EXCEPT ![c] = x], out |-> d.out]
<1>1. /\ d.ctx \in [Clients -> Context] /\ d.ctx[c] \in Context /\ msgs \in Seq(Msg) /\ k \in DOMAIN msgs
      /\ held \in Held /\ msgs[k].qos \in Nat
      /\ d = [store |-> d.store, last |-> d.last, kept |-> d.kept, subs |-> d.subs, ctx |-> d.ctx, out |-> d.out]
  <2>1. d.ctx \in [Clients -> Context] /\ held \in Held
    BY DEF Exact, Types
  <2>2. d = [store |-> d.store, last |-> d.last, kept |-> d.kept, subs |-> d.subs, ctx |-> d.ctx, out |-> d.out]
    BY DEF Exact, Types
  <2>3. msgs \in Seq(Msg)
    BY <2>1 DEF Context
  <2>4. msgs[k].qos \in Nat
    <3>1. msgs[k] \in Msg
      BY <2>3
    <3> QED BY <3>1 DEF Msg
  <2> QED BY <2>1, <2>2, <2>3, <2>4
<1>2. id \in DOMAIN d.store /\ id \in Nat
  BY DEF Exact, NothingDangles, Types
<1>3. MessageRemove(d, c, k) = Deref(e, id)
  <2>1. Deref(d, id) = [store |-> Deref(d, id).store, last |-> d.last, kept |-> d.kept, subs |-> d.subs,
                        ctx |-> d.ctx, out |-> d.out]
    BY <1>1, DerefFields
  <2>2. MessageRemove(d, c, k) = [store |-> Deref(d, id).store, last |-> d.last, kept |-> d.kept,
                                  subs |-> d.subs, ctx |-> [d.ctx EXCEPT ![c] = x], out |-> d.out]
    <3>1. MessageRemove(d, c, k) = [Deref(d, id) EXCEPT !.ctx[c] = x]
      BY DEF MessageRemove
    <3> HIDE DEF x, id
    <3> QED BY <2>1, <3>1
  <2>3. Deref(e, id) = [store |-> Deref(d, id).store, last |-> e.last, kept |-> e.kept,
                        subs |-> e.subs, ctx |-> e.ctx, out |-> e.out]
    <3> HIDE DEF x
    <3>1. /\ e.store = d.store
          /\ e = [store |-> e.store, last |-> e.last, kept |-> e.kept, subs |-> e.subs, ctx |-> e.ctx, out |-> e.out]
      OBVIOUS
    <3> HIDE DEF e, id
    <3> QED BY <1>1, <3>1, DerefFields
  <2> HIDE DEF x, id
  <2> QED BY <2>2, <2>3
<1>4. /\ rest \in Seq(Msg) /\ DOMAIN new = DOMAIN rest /\ new = [j \in DOMAIN rest |-> new[j]]
      /\ \A j \in DOMAIN rest : /\ new[j] \in Msg /\ new[j].id = rest[j].id /\ new[j].dir = rest[j].dir
                                /\ new[j].mid = rest[j].mid /\ new[j].qos = rest[j].qos
                                /\ new[j].retain = rest[j].retain
  <2>1. rest \in Seq(Msg)
    BY <1>1, RemovedElements
  <2> HIDE DEF rest, AtHead
  <2>2. \A j \in DOMAIN rest : rest[j] \in Msg
    BY <2>1
  <2>3. "send_pubrec" \in Staying
    BY DEF States, Staying
  <2> QED BY <2>1, <2>2, <2>3, StartedSame
<1> HIDE DEF new
<1>5. new \in Seq(Msg)
  BY <1>4, SameIsQueue
<1>6. /\ x \in Context /\ x.msgs = new /\ x.sock = d.ctx[c].sock /\ SameConnection(d.ctx[c], x)
      /\ x.n12 = d.ctx[c].n12 - (IF msgs[k].qos > 0 THEN 1 ELSE 0)
  <2>1. count \in Int /\ count = d.ctx[c].n12 - (IF msgs[k].qos > 0 THEN 1 ELSE 0)
    <3>1. d.ctx[c].n12 \in Int
      BY <1>1 DEF Context
    <3> QED BY <3>1
  <2> HIDE DEF count
  <2> QED BY <1>1, <1>5, <2>1 DEF Context, SameConnection
<1> HIDE DEF x
<1>7. /\ e.store = d.store /\ e.kept = d.kept /\ e.last = d.last /\ e.subs = d.subs
      /\ e = [store |-> e.store, last |-> e.last, kept |-> e.kept, subs |-> e.subs, ctx |-> e.ctx, out |-> e.out]
      /\ e.ctx \in [Clients -> Context] /\ e.ctx[c] = x
      /\ \A b \in Clients \ {c} : e.ctx[b] = d.ctx[b]
  BY <1>1, <1>6
<1> HIDE DEF e
<1>8. Types(e) /\ SameCounts(d, e)
  BY <1>7 DEF Exact, Types, SameCounts
<1>9. SameMessages(rest, e.ctx[c].msgs)
  BY <1>4, <1>6, <1>7 DEF SameMessages
<1> HIDE DEF rest
<1>10. Exact(e, Holding(held, id))
  <2>1. e.ctx[c].sock => d.ctx[c].sock /\ e.ctx[c].n12 = d.ctx[c].n12 - (IF msgs[k].qos > 0 THEN 1 ELSE 0)
    BY <1>6, <1>7
  <2> QED BY <1>7, <1>8, <1>9, <2>1, ExactRemoved DEF rest
<1> HIDE DEF id
<1>11. /\ Holding(held, id)[id] # 0 /\ Giving(Holding(held, id), id) = held
  <2>1. Holding(held, id)[id] = held[id] + 1 /\ held[id] \in Nat
    BY <1>1, <1>2, HeldChanges
  <2> QED BY <1>1, <1>2, <2>1, HeldChanges
<1>12. Exact(Deref(e, id), held) /\ Deref(e, id).ctx = e.ctx
  <2>1. Exact(Deref(e, id), held) /\ OnlyStore(e, Deref(e, id))
    BY <1>2, <1>10, <1>11, ExactDeref
  <2> QED BY <2>1 DEF OnlyStore
<1> DEFINE freed == Deref(e, id)
<1> HIDE DEF freed
<1>13. /\ KeepsBut(msgs, freed.ctx[c].msgs, msgs[k].mid, msgs[k].dir)
       /\ msgs[k].qos = 0 => Keeps(msgs, freed.ctx[c].msgs)
  <2> HIDE DEF msgs
  <2> QED BY <1>1, <1>9, <1>12, RemovedKeeps DEF rest, freed
<1>14. \A b \in Clients \ {c} : freed.ctx[b] = d.ctx[b]
  BY <1>7, <1>12 DEF freed
<1>15. \A b \in Clients : SameConnection(d.ctx[b], freed.ctx[b])
  BY <1>6, <1>7, <1>12, <1>14 DEF freed, SameConnection
<1>16. \A b \in Clients \ {c} : Keeps(d.ctx[b].msgs, freed.ctx[b].msgs)
  BY <1>14 DEF Keeps, SameMessage
<1>17. /\ KeepsAllBut(d, freed, c, msgs[k].mid, msgs[k].dir)
       /\ msgs[k].qos = 0 => KeepsAll(d, freed)
  BY <1>13, <1>15, <1>16 DEF KeepsAllBut, KeepsAll
<1> QED
  BY <1>3, <1>12, <1>17 DEF freed

\* A context that has perhaps got more messages, at the end of its queue.
Longer(x, y) ==
  /\ SameConnection(x, y) /\ y.will = x.will
  /\ \A k \in DOMAIN x.msgs : k \in DOMAIN y.msgs /\ y.msgs[k] = x.msgs[k]

\* Nothing is freed, and the queues only get longer.
Grows(d, e) ==
  /\ e.kept = d.kept /\ e.subs = d.subs /\ DOMAIN e.store = DOMAIN d.store /\ SameContent(d, e)
  /\ \A b \in Clients : Longer(d.ctx[b], e.ctx[b])

\* A message at the end of a queue.
LEMMA ExactLinked ==
  ASSUME NEW d, NEW held, Exact(d, held), NEW c \in Clients, NEW m \in Msg, NEW fresh \in BOOLEAN,
         m.id \in DOMAIN d.store,
         m.dir = "in" => AsPublished(d.store[m.id], m)
  PROVE  Exact(Linked(d, c, m, fresh), held) /\ Grows(d, Linked(d, c, m, fresh))
<1> DEFINE id == m.id
           r == Ref(d, id)
           count == IF m.qos > 0 THEN d.ctx[c].n12 + 1 ELSE d.ctx[c].n12
           x == [d.ctx[c] EXCEPT !.msgs = Append(d.ctx[c].msgs, m), !.n12 = count]
           dests == IF fresh THEN d.store[id].dests \cup {c} ELSE d.store[id].dests
           store == [r.store EXCEPT ![id].dests = dests]
           e == [store |-> store, last |-> d.last, kept |-> d.kept, subs |-> d.subs,
                 ctx |-> [d.ctx EXCEPT ![c] = x], out |-> d.out]
<1>1. /\ Exact(r, Holding(held, id)) /\ OnlyStore(d, r) /\ DOMAIN r.store = DOMAIN d.store
      /\ \A i \in DOMAIN d.store : /\ r.store[i].smid = d.store[i].smid /\ r.store[i].m = d.store[i].m
                                   /\ r.store[i].source = d.store[i].source
  <2> HIDE DEF r
  <2> QED BY ExactRef DEF r, SameContent
<1>2. /\ d.ctx \in [Clients -> Context] /\ d.ctx[c] \in Context /\ d.ctx[c].msgs \in Seq(Msg)
      /\ r.store \in [DOMAIN r.store -> Stored] /\ held \in Held /\ id \in Nat
      /\ DOMAIN r.store \subseteq 1 .. r.last
  BY <1>1 DEF Exact, Types, Context, Msg
<1>3. Linked(d, c, m, fresh) = e
  <2>1. Linked(d, c, m, fresh) = [r EXCEPT !.ctx[c] = x, !.store[id].dests = dests]
    BY DEF Linked
  <2>2. r = [store |-> r.store, last |-> d.last, kept |-> d.kept, subs |-> d.subs, ctx |-> d.ctx, out |-> d.out]
    BY <1>1 DEF OnlyStore
  <2> HIDE DEF x, r, id, dests
  <2> DEFINE q == [r EXCEPT !.ctx[c] = x]
  <2>3. q = [store |-> r.store, last |-> d.last, kept |-> d.kept, subs |-> d.subs,
             ctx |-> [d.ctx EXCEPT ![c] = x], out |-> d.out]
    BY <2>2
  <2>4. Linked(d, c, m, fresh) = [q EXCEPT !.store[id].dests = dests]
    BY <2>1
  <2> HIDE DEF q
  <2> QED BY <2>3, <2>4
<1>4. /\ DOMAIN store = DOMAIN r.store
      /\ \A i \in DOMAIN r.store : /\ store[i] \in Stored
                                   /\ store[i].refs = r.store[i].refs /\ store[i].smid = r.store[i].smid
                                   /\ store[i].m = r.store[i].m /\ store[i].source = r.store[i].source
      /\ store = [i \in DOMAIN store |-> store[i]]
  <2>0. dests \in SUBSET Clients
    <3>1. d.store[id] \in Stored
      BY DEF Exact, Types
    <3> QED BY <3>1 DEF Stored
  <2> HIDE DEF r, id, dests
  <2>1. DOMAIN store = DOMAIN r.store /\ store = [i \in DOMAIN store |-> store[i]]
    BY <1>2
  <2>2. ASSUME NEW i \in DOMAIN r.store
        PROVE  /\ store[i] \in Stored
               /\ store[i].refs = r.store[i].refs /\ store[i].smid = r.store[i].smid
               /\ store[i].m = r.store[i].m /\ store[i].source = r.store[i].source
    <3>1. r.store[i] \in Stored
      BY <1>2
    <3>2. store[i] = IF i = id THEN [r.store[i] EXCEPT !.dests = dests] ELSE r.store[i]
      BY <1>2
    <3> QED BY <2>0, <3>1, <3>2 DEF Stored
  <2> QED BY <2>1, <2>2
<1> HIDE DEF store
<1>5. /\ x \in Context /\ x.msgs = Append(d.ctx[c].msgs, m) /\ x.sock = d.ctx[c].sock
      /\ x.known = d.ctx[c].known /\ x.clean = d.ctx[c].clean /\ x.will = d.ctx[c].will
      /\ x.n12 = d.ctx[c].n12 + (IF m.qos > 0 THEN 1 ELSE 0)
  <2>1. count \in Int /\ count = d.ctx[c].n12 + (IF m.qos > 0 THEN 1 ELSE 0)
    <3>1. d.ctx[c].n12 \in Int
      BY <1>2 DEF Context
    <3> QED BY <3>1
  <2>2. Append(d.ctx[c].msgs, m) \in Seq(Msg)
    BY <1>2
  <2> HIDE DEF count
  <2> QED BY <1>2, <2>1, <2>2 DEF Context
<1> HIDE DEF x
<1>6. /\ e.store = store /\ e.kept = r.kept /\ e.last = r.last /\ e.subs = r.subs /\ r.ctx = d.ctx
      /\ e.kept = d.kept /\ e.subs = d.subs
      /\ e = [store |-> e.store, last |-> e.last, kept |-> e.kept, subs |-> e.subs, ctx |-> e.ctx, out |-> e.out]
      /\ e.ctx \in [Clients -> Context] /\ e.ctx[c] = x
      /\ \A b \in Clients \ {c} : e.ctx[b] = r.ctx[b]
  <2>1. r.kept = d.kept /\ r.last = d.last /\ r.subs = d.subs /\ r.ctx = d.ctx
    BY <1>1 DEF OnlyStore
  <2> HIDE DEF r
  <2> QED BY <1>2, <1>5, <2>1
<1> HIDE DEF e
<1>7. Types(e) /\ SameCounts(r, e)
  BY <1>1, <1>4, <1>6 DEF Exact, Types, SameCounts
<1>8. Holding(held, id)[m.id] # 0 /\ Giving(Holding(held, id), id) = held
  <2> HIDE DEF id
  <2>1. Holding(held, id)[id] = held[id] + 1 /\ held[id] \in Nat /\ Giving(Holding(held, id), id) = held
    BY <1>2, HeldChanges
  <2>2. id = m.id
    BY DEF id
  <2> QED BY <2>1, <2>2
<1>9. Exact(e, held)
  <2>1. /\ e.ctx[c].msgs = Append(r.ctx[c].msgs, m)
        /\ e.ctx[c].sock => r.ctx[c].sock /\ e.ctx[c].n12 = r.ctx[c].n12 + (IF m.qos > 0 THEN 1 ELSE 0)
    BY <1>5, <1>6
  <2>2. m.dir = "in" => AsPublished(r.store[m.id], m)
    BY <1>1 DEF AsPublished
  <2>3. Exact(e, Giving(Holding(held, id), m.id))
    <3> HIDE DEF r, id
    <3> QED BY <1>1, <1>6, <1>7, <1>8, <2>1, <2>2, ExactAppended, ZenonT(60)
  <2> QED BY <1>8, <2>3
<1>10. Grows(d, e)
  <2>1. Longer(d.ctx[c], e.ctx[c])
    <3>1. \A k \in DOMAIN d.ctx[c].msgs : /\ k \in DOMAIN Append(d.ctx[c].msgs, m)
                                          /\ Append(d.ctx[c].msgs, m)[k] = d.ctx[c].msgs[k]
      BY <1>2
    <3> QED BY <1>5, <1>6, <3>1 DEF Longer, SameConnection
  <2>2. \A b \in Clients \ {c} : e.ctx[b] = d.ctx[b]
    BY <1>6
  <2>3. \A b \in Clients : Longer(d.ctx[b], e.ctx[b])
    BY <2>1, <2>2 DEF Longer, SameConnection
  <2>4. SameContent(d, e)
    BY <1>1, <1>4, <1>6 DEF SameContent
  <2> QED BY <1>1, <1>4, <1>6, <2>3, <2>4 DEF Grows
<1> QED
  BY <1>3, <1>9, <1>10

\* A longer queue has kept its messages.
LEMMA LongerKeeps ==
  ASSUME NEW d, NEW e, \A b \in Clients : Longer(d.ctx[b], e.ctx[b])
  PROVE  KeepsAll(d, e)
  BY DEF KeepsAll, Longer, SameConnection, Keeps, SameMessage

\* What has not grown has grown by nothing.
LEMMA GrowsReflexive ==
  ASSUME NEW d
  PROVE  Grows(d, d)
  BY DEF Grows, Longer, SameConnection, SameContent

\* What has grown may grow on.
LEMMA GrowsOn ==
  ASSUME NEW d, NEW e, NEW f, Grows(d, e), Grows(e, f)
  PROVE  Grows(d, f)
<1>1. \A b \in Clients : Longer(d.ctx[b], f.ctx[b])
  BY DEF Grows, Longer, SameConnection
<1>2. SameContent(d, f)
  BY DEF Grows, SameContent
<1> QED
  BY <1>1, <1>2 DEF Grows

\* Appending the message to a queue, or dropping it.
LEMMA ExactInsert ==
  ASSUME NEW d, NEW held, Exact(d, held), NEW c \in Clients, NEW mid \in Nat, NEW dir \in {"in", "out"},
         NEW qos \in 0 .. 2, NEW retain \in BOOLEAN, NEW id \in DOMAIN d.store,
         dir = "in" => d.store[id].smid = mid /\ d.store[id].m.retain = retain
  PROVE  LET e == Insert(d, c, mid, dir, qos, retain, id).db
         IN  Exact(e, held) /\ Grows(d, e)
<1> DEFINE fresh == dir = "out" /\ ~retain
           M(state) == [mid |-> mid, dir |-> dir, state |-> state, qos |-> qos,
                        dup |-> FALSE, retain |-> retain, id |-> id]
           L(state) == Linked(d, c, M(state), fresh)
           e == Insert(d, c, mid, dir, qos, retain, id).db
<1>1. e = d \/ \E state \in States : e = L(state) /\ (qos > 0 => state \in Staying)
  <2>1. /\ PublishState[qos] \in States /\ (qos > 0 => PublishState[qos] \in Staying)
        /\ "queued" \in States /\ "queued" \in Staying
        /\ "wait_for_pubrel" \in States /\ "wait_for_pubrel" \in Staying
    BY PublishStates DEF States, Staying
  <2>2. e = d \/ e = L("queued") \/ e = L("wait_for_pubrel") \/ e = L(PublishState[qos])
    BY DEF Insert
  <2> HIDE DEF e, L
  <2> QED BY <2>1, <2>2
<1>2. Grows(d, d)
  BY GrowsReflexive
<1>3. ASSUME NEW state \in States, qos > 0 => state \in Staying
      PROVE  Exact(L(state), held) /\ Grows(d, L(state))
  <2>1. id \in Nat
    BY DEF Exact, Types
  <2>2. /\ M(state) \in Msg /\ M(state).id = id /\ M(state).dir = dir /\ M(state).mid = mid
        /\ fresh \in BOOLEAN
    BY <1>3, <2>1 DEF Msg
  <2>3. M(state).dir = "in" => AsPublished(d.store[M(state).id], M(state))
    BY DEF AsPublished
  <2> HIDE DEF M, fresh
  <2> QED BY <2>2, <2>3, ExactLinked
<1> HIDE DEF L, e
<1> QED
  BY <1>1, <1>2, <1>3 DEF e

\* A reference that is taken and given back.
LEMMA HoldingGiving ==
  ASSUME NEW held \in Held, NEW id \in Nat
  PROVE  /\ Holding(held, id)[id] # 0 /\ Giving(Holding(held, id), id) = held
         /\ \A i \in Nat : held[i] # 0 => Holding(held, id)[i] # 0
<1>1. \A i \in Nat : Holding(held, id)[i] = held[i] + (IF i = id THEN 1 ELSE 0) /\ held[i] \in Nat
  BY HeldChanges
<1>2. Giving(Holding(held, id), id) = held
  BY HeldChanges
<1> QED
  BY <1>1, <1>2

\* The message for one receiver.
LEMMA ExactInsertOut ==
  ASSUME NEW d, NEW held, Exact(d, held), NEW c \in Clients,
         NEW qos \in 0 .. 2, NEW retain \in BOOLEAN, NEW id \in DOMAIN d.store
  PROVE  LET e == InsertOut(d, c, qos, retain, id)
         IN  Exact(e, held) /\ Grows(d, e)
<1> DEFINE mid == IF qos > 0 THEN MidGenerate(d.ctx[c].mid) ELSE 0
           x == [d.ctx[c] EXCEPT !.mid = mid]
           counted == IF qos > 0 THEN [d EXCEPT !.ctx[c].mid = mid] ELSE d
<1>1. d.ctx \in [Clients -> Context] /\ d.ctx[c] \in Context
  BY DEF Exact, Types
<1>2. mid \in Nat
  <2>1. d.ctx[c].mid \in Nat
    BY <1>1 DEF Context
  <2> QED BY <2>1 DEF MidGenerate
<1> HIDE DEF mid
<1>3. Exact(counted, held) /\ Grows(d, counted) /\ counted.store = d.store
  <2>1. CASE qos > 0
    <3>1. counted = [store |-> d.store, last |-> d.last, kept |-> d.kept, subs |-> d.subs,
                     ctx |-> [d.ctx EXCEPT ![c] = x], out |-> d.out]
      BY <2>1 DEF Exact, Types
    <3>2. /\ x \in Context /\ x.msgs = d.ctx[c].msgs /\ x.sock = d.ctx[c].sock /\ x.n12 = d.ctx[c].n12
          /\ x.known = d.ctx[c].known /\ x.clean = d.ctx[c].clean /\ x.will = d.ctx[c].will
      BY <1>1, <1>2 DEF Context
    <3> HIDE DEF x, counted
    <3>3. SameMessages(d.ctx[c].msgs, x.msgs) /\ CountGoesOn(d.ctx[c], x)
      BY <3>2 DEF SameMessages, CountGoesOn
    <3>4. OnlyContexts(d, counted) /\ counted.ctx = [d.ctx EXCEPT ![c] = x]
      BY <3>1 DEF OnlyContexts
    <3>5. Exact(counted, held)
      BY <3>2, <3>3, <3>4, ExactContext
    <3>6. Grows(d, counted) /\ counted.store = d.store
      <4>1. \A b \in Clients : Longer(d.ctx[b], counted.ctx[b])
        BY <1>1, <3>1, <3>2 DEF Longer, SameConnection
      <4> QED BY <3>1, <4>1 DEF Grows, SameContent
    <3> QED BY <3>5, <3>6
  <2>2. CASE ~(qos > 0)
    BY <2>2, GrowsReflexive
  <2> QED BY <2>1, <2>2
<1>4. InsertOut(d, c, qos, retain, id) = Insert(counted, c, mid, "out", qos, retain, id).db
  BY DEF InsertOut, mid
<1> HIDE DEF counted
<1> DEFINE e == Insert(counted, c, mid, "out", qos, retain, id).db
<1>5. Exact(e, held) /\ Grows(counted, e)
  BY <1>2, <1>3, ExactInsert
<1> HIDE DEF e
<1>6. Grows(d, e)
  BY <1>3, <1>5, GrowsOn
<1> QED
  BY <1>4, <1>5, <1>6 DEF e

\* What the topics keep when a message has been passed on.
KeptAfter(d, id, retain) ==
  IF retain THEN [d.kept EXCEPT ![d.store[id].m.topic] = IF d.store[id].m.empty THEN 0 ELSE id] ELSE d.kept

\* Who waited for a retained message has it, and its topic keeps at most this one.
LEMMA ExactRetain ==
  ASSUME NEW d, NEW held, Exact(d, held), NEW id \in Nat, held[id] # 0, d.store[id].m.retain = TRUE
  PROVE  LET e == Retain(d, id)
         IN  /\ Exact(e, held) /\ e.ctx = d.ctx /\ e.subs = d.subs
             /\ DOMAIN e.store \subseteq DOMAIN d.store /\ SameContent(d, e)
             /\ \A i \in DOMAIN d.store : i \in DOMAIN e.store \/ \E t \in Names : d.kept[t] = i
             /\ e.kept = KeptAfter(d, id, TRUE)
<1> DEFINE m == d.store[id].m
           t == m.topic
           old == d.kept[t]
           dropped == IF old = 0 THEN d ELSE Deref(d, old)
           e0 == [dropped EXCEPT !.kept[t] = 0]
           e1 == [Ref(dropped, id) EXCEPT !.kept[t] = id]
<1>1. /\ d.kept \in [Names -> Nat] /\ id \in DOMAIN d.store /\ t \in Names /\ old \in Nat /\ held \in Held
      /\ d = [store |-> d.store, last |-> d.last, kept |-> d.kept, subs |-> d.subs, ctx |-> d.ctx, out |-> d.out]
  <2>1. d.kept \in [Names -> Nat] /\ id \in DOMAIN d.store /\ held \in Held
    BY DEF Exact, Types, NothingDangles
  <2>2. d = [store |-> d.store, last |-> d.last, kept |-> d.kept, subs |-> d.subs, ctx |-> d.ctx, out |-> d.out]
    BY DEF Exact, Types
  <2>3. d.store[id] \in Stored
    BY <2>1 DEF Exact, Types
  <2>4. t \in Names
    BY <2>3 DEF Stored, Content
  <2> QED BY <2>1, <2>2, <2>4
<1>2. /\ Retain(d, id) = IF m.empty THEN e0 ELSE e1
      /\ KeptAfter(d, id, TRUE) = IF m.empty THEN [d.kept EXCEPT ![t] = 0] ELSE [d.kept EXCEPT ![t] = id]
  BY DEF Retain, KeptAfter
<1>2a. ~m.empty => Keepable(m, t)
  <2>1. m \in Content
    BY <1>1 DEF Exact, Types, Stored
  <2> QED BY <2>1 DEF Content, Keepable
<1> HIDE DEF t, m
<1>3. dropped = [store |-> dropped.store, last |-> d.last, kept |-> d.kept, subs |-> d.subs,
                 ctx |-> d.ctx, out |-> d.out]
  BY <1>1, DerefFields
<1>4. /\ Exact(e0, held) /\ e0.store = dropped.store
      /\ e0 = [store |-> dropped.store, last |-> d.last, kept |-> [d.kept EXCEPT ![t] = 0], subs |-> d.subs,
               ctx |-> d.ctx, out |-> d.out]
      /\ \A i \in DOMAIN d.store : i \in DOMAIN e0.store \/ i = old
      /\ DOMAIN e0.store \subseteq DOMAIN d.store /\ SameContent(d, e0)
  <2>1. e0 = [store |-> dropped.store, last |-> d.last, kept |-> [d.kept EXCEPT ![t] = 0], subs |-> d.subs,
              ctx |-> d.ctx, out |-> d.out]
    <3> HIDE DEF dropped
    <3> QED BY <1>3
  <2>2. CASE old = 0
    <3>1. [d.kept EXCEPT ![t] = 0] = d.kept
      BY <1>1, <2>2
    <3>2. e0 = d
      BY <1>1, <2>1, <2>2, <3>1
    <3> HIDE DEF e0
    <3> QED BY <2>1, <2>2, <3>2 DEF SameContent
  <2>3. CASE old # 0
    <3> DEFINE c == [d EXCEPT !.kept[t] = 0]
    <3>1. Exact(c, Holding(held, old))
      BY <1>1, <2>3, ExactCleared
    <3>2. c = [store |-> d.store, last |-> d.last, kept |-> [d.kept EXCEPT ![t] = 0], subs |-> d.subs,
               ctx |-> d.ctx, out |-> d.out]
      BY <1>1
    <3> HIDE DEF c
    <3>3. Deref(c, old) = [store |-> Deref(d, old).store, last |-> c.last, kept |-> c.kept, subs |-> c.subs,
                           ctx |-> c.ctx, out |-> c.out]
      <4>1. /\ c.store = d.store
            /\ c = [store |-> c.store, last |-> c.last, kept |-> c.kept, subs |-> c.subs, ctx |-> c.ctx, out |-> c.out]
        BY <3>2
      <4> HIDE DEF old
      <4> QED BY <1>1, <4>1, DerefFields
    <3>4. e0 = Deref(c, old)
      <4>1. dropped.store = Deref(d, old).store
        BY <2>3
      <4> HIDE DEF e0, dropped, old
      <4> QED BY <2>1, <3>2, <3>3, <4>1
    <3>5. Holding(held, old)[old] # 0 /\ Giving(Holding(held, old), old) = held
      BY <1>1, HoldingGiving
    <3>6. /\ Exact(e0, held) /\ DOMAIN c.store \ {old} \subseteq DOMAIN e0.store
          /\ DOMAIN e0.store \subseteq DOMAIN c.store /\ SameContent(c, e0)
      <4> HIDE DEF e0, dropped, old
      <4> QED BY <1>1, <3>1, <3>4, <3>5, ExactDeref
    <3>7. c.store = d.store
      BY <3>2
    <3> HIDE DEF e0, dropped, old
    <3>8. SameContent(d, e0)
      BY <3>6, <3>7 DEF SameContent
    <3> QED BY <2>1, <3>6, <3>7, <3>8
  <2> QED BY <2>2, <2>3
<1> HIDE DEF e0
<1>5. /\ ~m.empty => Exact(e1, held)
      /\ e1.ctx = d.ctx /\ e1.subs = d.subs /\ DOMAIN e1.store = DOMAIN e0.store
      /\ e1.kept = [d.kept EXCEPT ![t] = id] /\ SameContent(e0, e1)
  <2> HIDE DEF dropped
  <2> DEFINE r == Ref(e0, id)
  <2>1. id \in DOMAIN e0.store
    BY <1>4 DEF Exact, NothingDangles
  <2>2. /\ Exact(r, Holding(held, id)) /\ OnlyStore(e0, r) /\ DOMAIN r.store = DOMAIN e0.store
        /\ SameContent(e0, r)
    BY <1>4, <2>1, ExactRef
  <2>3. r.kept = e0.kept /\ e0.kept = [d.kept EXCEPT ![t] = 0] /\ e0.kept[t] = 0
    <3> HIDE DEF r
    <3> QED BY <1>1, <1>4, <2>2 DEF OnlyStore
  <2>4. Ref(dropped, id) = [store |-> r.store, last |-> d.last, kept |-> d.kept, subs |-> d.subs,
                            ctx |-> d.ctx, out |-> d.out]
    <3>1. Ref(dropped, id) = [store |-> [dropped.store EXCEPT ![id].refs = @ + 1], last |-> d.last,
                              kept |-> d.kept, subs |-> d.subs, ctx |-> d.ctx, out |-> d.out]
      BY <1>3 DEF Ref
    <3>2. r.store = [e0.store EXCEPT ![id].refs = @ + 1]
      BY <1>4 DEF Ref
    <3> HIDE DEF r
    <3> QED BY <1>4, <3>1, <3>2
  <2> HIDE DEF r
  <2>5. id # 0
    BY <1>1 DEF Exact, Types
  <2>6. Holding(held, id)[id] # 0 /\ Giving(Holding(held, id), id) = held
    BY <1>1, HoldingGiving
  <2>7. ASSUME ~m.empty
        PROVE  Exact([r EXCEPT !.kept[t] = id], held)
    <3>1. r.store[id].m = m
      BY <1>1, <1>4, <2>1, <2>2 DEF SameContent, m
    <3>2. Keepable(r.store[id].m, t)
      BY <1>2a, <2>7, <3>1
    <3> QED BY <1>1, <2>2, <2>3, <2>5, <2>6, <3>2, ExactKept
  <2>8. e1 = [store |-> r.store, last |-> d.last, kept |-> [d.kept EXCEPT ![t] = id], subs |-> d.subs,
              ctx |-> d.ctx, out |-> d.out]
    BY <2>4
  <2>9. [r EXCEPT !.kept[t] = id] = [store |-> r.store, last |-> d.last, kept |-> [d.kept EXCEPT ![t] = id],
                                     subs |-> d.subs, ctx |-> d.ctx, out |-> d.out]
    <3>1. r = [store |-> r.store, last |-> d.last, kept |-> [d.kept EXCEPT ![t] = 0], subs |-> d.subs,
               ctx |-> d.ctx, out |-> d.out]
      BY <1>4, <2>2 DEF OnlyStore
    <3>2. [r.kept EXCEPT ![t] = id] = [d.kept EXCEPT ![t] = id]
      BY <1>1, <2>3
    <3> QED BY <3>1, <3>2
  <2> HIDE DEF e1
  <2>10. e1.store = r.store
    BY <2>8
  <2>11. SameContent(e0, e1)
    BY <2>2, <2>10 DEF SameContent
  <2> QED BY <2>2, <2>7, <2>8, <2>9, <2>11
<1> HIDE DEF e1
<1>6. SameContent(d, e1) /\ DOMAIN e1.store \subseteq DOMAIN d.store
  BY <1>4, <1>5 DEF SameContent
<1>7. e0.ctx = d.ctx /\ e0.subs = d.subs /\ e0.kept = [d.kept EXCEPT ![t] = 0]
  BY <1>4
<1> QED
  BY <1>1, <1>2, <1>4, <1>5, <1>6, <1>7

-----------------------------------------------------------------------------
\* A set as a sequence without repetitions.
LEMMA SetToSeqLists ==
  ASSUME NEW S, IsFiniteSet(S)
  PROVE  /\ SetToSeq(S) \in Seq(S)
         /\ \A i, j \in 1 .. Len(SetToSeq(S)) : SetToSeq(S)[i] = SetToSeq(S)[j] => i = j
         /\ \A x \in S : \E i \in 1 .. Len(SetToSeq(S)) : SetToSeq(S)[i] = x
<1>1. Cardinality(S) \in Nat /\ ExistsBijection(1 .. Cardinality(S), S)
  BY FS_CardinalityType
<1>2. \E f \in [1 .. Cardinality(S) -> S] : IsInjective(f)
  BY <1>1 DEF ExistsBijection, Bijection, Injection
<1>3. SetToSeq(S) \in [1 .. Cardinality(S) -> S] /\ IsInjective(SetToSeq(S))
  BY <1>2 DEF SetToSeq
<1> DEFINE order == SetToSeq(S)
           n == Cardinality(S)
           listed == {order[i] : i \in 1 .. n}
<1> HIDE DEF order
<1>4. order \in [1 .. n -> S] /\ \A i, j \in 1 .. n : order[i] = order[j] => i = j
  BY <1>3 DEF IsInjective, order
<1>5. order \in Bijection(1 .. n, listed)
  <2>1. order \in [1 .. n -> listed]
    BY <1>4
  <2>2. \A x \in listed : \E i \in 1 .. n : order[i] = x
    OBVIOUS
  <2> HIDE DEF listed
  <2> QED BY <1>4, <2>1, <2>2 DEF Bijection, Injection, IsInjective, Surjection
<1>6. S = listed
  <2>1. IsFiniteSet(1 .. n) /\ Cardinality(1 .. n) = n
    BY <1>1, FS_Interval
  <2>2. Cardinality(listed) = n
    BY <1>5, <2>1, FS_Bijection DEF ExistsBijection
  <2>3. listed \in SUBSET S
    BY <1>4
  <2> HIDE DEF listed
  <2> QED BY <2>2, <2>3, FS_Subset
<1>7. Len(order) = n
  BY <1>1, <1>4
<1> QED
  BY <1>1, <1>4, <1>6, <1>7 DEF order

\* There are finitely many subscriptions.
LEMMA LeafFinite == IsFiniteSet(Leaf)
<1> DEFINE Triples == (Clients \X Names) \X (0 .. 2)
           f == [x \in Triples |-> [client |-> x[1][1], topic |-> x[1][2], qos |-> x[2]]]
<1>1. IsFiniteSet(0 .. 2)
  <2>1. \A i, j \in Int : IsFiniteSet(i .. j)
    BY FS_Interval
  <2>2. 0 \in Int /\ 2 \in Int
    OBVIOUS
  <2> QED BY <2>1, <2>2, Zenon
<1>2. IsFiniteSet(Clients \X Names)
  BY BrokerAssumption, FS_Product
<1>3. IsFiniteSet(Triples)
  BY <1>1, <1>2, FS_Product
<1>4. f \in Surjection(Triples, Leaf)
  <2>1. f \in [Triples -> Leaf]
    BY DEF Leaf
  <2>2. ASSUME NEW leaf \in Leaf
        PROVE  \E x \in Triples : f[x] = leaf
    <3>1. leaf = [client |-> leaf.client, topic |-> leaf.topic, qos |-> leaf.qos]
          /\ leaf.client \in Clients /\ leaf.topic \in Names /\ leaf.qos \in 0 .. 2
      BY DEF Leaf
    <3>2. f[<<<<leaf.client, leaf.topic>>, leaf.qos>>] = leaf
      BY <3>1
    <3> QED BY <3>1, <3>2
  <2> QED BY <2>1, <2>2 DEF Surjection
<1> QED
  BY <1>3, <1>4, FS_Surjection

\* The loop of _subs_process, and what each of its rounds keeps.
SubsStep(p, d, i) == InsertOut(d, p.leaves[i].client, Lower(p.qos, p.leaves[i].qos), FALSE, p.id)
SubsInv(p, i, d) == Exact(d, p.held) /\ Grows(p.start, d)
OfSubs == INSTANCE Passes WITH Step <- SubsStep, Inv <- SubsInv

\* The message for all that have subscribed to its topic.
LEMMA ExactSubsProcess ==
  ASSUME NEW d, NEW held, Exact(d, held), NEW id \in DOMAIN d.store, NEW qos \in 0 .. 2,
         NEW leaves \in Seq(Leaf)
  PROVE  LET e == SubsProcess(d, id, qos, leaves)
         IN  Exact(e, held) /\ Grows(d, e)
<1> DEFINE p == [leaves |-> leaves, qos |-> qos, id |-> id, held |-> held, start |-> d]
           n == Len(leaves)
<1>1. SubsProcess(d, id, qos, leaves) = OfSubs!Pass(p, d, n)
  BY DEF SubsProcess, OfSubs!Pass, SubsStep
<1>2. n \in Nat /\ SubsInv(p, 0, d)
  BY GrowsReflexive DEF SubsInv
<1>3. ASSUME NEW i \in 1 .. n, NEW e, SubsInv(p, i - 1, e)
      PROVE  SubsInv(p, i, SubsStep(p, e, i))
  <2>1. Exact(e, held) /\ Grows(d, e) /\ id \in DOMAIN e.store
    BY <1>3 DEF SubsInv, Grows
  <2>2. leaves[i] \in Leaf
    OBVIOUS
  <2>3. leaves[i].client \in Clients /\ Lower(qos, leaves[i].qos) \in 0 .. 2
    BY <2>2 DEF Leaf, Lower
  <2> DEFINE new == InsertOut(e, leaves[i].client, Lower(qos, leaves[i].qos), FALSE, id)
  <2>4. Exact(new, held) /\ Grows(e, new)
    BY <2>1, <2>3, ExactInsertOut
  <2>5. SubsStep(p, e, i) = new
    BY DEF SubsStep
  <2> HIDE DEF new
  <2>6. Grows(d, new)
    BY <2>1, <2>4, GrowsOn
  <2> QED BY <2>4, <2>5, <2>6 DEF SubsInv
<1> HIDE DEF p, n
<1>4. SubsInv(p, n, OfSubs!Pass(p, d, n))
  BY <1>2, <1>3, OfSubs!PassKeeps
<1> QED
  BY <1>1, <1>4 DEF SubsInv, p, n

\* Nobody in a list gets nothing.
LEMMA NobodyAsked ==
  ASSUME NEW d, NEW id, NEW qos
  PROVE  SubsProcess(d, id, qos, <<>>) = d
<1> DEFINE p == [leaves |-> <<>>, qos |-> qos, id |-> id, held |-> <<>>, start |-> d]
<1>1. SubsProcess(d, id, qos, <<>>) = OfSubs!Pass(p, d, 0)
  BY DEF SubsProcess, OfSubs!Pass, SubsStep
<1> QED
  BY <1>1, OfSubs!PassOfNone

\* A set without elements is the empty sequence.
LEMMA SetToSeqEmpty == SetToSeq({}) = <<>>
<1>1. SetToSeq({}) \in Seq({})
  BY FS_EmptySet, SetToSeqLists
<1> QED
  BY <1>1

\* The queues only get longer, and only this message and retained ones are freed.
Passed(d, e, id, retain) ==
  /\ \A b \in Clients : Longer(d.ctx[b], e.ctx[b])
  /\ e.subs = d.subs /\ DOMAIN e.store \subseteq DOMAIN d.store /\ SameContent(d, e)
  /\ \A i \in DOMAIN d.store : i \in DOMAIN e.store \/ i = id \/ \E t \in Names : d.kept[t] = i
  /\ e.kept = KeptAfter(d, id, retain)

\* The queues are those that _subs_process leaves.
Routed(d, e, held, id, qos, leaves) ==
  \E kept : /\ Exact(kept, Holding(held, id)) /\ kept.ctx = d.ctx /\ kept.subs = d.subs
            /\ id \in DOMAIN kept.store
            /\ e.ctx = SubsProcess(kept, id, qos,
                                   SetToSeq({leaf \in leaves : leaf.topic = d.store[id].m.topic})).ctx

\* A message is passed on; the reference that is taken meanwhile is given back.
LEMMA ExactMessagesQueue ==
  ASSUME NEW d, NEW held, Exact(d, held), NEW id \in DOMAIN d.store, NEW qos \in 0 .. 2,
         NEW retain \in BOOLEAN, retain => d.store[id].m.retain = TRUE, NEW leaves, leaves \subseteq Leaf
  PROVE  LET e == MessagesQueue(d, id, qos, retain, leaves)
         IN  /\ Exact(e, held) /\ Passed(d, e, id, retain)
             /\ Routed(d, e, held, id, qos, leaves)
             /\ leaves = {} => e.ctx = d.ctx
<1> DEFINE mine == Holding(held, id)
           referred == Ref(d, id)
           kept == IF retain THEN Retain(referred, id) ELSE referred
           asked == {leaf \in leaves : leaf.topic = d.store[id].m.topic}
           routed == SubsProcess(kept, id, qos, SetToSeq(asked))
<1>1. id \in Nat /\ held \in Held
  BY DEF Exact, Types
<1>2. mine[id] # 0 /\ Giving(mine, id) = held
  BY <1>1, HoldingGiving
<1>3. /\ Exact(referred, mine) /\ referred.ctx = d.ctx /\ referred.kept = d.kept /\ referred.subs = d.subs
      /\ DOMAIN referred.store = DOMAIN d.store /\ SameContent(d, referred)
  <2>1. /\ Exact(referred, mine) /\ OnlyStore(d, referred) /\ DOMAIN referred.store = DOMAIN d.store
        /\ SameContent(d, referred)
    BY ExactRef
  <2> HIDE DEF referred
  <2> QED BY <2>1 DEF OnlyStore
<1> HIDE DEF mine, referred
<1>4. /\ Exact(kept, mine) /\ kept.ctx = d.ctx /\ kept.subs = d.subs
      /\ DOMAIN kept.store \subseteq DOMAIN d.store /\ SameContent(d, kept)
      /\ \A i \in DOMAIN d.store : i \in DOMAIN kept.store \/ \E t \in Names : d.kept[t] = i
      /\ kept.kept = KeptAfter(d, id, retain)
  <2>1. CASE retain
    <3> DEFINE e == Retain(referred, id)
    <3>1. /\ Exact(e, mine) /\ e.ctx = referred.ctx /\ e.subs = referred.subs
          /\ DOMAIN e.store \subseteq DOMAIN referred.store /\ SameContent(referred, e)
          /\ \A i \in DOMAIN referred.store : i \in DOMAIN e.store \/ \E t \in Names : referred.kept[t] = i
          /\ e.kept = KeptAfter(referred, id, TRUE)
      <4>1. referred.store[id].m.retain = TRUE
        BY <1>3, <2>1 DEF SameContent
      <4> QED BY <1>1, <1>2, <1>3, <4>1, ExactRetain
    <3>2. kept = e
      BY <2>1
    <3> HIDE DEF e, kept
    <3>3. SameContent(d, e)
      BY <1>3, <3>1 DEF SameContent
    <3>4. KeptAfter(referred, id, TRUE) = KeptAfter(d, id, retain)
      BY <1>3, <2>1 DEF SameContent, KeptAfter
    <3> QED BY <1>3, <3>1, <3>2, <3>3, <3>4
  <2>2. CASE ~retain
    BY <1>3, <2>2 DEF KeptAfter
  <2> QED BY <2>1, <2>2
<1> HIDE DEF kept
<1>5. SetToSeq(asked) \in Seq(Leaf)
  <2>1. asked \in SUBSET Leaf
    OBVIOUS
  <2> HIDE DEF asked
  <2>2. IsFiniteSet(asked)
    BY <2>1, LeafFinite, FS_Subset
  <2>3. SetToSeq(asked) \in Seq(asked)
    BY <2>2, SetToSeqLists
  <2> QED BY <2>1, <2>3
<1>6. /\ Exact(routed, mine) /\ Grows(kept, routed) /\ (leaves = {} => routed = kept)
      /\ id \in DOMAIN kept.store
  <2>1. id \in DOMAIN kept.store
    BY <1>1, <1>2, <1>4 DEF Exact, NothingDangles
  <2>2. ASSUME leaves = {}
        PROVE  routed = kept
    <3>1. asked = {}
      BY <2>2
    <3> HIDE DEF asked
    <3>2. SetToSeq(asked) = <<>>
      BY <3>1, SetToSeqEmpty
    <3> QED BY <3>2, NobodyAsked
  <2> HIDE DEF asked
  <2> QED BY <1>4, <1>5, <2>1, <2>2, ExactSubsProcess
<1> HIDE DEF routed
<1>7. /\ Exact(Deref(routed, id), held) /\ OnlyStore(routed, Deref(routed, id))
      /\ DOMAIN routed.store \ {id} \subseteq DOMAIN Deref(routed, id).store
      /\ DOMAIN Deref(routed, id).store \subseteq DOMAIN routed.store
      /\ SameContent(routed, Deref(routed, id))
  BY <1>1, <1>2, <1>6, ExactDeref
<1> DEFINE e == Deref(routed, id)
<1>8. MessagesQueue(d, id, qos, retain, leaves) = e
  BY DEF MessagesQueue, routed, kept, referred
<1> HIDE DEF e
<1>9. e.ctx = routed.ctx /\ e.kept = routed.kept /\ e.subs = routed.subs
  BY <1>7 DEF e, OnlyStore
<1>10. Passed(d, e, id, retain)
  <2>1. \A i \in DOMAIN d.store : i \in DOMAIN e.store \/ i = id \/ \E t \in Names : d.kept[t] = i
    BY <1>4, <1>6, <1>7 DEF Grows, e
  <2>2. DOMAIN e.store \subseteq DOMAIN d.store
    BY <1>4, <1>6, <1>7 DEF Grows, e
  <2>3. SameContent(d, e)
    BY <1>4, <1>6, <1>7 DEF Grows, SameContent, e
  <2> QED BY <1>4, <1>6, <1>9, <2>1, <2>2, <2>3 DEF Grows, Passed
<1>11. leaves = {} => e.ctx = d.ctx
  BY <1>4, <1>6, <1>9
<1>12. Routed(d, e, held, id, qos, leaves)
  BY <1>4, <1>6, <1>9 DEF Routed, routed, mine
<1> QED
  BY <1>7, <1>8, <1>10, <1>11, <1>12 DEF e

\* A message of the broker itself, such as a will.
LEMMA ExactEasyQueue ==
  ASSUME NEW d, NEW held, Exact(d, held), NEW source \in Clients, NEW m \in Content
  PROVE  LET e == EasyQueue(d, source, m)
         IN  Exact(e, held) /\ KeepsAll(d, e) /\ \A b \in Clients : e.ctx[b].will = d.ctx[b].will
<1> DEFINE stored == MessageStore(d, source, 0, m)
<1>1. /\ Exact(stored, held) /\ stored.last \in DOMAIN stored.store /\ stored.ctx = d.ctx
      /\ stored.store[stored.last].m = m
  BY ExactStored
<1>2. /\ m.qos \in 0 .. 2 /\ m.retain \in BOOLEAN /\ d.subs \subseteq Leaf
      /\ m.retain => stored.store[stored.last].m.retain = TRUE
  <2> HIDE DEF stored
  <2> QED BY <1>1 DEF Content, Exact, Types
<1>3. EasyQueue(d, source, m) = MessagesQueue(stored, stored.last, m.qos, m.retain, d.subs)
  BY DEF EasyQueue
<1> DEFINE e == EasyQueue(d, source, m)
<1> HIDE DEF stored, e
<1>4. Exact(e, held) /\ Passed(stored, e, stored.last, m.retain)
  <2> DEFINE qos == m.qos
             retain == m.retain
             id == stored.last
             leaves == d.subs
  <2>1. /\ Exact(stored, held) /\ id \in DOMAIN stored.store /\ qos \in 0 .. 2 /\ retain \in BOOLEAN
        /\ leaves \subseteq Leaf /\ (retain => stored.store[id].m.retain = TRUE)
    BY <1>1, <1>2
  <2>2. e = MessagesQueue(stored, id, qos, retain, leaves)
    BY <1>3 DEF e
  <2> HIDE DEF qos, retain, id, leaves
  <2>3. Exact(e, held) /\ Passed(stored, e, id, retain)
    BY <2>1, <2>2, ExactMessagesQueue
  <2> QED BY <2>3 DEF id, retain
<1>5. KeepsAll(d, stored) /\ KeepsAll(stored, e)
  BY <1>1, <1>4, KeepsAllSame, LongerKeeps DEF Passed
<1>6. \A b \in Clients : e.ctx[b].will = d.ctx[b].will
  BY <1>1, <1>4 DEF Passed, Longer
<1> QED
  BY <1>4, <1>5, <1>6, KeepsAllOn DEF e

-----------------------------------------------------------------------------
\* The loop of a queue that answers what it starts, and what each of its rounds keeps.
PubrecStep(p, d, i) ==
  IF p.msgs[i].state = "queued" /\ p.msgs[i].dir = "in" THEN Send(d, p.c, Packet("pubrec", p.msgs[i].mid)) ELSE d
PubrecInv(p, i, d) ==
  /\ Exact(d, p.held)
  /\ d.store = p.start.store /\ d.kept = p.start.kept /\ d.subs = p.start.subs /\ d.ctx = p.start.ctx
OfPubrecs == INSTANCE Passes WITH Step <- PubrecStep, Inv <- PubrecInv

\* Starting messages of a queue, with what is sent for them.
LEMMA ExactPubrecs ==
  ASSUME NEW d, NEW held, Exact(d, held), NEW c \in Clients, NEW n \in Nat
  PROVE  LET e == Pubrecs(d, c, n)
         IN  /\ Exact(e, held) /\ e.store = d.store /\ e.kept = d.kept /\ e.subs = d.subs
             /\ e.ctx = StartFirst(d, c, n).ctx
             /\ \A b \in Clients : SameMessages(d.ctx[b].msgs, e.ctx[b].msgs)
             /\ KeepsAll(d, e)
<1> DEFINE start == StartFirst(d, c, n)
           msgs == d.ctx[c].msgs
           p == [msgs |-> msgs, c |-> c, held |-> held, start |-> start]
           rounds == Lower(n, Len(msgs))
<1>1. Pubrecs(d, c, n) = OfPubrecs!Pass(p, start, rounds)
  BY DEF Pubrecs, OfPubrecs!Pass, PubrecStep
<1>2. d.ctx \in [Clients -> Context] /\ msgs \in Seq(Msg) /\ rounds \in Nat
  <2>1. d.ctx \in [Clients -> Context]
    BY DEF Exact, Types
  <2>2. msgs \in Seq(Msg)
    BY <2>1 DEF Context
  <2>3. Len(msgs) \in Nat
    BY <2>2
  <2> HIDE DEF msgs
  <2> QED BY <2>1, <2>2, <2>3 DEF Lower
<1>3. /\ Exact(start, held) /\ start.store = d.store /\ start.kept = d.kept /\ start.subs = d.subs
      /\ \A b \in Clients : SameMessages(d.ctx[b].msgs, start.ctx[b].msgs)
      /\ KeepsAll(d, start)
  <2>1. /\ Exact(start, held) /\ OnlyContexts(d, start) /\ start.ctx = [d.ctx EXCEPT ![c] = start.ctx[c]]
        /\ SameMessages(d.ctx[c].msgs, start.ctx[c].msgs) /\ KeepsAll(d, start)
    BY ExactStartFirst
  <2> HIDE DEF start
  <2>2. \A b \in Clients \ {c} : start.ctx[b] = d.ctx[b]
    BY <1>2, <2>1
  <2> QED BY <2>1, <2>2 DEF OnlyContexts, SameMessages
<1> HIDE DEF start, msgs
<1>4. PubrecInv(p, 0, start)
  BY <1>3 DEF PubrecInv
<1>5. ASSUME NEW i \in 1 .. rounds, NEW e, PubrecInv(p, i - 1, e)
      PROVE  PubrecInv(p, i, PubrecStep(p, e, i))
  <2>1. CASE msgs[i].state = "queued" /\ msgs[i].dir = "in"
    <3> DEFINE new == Send(e, c, Packet("pubrec", msgs[i].mid))
    <3>1. Exact(e, held)
      BY <1>5 DEF PubrecInv
    <3>2. /\ Exact(new, held)
          /\ new = [store |-> e.store, last |-> e.last, kept |-> e.kept, subs |-> e.subs,
                    ctx |-> e.ctx, out |-> new.out]
      BY <3>1, ExactSend
    <3>3. PubrecStep(p, e, i) = new
      BY <2>1 DEF PubrecStep
    <3> HIDE DEF new
    <3>4. new.store = e.store /\ new.kept = e.kept /\ new.subs = e.subs /\ new.ctx = e.ctx
      BY <3>2
    <3> QED BY <1>5, <3>2, <3>3, <3>4 DEF PubrecInv
  <2>2. CASE ~(msgs[i].state = "queued" /\ msgs[i].dir = "in")
    <3>1. PubrecStep(p, e, i) = e
      BY <2>2 DEF PubrecStep
    <3> QED BY <1>5, <3>1 DEF PubrecInv
  <2> QED BY <2>1, <2>2
<1> HIDE DEF p, rounds
<1> DEFINE e == OfPubrecs!Pass(p, start, rounds)
<1>6. PubrecInv(p, rounds, e)
  BY <1>2, <1>4, <1>5, OfPubrecs!PassKeeps
<1> HIDE DEF e
<1>7. Exact(e, held) /\ e.store = d.store /\ e.kept = d.kept /\ e.subs = d.subs /\ e.ctx = start.ctx
  BY <1>3, <1>6 DEF PubrecInv, p
<1>8. KeepsAll(d, e)
  BY <1>3, <1>7, KeepsAllSame, KeepsAllOn
<1> QED
  BY <1>1, <1>3, <1>7, <1>8 DEF e, start

\* The least of a set of numbers is one of them.
LEMMA MinIsThere ==
  ASSUME NEW S, S \subseteq Nat, S # {}
  PROVE  Min(S) \in S
<1>1. PICK k \in S : \A j \in S : ~(j < k)
  BY OfPubrecs!Least
<1>2. \A j \in S : k =< j
  BY <1>1
<1> QED
  BY <1>2 DEF Min

\* The place of a message is one of the queue.
LEMMA PlaceIsThere ==
  ASSUME NEW d, NEW held, Exact(d, held), NEW c \in Clients, NEW mid, NEW dir, Places(d, c, mid, dir) # {}
  PROVE  /\ Min(Places(d, c, mid, dir)) \in DOMAIN d.ctx[c].msgs
         /\ Min(Places(d, c, mid, dir)) \in Nat
         /\ d.ctx[c].msgs[Min(Places(d, c, mid, dir))].mid = mid
         /\ d.ctx[c].msgs[Min(Places(d, c, mid, dir))].dir = dir
<1>1. d.ctx \in [Clients -> Context]
  BY DEF Exact, Types
<1>2. d.ctx[c].msgs \in Seq(Msg)
  BY <1>1 DEF Context
<1>3. Places(d, c, mid, dir) \subseteq DOMAIN d.ctx[c].msgs /\ DOMAIN d.ctx[c].msgs \subseteq Nat
  BY <1>2 DEF Places
<1>4. Min(Places(d, c, mid, dir)) \in Places(d, c, mid, dir)
  BY <1>3, MinIsThere
<1> QED
  BY <1>3, <1>4 DEF Places

\* The limits are numbers.
LEMMA Limits == MaxInflight \in Nat /\ MaxQueued \in Nat /\ MaxMid \in Nat
  BY BrokerAssumption

\* A PUBREL: the message is passed on and leaves the queue of its publisher.
LEMMA ExactMessageRelease ==
  ASSUME NEW d, NEW held, Exact(d, held), NEW c \in Clients, NEW mid
  PROVE  LET e == MessageRelease(d, c, mid)
         IN  Exact(e, held) /\ KeepsAllBut(d, e, c, mid, "in")
<1> DEFINE found == Places(d, c, mid, "in")
           k == Min(found)
           first == IF found = {} THEN MaxInflight ELSE Lower(k, MaxInflight)
           before == Pubrecs(d, c, first)
           msg == before.ctx[c].msgs[k]
           routed == MessagesQueue(before, msg.id, d.store[msg.id].m.qos, msg.retain, d.subs)
<1>1. MessageRelease(d, c, mid) =
        IF found = {} THEN before ELSE Pubrecs(MessageRemove(routed, c, k), c, MaxInflight)
  BY DEF MessageRelease
<1>2. found # {} => /\ k \in DOMAIN d.ctx[c].msgs /\ k \in Nat
                    /\ d.ctx[c].msgs[k].mid = mid /\ d.ctx[c].msgs[k].dir = "in"
  BY PlaceIsThere
<1>3. first \in Nat
  <2> HIDE DEF k
  <2> QED BY <1>2, Limits DEF Lower
<1> HIDE DEF first, k, found
<1>4. /\ Exact(before, held) /\ before.store = d.store
      /\ \A b \in Clients : SameMessages(d.ctx[b].msgs, before.ctx[b].msgs)
      /\ KeepsAll(d, before)
  BY <1>3, ExactPubrecs
<1> DEFINE after == Pubrecs(MessageRemove(routed, c, k), c, MaxInflight)
<1> HIDE DEF before
<1>5. ASSUME found # {}
      PROVE  Exact(after, held) /\ KeepsAllBut(d, after, c, mid, "in")
  <2>1. k \in DOMAIN before.ctx[c].msgs /\ msg.mid = mid /\ msg.dir = "in"
    BY <1>2, <1>4, <1>5 DEF SameMessages
  <2>2. msg.id \in DOMAIN before.store
    BY <1>4, <2>1 DEF Exact, NothingDangles
  <2>3. d.store[msg.id].m.qos \in 0 .. 2 /\ d.subs \subseteq Leaf
    <3>1. d.store[msg.id] \in Stored
      BY <1>4, <2>2 DEF Exact, Types
    <3> QED BY <3>1 DEF Stored, Content, Exact, Types
  <2>4. Exact(routed, held) /\ Passed(before, routed, msg.id, msg.retain)
    <3>1. msg.retain \in BOOLEAN /\ (msg.retain => before.store[msg.id].m.retain = TRUE)
      <4>1. before.ctx[c].msgs \in Seq(Msg)
        BY <1>4 DEF Exact, Types, Context
      <4>2. msg \in Msg
        BY <2>1, <4>1
      <4>3. AsPublished(before.store[msg.id], msg)
        BY <1>4, <2>1 DEF Exact, IncomingIsStored
      <4> QED BY <4>2, <4>3 DEF Msg, AsPublished
    <3> HIDE DEF msg
    <3> QED BY <1>4, <2>2, <2>3, <3>1, ExactMessagesQueue
  <2>5. k \in DOMAIN routed.ctx[c].msgs /\ routed.ctx[c].msgs[k] = msg
    BY <2>1, <2>4 DEF Passed, Longer
  <2>6. KeepsAll(before, routed)
    BY <2>4, LongerKeeps DEF Passed
  <2> DEFINE left == MessageRemove(routed, c, k)
  <2> HIDE DEF routed, msg
  <2>7. Exact(left, held) /\ KeepsAllBut(routed, left, c, mid, "in")
    <3>1. /\ Exact(left, held)
          /\ KeepsAllBut(routed, left, c, routed.ctx[c].msgs[k].mid, routed.ctx[c].msgs[k].dir)
      BY <2>4, <2>5, ExactMessageRemove
    <3> HIDE DEF left
    <3> QED BY <2>1, <2>5, <3>1
  <2> HIDE DEF left
  <2>8. Exact(after, held) /\ KeepsAll(left, after)
    BY <2>7, Limits, ExactPubrecs DEF left
  <2>9. KeepsAll(d, routed)
    BY <1>4, <2>6, KeepsAllOn
  <2> QED BY <2>7, <2>8, <2>9, KeepsAllButOn
<1> HIDE DEF routed, after
<1>6. KeepsAllBut(d, before, c, mid, "in")
  BY <1>4, KeepsAllIsBut
<1> QED
  BY <1>1, <1>4, <1>5, <1>6 DEF after

\* An acknowledgement: the message leaves the queue.
LEMMA ExactMessageDelete ==
  ASSUME NEW d, NEW held, Exact(d, held), NEW c \in Clients, NEW mid, NEW dir
  PROVE  LET e == MessageDelete(d, c, mid, dir)
         IN  Exact(e, held) /\ KeepsAllBut(d, e, c, mid, dir)
<1> DEFINE found == Places(d, c, mid, dir)
           k == Min(found)
           before == StartFirst(d, c, Lower(k, MaxInflight))
<1>1. MessageDelete(d, c, mid, dir) =
        IF found = {} THEN StartFirst(d, c, MaxInflight)
        ELSE StartFirst(MessageRemove(before, c, k), c, MaxInflight)
  BY DEF MessageDelete
<1>2. found # {} => /\ k \in DOMAIN d.ctx[c].msgs
                    /\ d.ctx[c].msgs[k].mid = mid /\ d.ctx[c].msgs[k].dir = dir
  BY PlaceIsThere
<1>3. Exact(before, held) /\ SameMessages(d.ctx[c].msgs, before.ctx[c].msgs) /\ KeepsAll(d, before)
  BY ExactStartFirst
<1> DEFINE left == MessageRemove(before, c, k)
           after == StartFirst(left, c, MaxInflight)
           first == StartFirst(d, c, MaxInflight)
<1> HIDE DEF before, k
<1>4. ASSUME found # {}
      PROVE  Exact(after, held) /\ KeepsAllBut(d, after, c, mid, dir)
  <2>1. /\ k \in DOMAIN before.ctx[c].msgs
        /\ before.ctx[c].msgs[k].mid = mid /\ before.ctx[c].msgs[k].dir = dir
    BY <1>2, <1>3, <1>4 DEF SameMessages
  <2>2. /\ Exact(left, held)
        /\ KeepsAllBut(before, left, c, before.ctx[c].msgs[k].mid, before.ctx[c].msgs[k].dir)
    BY <1>3, <2>1, ExactMessageRemove
  <2> HIDE DEF left
  <2>3. Exact(after, held) /\ KeepsAll(left, after)
    BY <2>2, ExactStartFirst
  <2> HIDE DEF after
  <2>4. KeepsAllBut(before, left, c, mid, dir)
    BY <2>1, <2>2
  <2> QED BY <1>3, <2>3, <2>4, KeepsAllButOn
<1>5. Exact(first, held) /\ KeepsAll(d, first)
  BY ExactStartFirst
<1> HIDE DEF after, first
<1>6. KeepsAllBut(d, first, c, mid, dir)
  BY <1>5, KeepsAllIsBut
<1> QED
  BY <1>1, <1>4, <1>5, <1>6 DEF after, left, first

\* A PUBREC: other states, the same messages.
LEMMA ExactMessageUpdate ==
  ASSUME NEW d, NEW held, Exact(d, held), NEW c \in Clients, NEW mid, NEW state \in Staying
  PROVE  LET e == MessageUpdate(d, c, mid, state)
         IN  Exact(e, held) /\ KeepsAll(d, e)
<1> DEFINE e == MessageUpdate(d, c, mid, state)
           msgs == d.ctx[c].msgs
           new == [k \in DOMAIN msgs |-> IF k \in Places(d, c, mid, "out")
                                         THEN [msgs[k] EXCEPT !.state = state] ELSE msgs[k]]
           x == [d.ctx[c] EXCEPT !.msgs = new]
<1>1. d.ctx \in [Clients -> Context] /\ d.ctx[c] \in Context /\ msgs \in Seq(Msg)
  BY DEF Exact, Types, Context
<1>2. e = [store |-> d.store, last |-> d.last, kept |-> d.kept, subs |-> d.subs,
           ctx |-> [d.ctx EXCEPT ![c] = x], out |-> d.out]
  BY DEF Exact, Types, MessageUpdate
<1>3. \A j \in DOMAIN msgs : /\ new[j] \in Msg /\ new[j].id = msgs[j].id /\ new[j].dir = msgs[j].dir
                             /\ new[j].mid = msgs[j].mid /\ new[j].qos = msgs[j].qos
                             /\ new[j].retain = msgs[j].retain
  <2> TAKE j \in DOMAIN msgs
  <2>1. msgs[j] \in Msg
    BY <1>1
  <2> QED BY <2>1 DEF Msg, Staying
<1>4. DOMAIN new = DOMAIN msgs /\ new = [j \in DOMAIN msgs |-> new[j]]
  OBVIOUS
<1> HIDE DEF new, e
<1>5. new \in Seq(Msg)
  BY <1>1, <1>3, <1>4, SameIsQueue
<1>6. /\ x \in Context /\ x.msgs = new /\ x.sock = d.ctx[c].sock /\ x.n12 = d.ctx[c].n12
      /\ SameConnection(d.ctx[c], x)
  BY <1>1, <1>5 DEF Context, SameConnection
<1> HIDE DEF x
<1>7. e.ctx = [d.ctx EXCEPT ![c] = x] /\ OnlyContexts(d, e)
  BY <1>2 DEF OnlyContexts
<1>8. SameMessages(msgs, x.msgs) /\ CountGoesOn(d.ctx[c], x)
  BY <1>3, <1>4, <1>6 DEF SameMessages, CountGoesOn
<1>9. Exact(e, held)
  BY <1>6, <1>7, <1>8, ExactContext
<1>10. KeepsAll(d, e)
  BY <1>1, <1>6, <1>7, <1>8, KeepsAllOne
<1> QED
  BY <1>9, <1>10 DEF e

\* A message that is tried again is the same one.
LEMMA ExactRetry ==
  ASSUME NEW d, NEW held, Exact(d, held), NEW c \in Clients, NEW k \in DOMAIN d.ctx[c].msgs
  PROVE  LET e == [d EXCEPT !.ctx[c].msgs[k] = TimedOut(@)]
         IN  Exact(e, held) /\ KeepsAll(d, e)
<1> DEFINE msgs == d.ctx[c].msgs
           m == TimedOut(msgs[k])
           new == [msgs EXCEPT ![k] = m]
           x == [d.ctx[c] EXCEPT !.msgs = new]
           e == [d EXCEPT !.ctx[c].msgs[k] = TimedOut(@)]
<1>1. d.ctx \in [Clients -> Context] /\ d.ctx[c] \in Context /\ msgs \in Seq(Msg)
  BY DEF Exact, Types, Context
<1>2. m \in Msg /\ m.id = msgs[k].id /\ m.dir = msgs[k].dir /\ m.mid = msgs[k].mid /\ m.qos = msgs[k].qos
      /\ m.retain = msgs[k].retain
  <2>1. msgs[k] \in Msg
    BY <1>1
  <2> DEFINE again == [wait_for_puback |-> "publish_qos1", wait_for_pubrec |-> "publish_qos2",
                       wait_for_pubrel |-> "send_pubrec", wait_for_pubcomp |-> "resend_pubrel"]
             old == msgs[k]
  <2>2. \A s \in DOMAIN again : again[s] \in Staying
    BY DEF States, Staying
  <2>3. m = IF old.state \in DOMAIN again THEN [old EXCEPT !.state = again[old.state], !.dup = TRUE] ELSE old
    BY DEF TimedOut
  <2> HIDE DEF msgs, m, again, old
  <2>4. old \in Msg
    BY <2>1 DEF old
  <2>5. m \in Msg /\ m.id = old.id /\ m.dir = old.dir /\ m.mid = old.mid /\ m.qos = old.qos
        /\ m.retain = old.retain
    BY <2>2, <2>3, <2>4 DEF Msg, Staying
  <2> QED BY <2>5 DEF old
<1> HIDE DEF m
<1>3. e = [store |-> d.store, last |-> d.last, kept |-> d.kept, subs |-> d.subs,
           ctx |-> [d.ctx EXCEPT ![c] = x], out |-> d.out]
  BY DEF Exact, Types, m
<1>4. new \in Seq(Msg) /\ DOMAIN new = DOMAIN msgs /\ new[k] = m /\ \A j \in DOMAIN msgs \ {k} : new[j] = msgs[j]
  BY <1>1, <1>2
<1> HIDE DEF new, e
<1>5. /\ x \in Context /\ x.msgs = new /\ x.sock = d.ctx[c].sock /\ x.n12 = d.ctx[c].n12
      /\ SameConnection(d.ctx[c], x)
  BY <1>1, <1>4 DEF Context, SameConnection
<1> HIDE DEF x
<1>6. e.ctx = [d.ctx EXCEPT ![c] = x] /\ OnlyContexts(d, e)
  BY <1>3 DEF OnlyContexts
<1>7. SameMessages(msgs, x.msgs) /\ CountGoesOn(d.ctx[c], x)
  BY <1>2, <1>4, <1>5 DEF SameMessages, CountGoesOn
<1>8. Exact(e, held)
  BY <1>5, <1>6, <1>7, ExactContext
<1>9. KeepsAll(d, e)
  BY <1>1, <1>5, <1>6, <1>7, KeepsAllOne
<1> QED
  BY <1>8, <1>9 DEF e

\* Subscriptions refer to no message.
LEMMA ExactSubs ==
  ASSUME NEW d, NEW held, Exact(d, held), NEW subs, subs \subseteq Leaf
  PROVE  LET e == [d EXCEPT !.subs = subs]
         IN  Exact(e, held) /\ e.ctx = d.ctx
<1> DEFINE e == [d EXCEPT !.subs = subs]
<1>1. e = [store |-> d.store, last |-> d.last, kept |-> d.kept, subs |-> subs, ctx |-> d.ctx, out |-> d.out]
  BY DEF Exact, Types
<1> HIDE DEF e
<1>2. /\ e.store = d.store /\ e.kept = d.kept /\ e.ctx = d.ctx /\ e.subs = subs /\ e.last = d.last
      /\ e = [store |-> e.store, last |-> e.last, kept |-> e.kept, subs |-> e.subs, ctx |-> e.ctx, out |-> e.out]
  BY <1>1
<1>3. Types(e) /\ SameCounts(d, e)
  BY <1>2 DEF Exact, Types, SameCounts
<1>4. \A b \in Clients : SameMessages(d.ctx[b].msgs, e.ctx[b].msgs) /\ CountGoesOn(d.ctx[b], e.ctx[b])
  BY <1>2 DEF SameMessages, CountGoesOn
<1> QED
  BY <1>2, <1>3, <1>4, ExactAlike DEF e

-----------------------------------------------------------------------------
\* mqtt3_db_messages_delete after some of its rounds, as if the messages that have given their
\* reference back had left the queue already.
Rest(p, d, i) ==
  [store |-> d.store, last |-> d.last, kept |-> d.kept, subs |-> d.subs, out |-> d.out,
   ctx |-> [d.ctx EXCEPT ![p.c] = [@ EXCEPT !.sock = FALSE, !.msgs = SubSeq(p.msgs, i + 1, Len(p.msgs))]]]

DeleteStep(p, d, i) == Deref(d, p.msgs[i].id)
DeleteInv(p, i, d) == OnlyStore(p.start, d) /\ Exact(Rest(p, d, i), p.held)
OfDelete == INSTANCE Passes WITH Step <- DeleteStep, Inv <- DeleteInv

\* The queue of a client is emptied.
LEMMA ExactMessagesDelete ==
  ASSUME NEW d, NEW held, Exact(d, held), NEW c \in Clients
  PROVE  LET e == MessagesDelete(d, c)
         IN  /\ Exact(e, held) /\ e.ctx = [d.ctx EXCEPT ![c] = [@ EXCEPT !.msgs = <<>>, !.n12 = 0]]
             /\ e.subs = d.subs
<1> DEFINE msgs == d.ctx[c].msgs
           n == Len(msgs)
           p == [msgs |-> msgs, c |-> c, held |-> held, start |-> d]
           last == OfDelete!Pass(p, d, n)
           X(i) == [d.ctx[c] EXCEPT !.sock = FALSE, !.msgs = SubSeq(msgs, i + 1, n)]
<1>1. MessagesDelete(d, c) = [last EXCEPT !.ctx[c] = [@ EXCEPT !.msgs = <<>>, !.n12 = 0]]
  BY DEF MessagesDelete, OfDelete!Pass, DeleteStep
<1> HIDE DEF last
<1>2. /\ d.ctx \in [Clients -> Context] /\ d.ctx[c] \in Context /\ msgs \in Seq(Msg) /\ n \in Nat /\ held \in Held
      /\ d = [store |-> d.store, last |-> d.last, kept |-> d.kept, subs |-> d.subs, ctx |-> d.ctx, out |-> d.out]
  <2>1. /\ d.ctx \in [Clients -> Context] /\ held \in Held
        /\ d = [store |-> d.store, last |-> d.last, kept |-> d.kept, subs |-> d.subs, ctx |-> d.ctx, out |-> d.out]
    BY DEF Exact, Types
  <2>2. msgs \in Seq(Msg)
    BY <2>1 DEF Context
  <2> QED BY <2>1, <2>2
<1>3. \A i \in 0 .. n : /\ SubSeq(msgs, i + 1, n) \in Seq(Msg)
                        /\ DOMAIN SubSeq(msgs, i + 1, n) = 1 .. n - i
                        /\ \A j \in 1 .. n - i : SubSeq(msgs, i + 1, n)[j] = msgs[j + i]
  BY <1>2
<1>4. \A i \in 0 .. n : /\ X(i) \in Context /\ X(i).msgs = SubSeq(msgs, i + 1, n)
                        /\ X(i).sock = FALSE
  <2> TAKE i \in 0 .. n
  <2>1. SubSeq(msgs, i + 1, n) \in Seq(Msg)
    BY <1>3
  <2> QED BY <1>2, <2>1 DEF Context
<1>5. ASSUME NEW e, e.ctx = d.ctx, NEW i \in 0 .. n
      PROVE  Rest(p, e, i) = [store |-> e.store, last |-> e.last, kept |-> e.kept, subs |-> e.subs,
                              ctx |-> [d.ctx EXCEPT ![c] = X(i)], out |-> e.out]
  BY <1>5 DEF Rest
<1>6. DeleteInv(p, 0, d)
  <2>1. X(0).msgs = msgs
    <3>1. SubSeq(msgs, 0 + 1, n) = msgs
      BY <1>2
    <3> QED BY <1>2, <3>1
  <2> DEFINE e == Rest(p, d, 0)
  <2>2. e = [store |-> d.store, last |-> d.last, kept |-> d.kept, subs |-> d.subs,
             ctx |-> [d.ctx EXCEPT ![c] = X(0)], out |-> d.out]
    BY DEF Rest
  <2>3. X(0) \in Context /\ SameMessages(msgs, X(0).msgs) /\ CountGoesOn(d.ctx[c], X(0))
    <3>1. X(0) \in Context /\ X(0).sock = FALSE
      <4>1. 0 \in 0 .. n
        BY <1>2
      <4> HIDE DEF X, n
      <4> QED BY <1>4, <4>1
    <3> HIDE DEF X
    <3> QED BY <2>1, <3>1 DEF SameMessages, CountGoesOn
  <2> HIDE DEF e, X
  <2>4. OnlyContexts(d, e) /\ e.ctx = [d.ctx EXCEPT ![c] = X(0)]
    BY <2>2 DEF OnlyContexts
  <2>5. Exact(e, held)
    BY <2>3, <2>4, ExactContext
  <2>6. OnlyStore(d, d)
    BY <1>2 DEF OnlyStore
  <2> QED BY <2>5, <2>6 DEF DeleteInv, e
<1>7. ASSUME NEW i \in 1 .. n, NEW e, DeleteInv(p, i - 1, e)
      PROVE  DeleteInv(p, i, DeleteStep(p, e, i))
  <2> DEFINE id == msgs[i].id
             old == Rest(p, e, i - 1)
             now == Rest(p, e, i)
             next == Deref(e, id)
  <2>1. OnlyStore(d, e) /\ Exact(old, held)
    BY <1>7 DEF DeleteInv
  <2>2. /\ e.ctx = d.ctx /\ i - 1 \in 0 .. n /\ i \in 0 .. n
        /\ e = [store |-> e.store, last |-> e.last, kept |-> e.kept, subs |-> e.subs, ctx |-> e.ctx, out |-> e.out]
    BY <1>2, <2>1 DEF OnlyStore
  <2>3. /\ old = [store |-> e.store, last |-> e.last, kept |-> e.kept, subs |-> e.subs,
                  ctx |-> [d.ctx EXCEPT ![c] = X(i - 1)], out |-> e.out]
        /\ now = [store |-> e.store, last |-> e.last, kept |-> e.kept, subs |-> e.subs,
                  ctx |-> [d.ctx EXCEPT ![c] = X(i)], out |-> e.out]
    BY <1>5, <2>2
  <2>4. /\ X(i - 1) \in Context /\ X(i - 1).msgs = SubSeq(msgs, i - 1 + 1, n)
        /\ X(i) \in Context /\ X(i).msgs = SubSeq(msgs, i + 1, n) /\ X(i).sock = FALSE
    BY <1>4, <2>2
  <2> HIDE DEF old, now, X
  <2>5. /\ now.store = e.store /\ now.kept = old.kept /\ SameCounts(old, now)
        /\ now = [store |-> now.store, last |-> now.last, kept |-> now.kept, subs |-> now.subs,
                  ctx |-> now.ctx, out |-> now.out]
        /\ old.ctx \in [Clients -> Context] /\ now.ctx \in [Clients -> Context]
        /\ old.ctx[c].msgs = SubSeq(msgs, i - 1 + 1, n) /\ now.ctx[c].msgs = SubSeq(msgs, i + 1, n)
        /\ now.ctx[c].sock = FALSE
        /\ \A b \in Clients \ {c} : now.ctx[b] = old.ctx[b]
        /\ now.last = old.last /\ now.subs = old.subs /\ now.store = old.store
    BY <1>2, <2>3, <2>4 DEF SameCounts
  <2>6. /\ 1 \in DOMAIN old.ctx[c].msgs /\ old.ctx[c].msgs[1] = msgs[i]
        /\ SameMessages(RemoveAt(old.ctx[c].msgs, 1), now.ctx[c].msgs)
    <3> DEFINE s == SubSeq(msgs, i - 1 + 1, n)
               t == SubSeq(msgs, i + 1, n)
    <3>1. /\ s \in Seq(Msg) /\ DOMAIN s = 1 .. n - (i - 1) /\ Len(s) = n - (i - 1)
          /\ \A j \in 1 .. n - (i - 1) : s[j] = msgs[j + (i - 1)]
      BY <1>2, <1>3, <2>2
    <3>2. DOMAIN t = 1 .. n - i /\ \A j \in 1 .. n - i : t[j] = msgs[j + i]
      BY <1>3, <2>2
    <3> HIDE DEF s, t
    <3>3. 1 \in DOMAIN s /\ s[1] = msgs[i]
      <4>1. 1 \in 1 .. n - (i - 1) /\ 1 + (i - 1) = i
        BY <1>2
      <4> QED BY <3>1, <4>1
    <3>4. /\ DOMAIN RemoveAt(s, 1) = 1 .. Len(s) - 1
          /\ \A j \in 1 .. Len(s) - 1 : RemoveAt(s, 1)[j] = s[IF j < 1 THEN j ELSE j + 1]
      BY <3>1, <3>3, RemovedElements
    <3>5. Len(s) - 1 = n - i
      BY <1>2, <3>1
    <3>6. \A j \in 1 .. n - i : RemoveAt(s, 1)[j] = t[j]
      <4> TAKE j \in 1 .. n - i
      <4>1. RemoveAt(s, 1)[j] = s[j + 1]
        BY <3>4, <3>5, SMTT(30)
      <4>2. j + 1 \in 1 .. n - (i - 1) /\ j + 1 + (i - 1) = j + i
        BY <1>2
      <4>3. s[j + 1] = msgs[j + i]
        BY <3>1, <4>2
      <4> QED BY <3>2, <4>1, <4>3
    <3>7. SameMessages(RemoveAt(s, 1), t)
      BY <3>2, <3>4, <3>5, <3>6 DEF SameMessages
    <3> QED BY <2>5, <3>3, <3>7 DEF s, t
  <2>7. Types(now)
    BY <2>1, <2>5 DEF Exact, Types
  <2>8. Exact(now, Holding(held, id)) /\ id \in Nat
    <3>1. Exact(now, Holding(held, old.ctx[c].msgs[1].id))
      BY <2>1, <2>5, <2>6, <2>7, ExactRemoved
    <3>2. id \in Nat
      <4>1. msgs[i] \in Msg
        BY <1>2
      <4> QED BY <4>1 DEF Msg
    <3> QED BY <2>6, <3>1, <3>2
  <2> HIDE DEF id
  <2>9. Holding(held, id)[id] # 0 /\ Giving(Holding(held, id), id) = held
    BY <1>2, <2>8, HoldingGiving
  <2>10. Exact(Deref(now, id), held)
    BY <2>8, <2>9, ExactDeref
  <2>11. next = [store |-> next.store, last |-> e.last, kept |-> e.kept, subs |-> e.subs, ctx |-> e.ctx, out |-> e.out]
    BY <2>2, DerefFields
  <2>12. Deref(now, id) = [store |-> next.store, last |-> now.last, kept |-> now.kept, subs |-> now.subs,
                           ctx |-> now.ctx, out |-> now.out]
    <3>1. e.store = now.store
      BY <2>5
    <3>2. now = [store |-> now.store, last |-> now.last, kept |-> now.kept, subs |-> now.subs,
                 ctx |-> now.ctx, out |-> now.out]
      BY <2>5
    <3> QED BY ONLY <2>2, <3>1, <3>2, DerefFields, SMT DEF next
  <2> HIDE DEF next
  <2>13. OnlyStore(d, next) /\ next.ctx = d.ctx
    BY <2>1, <2>2, <2>11 DEF OnlyStore
  <2>14. Rest(p, next, i) = Deref(now, id)
    <3>1. Rest(p, next, i) = [store |-> next.store, last |-> next.last, kept |-> next.kept, subs |-> next.subs,
                              ctx |-> [d.ctx EXCEPT ![c] = X(i)], out |-> next.out]
      BY <1>5, <2>2, <2>13
    <3> QED BY <2>3, <2>11, <2>12, <3>1
  <2>15. DeleteStep(p, e, i) = next
    BY DEF DeleteStep, next, id
  <2> QED BY <2>10, <2>13, <2>14, <2>15 DEF DeleteInv
<1>8. OnlyStore(d, last) /\ Exact(Rest(p, last, n), held)
  <2> HIDE DEF p, n
  <2>1. DeleteInv(p, n, last)
    BY <1>2, <1>6, <1>7, OfDelete!PassKeeps DEF last
  <2> QED BY <2>1 DEF DeleteInv, p
<1> DEFINE e == MessagesDelete(d, c)
           x == [d.ctx[c] EXCEPT !.msgs = <<>>, !.n12 = 0]
           r == Rest(p, last, n)
<1>9. /\ last.ctx = d.ctx /\ last.subs = d.subs
      /\ last = [store |-> last.store, last |-> last.last, kept |-> last.kept, subs |-> last.subs,
                 ctx |-> last.ctx, out |-> last.out]
  BY <1>8 DEF OnlyStore
<1>10. r = [store |-> last.store, last |-> last.last, kept |-> last.kept, subs |-> last.subs,
            ctx |-> [d.ctx EXCEPT ![c] = X(n)], out |-> last.out]
  BY <1>9 DEF Rest
<1>11. e = [store |-> last.store, last |-> last.last, kept |-> last.kept, subs |-> last.subs,
            ctx |-> [d.ctx EXCEPT ![c] = x], out |-> last.out]
  BY <1>1, <1>9
<1>12. X(n).msgs = <<>>
  <2>1. SubSeq(msgs, n + 1, n) = <<>>
    BY <1>2
  <2>2. n \in 0 .. n
    BY <1>2
  <2> HIDE DEF X, n
  <2> QED BY <1>4, <2>1, <2>2
<1>13. x \in Context /\ x.msgs = <<>> /\ x.n12 = 0
  <2>1. <<>> \in Seq(Msg)
    OBVIOUS
  <2> DEFINE With(s, k) == [d.ctx[c] EXCEPT !.msgs = s, !.n12 = k]
  <2>2. \A s \in Seq(Msg) : \A k \in Int : With(s, k) \in Context /\ With(s, k).msgs = s /\ With(s, k).n12 = k
    BY <1>2 DEF Context
  <2>3. x = With(<<>>, 0) /\ 0 \in Int
    OBVIOUS
  <2> HIDE DEF x, With
  <2> QED BY <2>1, <2>2, <2>3
<1> HIDE DEF x, X, r, e
<1>14. Exact(e, held)
  <2>1. OnlyContexts(r, e) /\ e.ctx = [r.ctx EXCEPT ![c] = x] /\ r.ctx[c] = X(n)
    <3>1. [[d.ctx EXCEPT ![c] = X(n)] EXCEPT ![c] = x] = [d.ctx EXCEPT ![c] = x]
      BY <1>2
    <3> QED BY <1>2, <1>10, <1>11, <3>1 DEF OnlyContexts
  <2>2. SameMessages(r.ctx[c].msgs, x.msgs) /\ CountGoesOn(r.ctx[c], x)
    BY <1>12, <1>13, <2>1, CountEmpty DEF SameMessages, CountGoesOn
  <2> QED BY <1>8, <1>13, <2>1, <2>2, ExactContext DEF r
<1> QED
  BY <1>9, <1>11, <1>14 DEF e, x

-----------------------------------------------------------------------------
\* A context without a connection, a will and messages.
LEMMA NewContextTypes == NewContext \in Context /\ NewContext.msgs = <<>> /\ NewContext.n12 = 0
<1>1. <<>> \in Seq(Msg)
  OBVIOUS
<1>2. \A s \in Seq(Msg) : \A w \in {<<>>} \cup {<<m>> : m \in Content} :
        [known |-> FALSE, sock |-> FALSE, clean |-> TRUE, will |-> w, msgs |-> s, n12 |-> 0, mid |-> 0] \in Context
  BY DEF Context
<1>3. [known |-> FALSE, sock |-> FALSE, clean |-> TRUE, will |-> <<>>, msgs |-> <<>>, n12 |-> 0, mid |-> 0]
        \in Context
  BY <1>1, <1>2
<1> QED
  BY <1>3 DEF NewContext

\* A context takes the place of one without messages.
LEMMA ExactFresh ==
  ASSUME NEW d, NEW held, Exact(d, held), NEW c \in Clients, d.ctx[c].msgs = <<>>,
         NEW x \in Context, x.msgs = <<>>, x.n12 = 0
  PROVE  LET e == [d EXCEPT !.ctx[c] = x]
         IN  Exact(e, held) /\ e.ctx = [d.ctx EXCEPT ![c] = x] /\ e.ctx[c] = x /\ e.subs = d.subs
<1> DEFINE e == [d EXCEPT !.ctx[c] = x]
<1>1. e = [store |-> d.store, last |-> d.last, kept |-> d.kept, subs |-> d.subs,
           ctx |-> [d.ctx EXCEPT ![c] = x], out |-> d.out]
  <2>1. d = [store |-> d.store, last |-> d.last, kept |-> d.kept, subs |-> d.subs, ctx |-> d.ctx, out |-> d.out]
    BY DEF Exact, Types
  <2> QED BY ONLY <2>1, SMT
<1> HIDE DEF e
<1>2. OnlyContexts(d, e) /\ e.ctx = [d.ctx EXCEPT ![c] = x] /\ e.subs = d.subs
  BY <1>1 DEF OnlyContexts
<1>3. SameMessages(d.ctx[c].msgs, x.msgs) /\ CountGoesOn(d.ctx[c], x)
  <2>1. DOMAIN <<>> = {}
    OBVIOUS
  <2> QED BY <2>1, CountEmpty DEF SameMessages, CountGoesOn
<1>4. d.ctx \in [Clients -> Context]
  BY DEF Exact, Types
<1> QED
  BY <1>2, <1>3, <1>4, ExactContext DEF e

\* A session ends.
LEMMA ExactContextCleanup ==
  ASSUME NEW d, NEW held, Exact(d, held), NEW c \in Clients
  PROVE  LET e == ContextCleanup(d, c)
         IN  /\ Exact(e, held) /\ e.ctx = [d.ctx EXCEPT ![c] = NewContext] /\ e.ctx[c] = NewContext
             /\ e.subs \subseteq d.subs
<1> DEFINE s == SubsCleanSession(d, c)
           q == MessagesDelete(s, c)
           e == ContextCleanup(d, c)
           x == [d.ctx[c] EXCEPT !.msgs = <<>>, !.n12 = 0]
<1>1. Exact(s, held) /\ s.ctx = d.ctx /\ s.subs \subseteq d.subs
  <2>1. {leaf \in d.subs : leaf.client # c} \subseteq Leaf
    BY DEF Exact, Types
  <2> DEFINE subs == {leaf \in d.subs : leaf.client # c}
  <2>2. s = [d EXCEPT !.subs = subs]
    BY DEF SubsCleanSession
  <2> HIDE DEF subs, s
  <2>3. Exact(s, held)
    BY <2>1, <2>2, ExactSubs DEF subs
  <2>4. s.ctx = d.ctx /\ s.subs = subs
    BY <2>2 DEF Exact, Types
  <2>5. subs \subseteq d.subs
    BY DEF subs
  <2> QED BY <2>3, <2>4, <2>5
<1> HIDE DEF s
<1>2. Exact(q, held) /\ q.ctx = [s.ctx EXCEPT ![c] = [@ EXCEPT !.msgs = <<>>, !.n12 = 0]] /\ q.subs = s.subs
  BY <1>1, ExactMessagesDelete
<1> HIDE DEF q
<1>3. d.ctx \in [Clients -> Context]
  BY DEF Exact, Types
<1>4. q.ctx = [d.ctx EXCEPT ![c] = x] /\ q.ctx[c] = x /\ x.msgs = <<>>
  <2>1. d.ctx[c] \in Context
    BY <1>3
  <2>2. x.msgs = <<>>
    BY <2>1 DEF Context
  <2>3. q.ctx = [d.ctx EXCEPT ![c] = x]
    BY <1>1, <1>2
  <2> HIDE DEF x
  <2> QED BY <1>3, <2>2, <2>3
<1> HIDE DEF x
<1>5. e = [q EXCEPT !.ctx[c] = NewContext]
  BY DEF ContextCleanup, q, s
<1>6. Exact(e, held) /\ e.ctx = [q.ctx EXCEPT ![c] = NewContext] /\ e.ctx[c] = NewContext /\ e.subs = q.subs
  <2> HIDE DEF e
  <2>1. q.ctx[c].msgs = <<>>
    BY <1>4
  <2> DEFINE f == [q EXCEPT !.ctx[c] = NewContext]
  <2>2. Exact(f, held) /\ f.ctx = [q.ctx EXCEPT ![c] = NewContext] /\ f.ctx[c] = NewContext /\ f.subs = q.subs
    <3>1. Exact(q, held)
      BY <1>2
    <3> QED BY ONLY <2>1, <3>1, c \in Clients, NewContextTypes, ExactFresh, SMT DEF f
  <2>3. e = f
    BY <1>5
  <2> HIDE DEF f
  <2> QED BY <2>2, <2>3
<1> HIDE DEF e
<1>7. [q.ctx EXCEPT ![c] = NewContext] = [d.ctx EXCEPT ![c] = NewContext]
  BY <1>3, <1>4
<1> QED
  BY <1>1, <1>2, <1>6, <1>7 DEF e

\* A will is passed on once.
LEMMA ExactContextSendWill ==
  ASSUME NEW d, NEW held, Exact(d, held), NEW c \in Clients
  PROVE  LET e == ContextSendWill(d, c)
         IN  /\ Exact(e, held) /\ KeepsAll(d, e)
             /\ \A b \in Clients \ {c} : e.ctx[b].will = d.ctx[b].will
<1> DEFINE will == d.ctx[c].will
           sent == IF will = <<>> THEN d ELSE EasyQueue(d, c, Head(will))
           x == [sent.ctx[c] EXCEPT !.will = <<>>]
           e == ContextSendWill(d, c)
<1>1. e = [sent EXCEPT !.ctx[c].will = <<>>]
  BY DEF ContextSendWill
<1>2. Exact(sent, held) /\ KeepsAll(d, sent) /\ \A b \in Clients : sent.ctx[b].will = d.ctx[b].will
  <2>1. CASE will = <<>>
    BY <2>1, KeepsAllSame
  <2>2. CASE will # <<>>
    <3>1. \E m \in Content : will = <<m>>
      <4>1. d.ctx[c] \in Context
        BY DEF Exact, Types
      <4> QED BY <2>2, <4>1 DEF Context
    <3>2. Head(will) \in Content
      BY <3>1
    <3> HIDE DEF will
    <3> QED BY <2>2, <3>2, ExactEasyQueue
  <2> QED BY <2>1, <2>2
<1> HIDE DEF sent
<1>3. sent.ctx \in [Clients -> Context] /\ sent.ctx[c] \in Context
  BY <1>2 DEF Exact, Types
<1>4. e = [store |-> sent.store, last |-> sent.last, kept |-> sent.kept, subs |-> sent.subs,
           ctx |-> [sent.ctx EXCEPT ![c] = x], out |-> sent.out]
  BY <1>1, <1>2 DEF Exact, Types
<1>5. /\ x \in Context /\ x.msgs = sent.ctx[c].msgs /\ x.sock = sent.ctx[c].sock /\ x.n12 = sent.ctx[c].n12
      /\ SameConnection(sent.ctx[c], x)
  <2> DEFINE With(w) == [sent.ctx[c] EXCEPT !.will = w]
  <2>1. \A w \in {<<>>} \cup {<<m>> : m \in Content} :
          /\ With(w) \in Context /\ With(w).msgs = sent.ctx[c].msgs /\ With(w).sock = sent.ctx[c].sock
          /\ With(w).n12 = sent.ctx[c].n12 /\ SameConnection(sent.ctx[c], With(w))
    BY <1>3 DEF Context, SameConnection
  <2>2. x = With(<<>>)
    OBVIOUS
  <2> HIDE DEF x, With
  <2> QED BY <2>1, <2>2
<1> HIDE DEF x, e
<1>6. OnlyContexts(sent, e) /\ e.ctx = [sent.ctx EXCEPT ![c] = x]
  BY <1>4 DEF OnlyContexts
<1>7. SameMessages(sent.ctx[c].msgs, x.msgs) /\ CountGoesOn(sent.ctx[c], x)
  BY <1>5 DEF SameMessages, CountGoesOn
<1>8. Exact(e, held)
  BY <1>2, <1>5, <1>6, <1>7, ExactContext
<1>9. KeepsAll(sent, e)
  BY <1>3, <1>5, <1>6, <1>7, KeepsAllOne
<1>10. \A b \in Clients \ {c} : e.ctx[b].will = d.ctx[b].will
  BY <1>2, <1>3, <1>6
<1> QED
  BY <1>2, <1>8, <1>9, <1>10, KeepsAllOn DEF e

\* A connection ends.
LEMMA ExactDoDisconnect ==
  ASSUME NEW d, NEW held, Exact(d, held), NEW c \in Clients
  PROVE  LET e == DoDisconnect(d, c)
         IN  /\ Exact(e, held) /\ KeepsOthers(d, e, c)
             /\ e.ctx[c].sock = FALSE
             /\ d.ctx[c].clean \/ Keeps(d.ctx[c].msgs, e.ctx[c].msgs)
<1> DEFINE sent == ContextSendWill(d, c)
           x == [sent.ctx[c] EXCEPT !.sock = FALSE]
           closed == [sent EXCEPT !.ctx[c].sock = FALSE]
<1>1. Exact(sent, held) /\ KeepsAll(d, sent)
  BY ExactContextSendWill
<1>2. DoDisconnect(d, c) = IF d.ctx[c].clean THEN ContextCleanup(closed, c) ELSE closed
  BY DEF DoDisconnect
<1> HIDE DEF sent
<1>3. sent.ctx \in [Clients -> Context] /\ sent.ctx[c] \in Context
  BY <1>1 DEF Exact, Types
<1>4. closed = [store |-> sent.store, last |-> sent.last, kept |-> sent.kept, subs |-> sent.subs,
                ctx |-> [sent.ctx EXCEPT ![c] = x], out |-> sent.out]
  <2>1. sent = [store |-> sent.store, last |-> sent.last, kept |-> sent.kept, subs |-> sent.subs,
                ctx |-> sent.ctx, out |-> sent.out]
    BY <1>1 DEF Exact, Types
  <2>2. \A b : [sent EXCEPT !.ctx[c].sock = b]
                 = [store |-> sent.store, last |-> sent.last, kept |-> sent.kept, subs |-> sent.subs,
                    ctx |-> [sent.ctx EXCEPT ![c] = [sent.ctx[c] EXCEPT !.sock = b]], out |-> sent.out]
    BY <2>1
  <2> QED BY <2>2
<1>5. x \in Context /\ x.msgs = sent.ctx[c].msgs /\ x.sock = FALSE
  BY <1>3 DEF Context
<1> HIDE DEF x, closed
<1>6. OnlyContexts(sent, closed) /\ closed.ctx = [sent.ctx EXCEPT ![c] = x]
  BY <1>4 DEF OnlyContexts
<1>7. SameMessages(sent.ctx[c].msgs, x.msgs) /\ CountGoesOn(sent.ctx[c], x)
  BY <1>5 DEF SameMessages, CountGoesOn
<1>8. Exact(closed, held)
  BY <1>1, <1>5, <1>6, <1>7, ExactContext
<1>9. /\ closed.ctx[c] = x /\ \A b \in Clients \ {c} : closed.ctx[b] = sent.ctx[b]
  BY <1>3, <1>6
<1>10. KeepsOthers(d, closed, c)
  BY <1>1, <1>9, KeepsOthersOn
<1>11. closed.ctx[c].sock = FALSE /\ Keeps(d.ctx[c].msgs, closed.ctx[c].msgs)
  BY <1>1, <1>5, <1>9 DEF KeepsAll
<1> DEFINE gone == ContextCleanup(closed, c)
<1>12. Exact(gone, held) /\ gone.ctx = [closed.ctx EXCEPT ![c] = NewContext] /\ gone.ctx[c] = NewContext
  BY <1>8, ExactContextCleanup
<1> HIDE DEF gone
<1>13. \A b \in Clients \ {c} : gone.ctx[b] = sent.ctx[b]
  BY <1>3, <1>6, <1>12
<1>14. KeepsOthers(d, gone, c)
  BY <1>1, <1>13, KeepsOthersOn
<1>15. gone.ctx[c].sock = FALSE
  BY <1>12 DEF NewContext
<1> QED
  BY <1>2, <1>8, <1>10, <1>11, <1>12, <1>14, <1>15 DEF gone

\* A DISCONNECT drops the will first.
LEMMA ExactHandleDisconnect ==
  ASSUME NEW d, NEW held, Exact(d, held), NEW c \in Clients
  PROVE  LET e == HandleDisconnect(d, c)
         IN  /\ Exact(e, held) /\ KeepsOthers(d, e, c)
             /\ e.ctx[c].sock = FALSE
             /\ d.ctx[c].clean \/ Keeps(d.ctx[c].msgs, e.ctx[c].msgs)
<1> DEFINE e == [d EXCEPT !.ctx[c].will = <<>>]
           With(w) == [d.ctx[c] EXCEPT !.will = w]
           x == With(<<>>)
<1>1. d.ctx \in [Clients -> Context] /\ d.ctx[c] \in Context
  BY DEF Exact, Types
<1>2. e = [store |-> d.store, last |-> d.last, kept |-> d.kept, subs |-> d.subs,
           ctx |-> [d.ctx EXCEPT ![c] = x], out |-> d.out]
  <2>1. d = [store |-> d.store, last |-> d.last, kept |-> d.kept, subs |-> d.subs, ctx |-> d.ctx, out |-> d.out]
    BY DEF Exact, Types
  <2> QED BY ONLY <2>1, SMT DEF e, x, With
<1>3. \A w \in {<<>>} \cup {<<m>> : m \in Content} :
          /\ With(w) \in Context /\ With(w).msgs = d.ctx[c].msgs /\ With(w).sock = d.ctx[c].sock
          /\ With(w).n12 = d.ctx[c].n12 /\ With(w).clean = d.ctx[c].clean
  BY <1>1 DEF Context
<1> HIDE DEF With, e
<1>4. SameMessages(d.ctx[c].msgs, x.msgs) /\ CountGoesOn(d.ctx[c], x) /\ x \in Context
  BY <1>3 DEF SameMessages, CountGoesOn
<1>5. OnlyContexts(d, e) /\ e.ctx = [d.ctx EXCEPT ![c] = x]
  BY <1>2 DEF OnlyContexts
<1>6. Exact(e, held)
  BY <1>4, <1>5, ExactContext
<1> DEFINE f == DoDisconnect(e, c)
<1>7. /\ Exact(f, held) /\ KeepsOthers(e, f, c)
      /\ f.ctx[c].sock = FALSE
      /\ e.ctx[c].clean \/ Keeps(e.ctx[c].msgs, f.ctx[c].msgs)
  BY <1>6, ExactDoDisconnect
<1> HIDE DEF f
<1>8. e.ctx[c] = x /\ \A b \in Clients \ {c} : e.ctx[b] = d.ctx[b]
  BY <1>1, <1>5
<1>9. KeepsOthers(d, f, c)
  BY <1>7, <1>8 DEF KeepsOthers
<1>10. d.ctx[c].clean \/ Keeps(d.ctx[c].msgs, f.ctx[c].msgs)
  BY <1>3, <1>7, <1>8
<1> QED
  BY <1>7, <1>9, <1>10 DEF HandleDisconnect, e, f

\* A session that goes on has the same messages, in other states.
LEMMA ResetSame ==
  ASSUME NEW msgs \in Seq(Msg)
  PROVE  ReconnectReset(msgs) \in Seq(Msg) /\ SameMessages(msgs, ReconnectReset(msgs))
<1> DEFINE Again(m) ==
             IF m.dir = "in" \/ m.state = "queued" THEN m
             ELSE IF m.state = "wait_for_pubcomp" THEN [m EXCEPT !.state = "resend_pubrel"]
             ELSE [m EXCEPT !.state = PublishState[m.qos]]
           Same(n, m) == n \in Msg /\ n.id = m.id /\ n.dir = m.dir /\ n.mid = m.mid /\ n.qos = m.qos
                         /\ n.retain = m.retain
           new == ReconnectReset(msgs)
<1>1. new = [k \in DOMAIN msgs |->
               IF msgs[k].state = "queued" /\ (MaxInflight = 0 \/ k <= MaxInflight)
               THEN [msgs[k] EXCEPT !.state = PublishState[msgs[k].qos]] ELSE Again(msgs[k])]
  BY DEF ReconnectReset
<1>2. \A m \in Msg : Same(Again(m), m) /\ Same([m EXCEPT !.state = PublishState[m.qos]], m)
  <2> TAKE m \in Msg
  <2>1. PublishState[m.qos] \in States /\ (m.qos > 0 => PublishState[m.qos] \in Staying)
    <3>1. m.qos \in 0 .. 2
      BY DEF Msg
    <3> QED BY <3>1, PublishStates
  <2>2. "resend_pubrel" \in States /\ "resend_pubrel" \in Staying
    BY DEF States, Staying
  <2>3. \A s \in States : (m.qos > 0 => s \in Staying) => Same([m EXCEPT !.state = s], m)
    BY DEF Msg
  <2>4. Same(m, m)
    OBVIOUS
  <2> HIDE DEF Same
  <2> QED BY <2>1, <2>2, <2>3, <2>4
<1> HIDE DEF Again, new
<1>3. \A k \in DOMAIN msgs : Same(new[k], msgs[k])
  <2> TAKE k \in DOMAIN msgs
  <2>1. msgs[k] \in Msg
    OBVIOUS
  <2> HIDE DEF Same
  <2> QED BY <1>1, <1>2, <2>1
<1>4. DOMAIN new = DOMAIN msgs /\ new = [k \in DOMAIN msgs |-> new[k]]
  BY <1>1
<1>5. new \in Seq(Msg)
  BY <1>3, <1>4, SameIsQueue
<1> QED
  BY <1>3, <1>4, <1>5 DEF SameMessages, new

\* A CONNECT: a session goes on, or a new one begins.
LEMMA ExactHandleConnect ==
  ASSUME NEW d, NEW held, Exact(d, held), NEW c \in Clients, NEW clean \in BOOLEAN,
         NEW will \in {<<>>} \cup {<<m>> : m \in Content}
  PROVE  LET e == HandleConnect(d, c, clean, will)
         IN  /\ Exact(e, held) /\ KeepsOthers(d, e, c)
             /\ e.ctx[c].clean = clean
             /\ d.ctx[c].clean \/ clean \/ Keeps(d.ctx[c].msgs, e.ctx[c].msgs)
<1> DEFINE found == d.ctx[c]
           fresh == [NewContext EXCEPT !.known = TRUE, !.sock = TRUE, !.clean = clean, !.will = will]
           old == IF GoesOn(found, clean) THEN d ELSE ContextCleanup(d, c)
           x == IF GoesOn(found, clean) THEN TakeOver(found, fresh) ELSE fresh
           new == [old EXCEPT !.ctx[c] = x]
<1>1. d.ctx \in [Clients -> Context] /\ found \in Context /\ found.msgs \in Seq(Msg) /\ found.mid \in Nat
  BY DEF Exact, Types, Context
<1>2. fresh \in Context /\ fresh.msgs = <<>> /\ fresh.n12 = 0 /\ fresh.clean = clean
  <2> DEFINE With(y, b) == [y EXCEPT !.known = b, !.sock = b, !.clean = clean, !.will = will]
  <2>1. \A y \in Context : \A b \in {TRUE} :
          /\ With(y, b) \in Context /\ With(y, b).msgs = y.msgs /\ With(y, b).n12 = y.n12
          /\ With(y, b).clean = clean
    BY DEF Context
  <2>2. fresh = With(NewContext, TRUE)
    OBVIOUS
  <2> HIDE DEF With, fresh
  <2> QED BY <2>1, <2>2, NewContextTypes
<1> HIDE DEF fresh
<1>3. /\ Exact(new, held) /\ new.ctx[c].clean = clean
      /\ \A b \in Clients \ {c} : new.ctx[b] = d.ctx[b]
      /\ found.clean \/ clean \/ Keeps(found.msgs, new.ctx[c].msgs)
  <2>1. CASE GoesOn(found, clean)
    <3> DEFINE msgs == ReconnectReset(found.msgs)
               y == [fresh EXCEPT !.msgs = msgs, !.mid = found.mid, !.n12 = Count12(msgs)]
               e == [d EXCEPT !.ctx[c] = y]
    <3>1. msgs \in Seq(Msg) /\ SameMessages(found.msgs, msgs)
      BY <1>1, ResetSame
    <3>2. Count12(msgs) \in Nat
      BY <3>1, CountFinite
    <3> HIDE DEF msgs
    <3>3. y \in Context /\ y.msgs = msgs /\ y.n12 = Count12(msgs) /\ y.clean = clean
      <4> DEFINE With(k) == [fresh EXCEPT !.msgs = msgs, !.mid = found.mid, !.n12 = k]
      <4>1. \A k \in Int : /\ With(k) \in Context /\ With(k).msgs = msgs /\ With(k).n12 = k
                           /\ With(k).clean = clean
        BY <1>1, <1>2, <3>1 DEF Context
      <4>2. y = With(Count12(msgs)) /\ Count12(msgs) \in Int
        BY <3>2
      <4> HIDE DEF y, With
      <4> QED BY <4>1, <4>2
    <3>4. new = e
      BY <2>1 DEF TakeOver, msgs
    <3> HIDE DEF y, new
    <3>5. e = [store |-> d.store, last |-> d.last, kept |-> d.kept, subs |-> d.subs,
               ctx |-> [d.ctx EXCEPT ![c] = y], out |-> d.out]
      BY DEF Exact, Types
    <3> HIDE DEF e
    <3>6. OnlyContexts(d, e) /\ e.ctx = [d.ctx EXCEPT ![c] = y]
      BY <3>5 DEF OnlyContexts
    <3>7. SameMessages(found.msgs, y.msgs) /\ CountGoesOn(found, y)
      BY <3>1, <3>3 DEF CountGoesOn
    <3>8. Exact(e, held)
      <4> HIDE DEF found
      <4> QED BY <3>3, <3>6, <3>7, ExactContext DEF found
    <3>9. e.ctx[c] = y /\ \A b \in Clients \ {c} : e.ctx[b] = d.ctx[b]
      BY <1>1, <3>6
    <3>10. Keeps(found.msgs, y.msgs)
      BY <3>1, <3>3, SameKeeps
    <3> QED BY <3>3, <3>4, <3>8, <3>9, <3>10
  <2>2. CASE ~GoesOn(found, clean)
    <3> DEFINE q == ContextCleanup(d, c)
    <3>1. Exact(q, held) /\ q.ctx[c] = NewContext /\ q.ctx = [d.ctx EXCEPT ![c] = NewContext]
      BY ExactContextCleanup
    <3>2. new = [q EXCEPT !.ctx[c] = fresh]
      BY <2>2
    <3> HIDE DEF q, new
    <3>3. q.ctx[c].msgs = <<>>
      BY <3>1, NewContextTypes
    <3> DEFINE e == [q EXCEPT !.ctx[c] = fresh]
    <3>7. Exact(q, held) /\ fresh \in Context /\ fresh.msgs = <<>> /\ fresh.n12 = 0
      BY <1>2, <3>1
    <3>4. Exact(e, held) /\ e.ctx = [q.ctx EXCEPT ![c] = fresh] /\ e.ctx[c] = fresh
      BY ONLY <3>3, <3>7, c \in Clients, ExactFresh, SMT
    <3> HIDE DEF e
    <3>5. \A b \in Clients \ {c} : e.ctx[b] = d.ctx[b]
      BY <1>1, <3>1, <3>4
    <3>6. found.clean \/ clean
      <4>1. found.known \/ found.clean
        BY <1>1 DEF Context
      <4> QED BY <2>2, <4>1 DEF GoesOn
    <3> QED BY <1>2, <3>2, <3>4, <3>5, <3>6 DEF e
  <2> QED BY <2>1, <2>2
<1> DEFINE packet == [type |-> "connack", present |-> found.known /\ ~clean /\ c \notin V31]
<1>4. HandleConnect(d, c, clean, will) = Send(new, c, packet)
  BY DEF HandleConnect, fresh
<1> HIDE DEF new, packet
<1> DEFINE e == Send(new, c, packet)
<1>5. Exact(e, held) /\ e.ctx = new.ctx
  BY <1>3, ExactSend
<1> HIDE DEF e
<1>6. KeepsAll(d, d)
  BY KeepsAllSame
<1>7. KeepsOthers(d, e, c)
  BY <1>3, <1>5, <1>6, KeepsOthersOn
<1> QED
  BY <1>3, <1>4, <1>5, <1>7 DEF e

-----------------------------------------------------------------------------
\* mqtt3_db_message_store_find: what is found is there, and an incoming message is found.
LEMMA FoundIsThere ==
  ASSUME NEW d, NEW held, Exact(d, held), NEW c \in Clients, NEW mid
  PROVE  /\ MessageStoreFind(d, c, mid) # 0 => MessageStoreFind(d, c, mid) \in DOMAIN d.store
         /\ (\E k \in DOMAIN d.ctx[c].msgs : d.ctx[c].msgs[k].dir = "in" /\ d.ctx[c].msgs[k].mid = mid)
              <=> MessageStoreFind(d, c, mid) # 0
<1> DEFINE msgs == d.ctx[c].msgs
           found == {k \in DOMAIN msgs : msgs[k].dir = "in" /\ d.store[msgs[k].id].smid = mid}
<1>1. MessageStoreFind(d, c, mid) = IF found = {} THEN 0 ELSE msgs[Min(found)].id
  BY DEF MessageStoreFind
<1>2. d.ctx \in [Clients -> Context]
  BY DEF Exact, Types
<1>3. msgs \in Seq(Msg)
  BY <1>2 DEF Context
<1>4. found # {} => Min(found) \in DOMAIN msgs
  <2>1. found \subseteq Nat /\ found \subseteq DOMAIN msgs
    BY <1>3
  <2> HIDE DEF found
  <2> QED BY <2>1, MinIsThere
<1>5. \A k \in DOMAIN msgs : msgs[k].id \in DOMAIN d.store /\ msgs[k].id # 0
  <2>1. \A k \in DOMAIN msgs : msgs[k].id \in DOMAIN d.store
    BY DEF Exact, NothingDangles
  <2>2. 0 \notin DOMAIN d.store
    BY DEF Exact, Types
  <2> QED BY <2>1, <2>2
<1>6. \A k \in DOMAIN msgs : msgs[k].dir = "in" => d.store[msgs[k].id].smid = msgs[k].mid
  BY DEF Exact, IncomingIsStored, AsPublished
<1> QED
  BY <1>1, <1>4, <1>5, <1>6

\* A PUBLISH with an identifier that is not in use.
LEMMA ExactHandlePublish ==
  ASSUME NEW d, NEW held, Exact(d, held), NEW c \in Clients, NEW mid \in Nat, NEW m \in Content,
         \A k \in DOMAIN d.ctx[c].msgs : d.ctx[c].msgs[k].dir = "in" => d.ctx[c].msgs[k].mid # mid
  PROVE  LET e == HandlePublish(d, c, mid, m)
         IN  Exact(e, held) /\ KeepsAll(d, e)
<1> DEFINE known == IF m.qos = 0 THEN 0 ELSE MessageStoreFind(d, c, mid)
           stored == IF known = 0 THEN MessageStore(d, c, mid, m) ELSE d
           id == IF known = 0 THEN stored.last ELSE known
           queued == MessagesQueue(stored, id, m.qos, m.retain, d.subs)
           inserted == Insert(stored, c, mid, "in", 2, m.retain, id)
           e == HandlePublish(d, c, mid, m)
<1>1. known = 0
  <2>1. MessageStoreFind(d, c, mid) = 0
    BY FoundIsThere
  <2> QED BY <2>1
<1>2. m.qos \in {0, 1, 2} /\ m.qos \in 0 .. 2 /\ m.retain \in BOOLEAN /\ d.subs \subseteq Leaf
  BY DEF Content, Exact, Types
<1>3. \/ m.qos = 0 /\ e = queued
      \/ m.qos = 1 /\ e = Send(queued, c, Packet("puback", mid))
      \/ m.qos = 2 /\ known = 0 /\ e = inserted.db
      \/ m.qos = 2 /\ known = 0 /\ e = Send(inserted.db, c, Packet("pubrec", mid))
      \/ m.qos = 2 /\ known # 0 /\ e = Send(d, c, Packet("pubrec", mid))
  <2> DEFINE a == queued
             b == Send(queued, c, Packet("puback", mid))
             f == inserted.db
             g == Send(inserted.db, c, Packet("pubrec", mid))
             h == Send(d, c, Packet("pubrec", mid))
             rc == inserted.rc
             k == known
  <2>1. e = CASE m.qos = 0 -> a
              [] m.qos = 1 -> b
              [] m.qos = 2 /\ k = 0 /\ rc # 0 -> f
              [] m.qos = 2 /\ k = 0 -> g
              [] OTHER -> h
    BY DEF HandlePublish
  <2> HIDE DEF a, b, f, g, h, rc, k, e
  <2>2. \/ m.qos = 0 /\ e = a
        \/ m.qos = 1 /\ e = b
        \/ m.qos = 2 /\ k = 0 /\ (e = f \/ e = g)
        \/ m.qos = 2 /\ k # 0 /\ e = h
    <3>1. CASE m.qos = 0
      BY <2>1, <3>1
    <3>2. CASE m.qos = 1
      BY <2>1, <3>2
    <3>3. CASE m.qos = 2 /\ k = 0
      BY <2>1, <3>3
    <3>4. CASE m.qos = 2 /\ k # 0
      BY <2>1, <3>4
    <3> QED BY <1>2, <3>1, <3>2, <3>3, <3>4
  <2> QED BY <2>2 DEF a, b, f, g, h, k
<1> HIDE DEF known
<1>4. /\ Exact(stored, held) /\ id \in DOMAIN stored.store /\ stored.ctx = d.ctx
      /\ stored.store[id].smid = mid /\ stored.store[id].m = m
  <2> DEFINE s == MessageStore(d, c, mid, m)
  <2>1. /\ Exact(s, held) /\ s.last \in DOMAIN s.store /\ s.store[s.last].smid = mid
        /\ s.ctx = d.ctx /\ s.store[s.last].m = m
    BY ExactStored
  <2>2. stored = s /\ id = s.last
    BY <1>1
  <2> HIDE DEF s, stored, id
  <2> QED BY <2>1, <2>2
<1> HIDE DEF stored, id
<1>5. Exact(queued, held) /\ Passed(stored, queued, id, m.retain)
  BY <1>2, <1>4, ExactMessagesQueue
<1>6. Exact(inserted.db, held) /\ Grows(stored, inserted.db)
  <2>1. 2 \in 0 .. 2 /\ "in" \in {"in", "out"}
    OBVIOUS
  <2> QED BY <1>2, <1>4, <2>1, ExactInsert
<1> HIDE DEF queued, inserted, e
<1> DEFINE f == Send(queued, c, Packet("puback", mid))
           g == Send(inserted.db, c, Packet("pubrec", mid))
<1>7. /\ Exact(f, held) /\ f.ctx = queued.ctx
      /\ Exact(g, held) /\ g.ctx = inserted.db.ctx
  BY <1>5, <1>6, ExactSend
<1> HIDE DEF f, g
<1>8. KeepsAll(d, stored)
  BY <1>4, KeepsAllSame
<1>9. KeepsAll(d, queued) /\ KeepsAll(d, f)
  <2>1. KeepsAll(stored, queued)
    BY <1>5, LongerKeeps DEF Passed
  <2>2. KeepsAll(d, queued)
    BY <1>8, <2>1, KeepsAllOn
  <2>3. KeepsAll(queued, f)
    BY <1>7, KeepsAllSame
  <2> QED BY <2>2, <2>3, KeepsAllOn
<1>10. KeepsAll(d, inserted.db) /\ KeepsAll(d, g)
  <2> DEFINE i == inserted.db
  <2>1. Grows(stored, i) /\ g.ctx = i.ctx
    BY <1>6, <1>7
  <2> HIDE DEF i
  <2>2. KeepsAll(stored, i)
    BY <2>1, LongerKeeps DEF Grows
  <2>3. KeepsAll(d, i)
    BY <1>8, <2>2, KeepsAllOn
  <2>4. KeepsAll(i, g)
    BY <2>1, KeepsAllSame
  <2>5. KeepsAll(d, g)
    BY <2>3, <2>4, KeepsAllOn
  <2> QED BY <2>3, <2>5 DEF i
<1> QED
  BY <1>1, <1>3, <1>5, <1>6, <1>7, <1>8, <1>9, <1>10 DEF e, f, g

\* A PUBLISH of a message that the broker has already is only answered.
LEMMA ExactPublishAgain ==
  ASSUME NEW d, NEW held, Exact(d, held), NEW c \in Clients, NEW k \in DOMAIN d.ctx[c].msgs,
         d.ctx[c].msgs[k].dir = "in"
  PROVE  LET e == HandlePublish(d, c, d.ctx[c].msgs[k].mid, [qos |-> 2, retain |-> FALSE])
         IN  Exact(e, held) /\ KeepsAll(d, e)
<1> DEFINE mid == d.ctx[c].msgs[k].mid
           m == [qos |-> 2, retain |-> FALSE]
           packet == Packet("pubrec", mid)
<1>1. MessageStoreFind(d, c, mid) # 0
  BY FoundIsThere
<1>2. m.qos = 2
  OBVIOUS
<1> HIDE DEF m, mid
<1>3. HandlePublish(d, c, mid, m) = Send(d, c, packet)
  BY <1>1, <1>2 DEF HandlePublish
<1> HIDE DEF packet
<1> DEFINE e == Send(d, c, packet)
<1>4. Exact(e, held) /\ e.ctx = d.ctx
  BY ExactSend
<1> HIDE DEF e
<1>5. KeepsAll(d, e)
  BY <1>4, KeepsAllSame
<1> QED
  BY <1>3, <1>4, <1>5 DEF mid, m, e

\* A PUBREL, PUBACK, PUBCOMP or PUBREC.
LEMMA ExactAnswers ==
  ASSUME NEW d, NEW held, Exact(d, held), NEW c \in Clients, NEW mid
  PROVE  /\ Exact(HandlePubrel(d, c, mid), held)
         /\ KeepsAllBut(d, HandlePubrel(d, c, mid), c, mid, "in")
         /\ Exact(HandlePubackcomp(d, c, mid), held)
         /\ KeepsAllBut(d, HandlePubackcomp(d, c, mid), c, mid, "out")
         /\ Exact(HandlePubrec(d, c, mid), held)
         /\ KeepsAll(d, HandlePubrec(d, c, mid))
<1> DEFINE released == MessageRelease(d, c, mid)
           updated == MessageUpdate(d, c, mid, "wait_for_pubcomp")
           pubcomp == Packet("pubcomp", mid)
           pubrel == Packet("pubrel", mid)
           e == Send(released, c, pubcomp)
           f == Send(updated, c, pubrel)
<1>1. Exact(released, held) /\ KeepsAllBut(d, released, c, mid, "in")
  BY ExactMessageRelease
<1>2. Exact(updated, held) /\ KeepsAll(d, updated)
  <2>1. "wait_for_pubcomp" \in Staying
    BY DEF States, Staying
  <2> QED BY <2>1, ExactMessageUpdate
<1>3. HandlePubrel(d, c, mid) = e /\ HandlePubrec(d, c, mid) = f
  BY DEF HandlePubrel, HandlePubrec
<1> HIDE DEF released, updated, pubcomp, pubrel
<1>4. Exact(e, held) /\ e.ctx = released.ctx /\ Exact(f, held) /\ f.ctx = updated.ctx
  BY <1>1, <1>2, ExactSend
<1> HIDE DEF e, f
<1>5. KeepsAll(released, e) /\ KeepsAll(updated, f) /\ KeepsAll(d, d)
  BY <1>4, KeepsAllSame
<1>6. KeepsAllBut(d, e, c, mid, "in")
  BY <1>1, <1>5, KeepsAllButOn
<1>7. KeepsAll(d, f)
  BY <1>2, <1>5, KeepsAllOn
<1>8. Exact(HandlePubackcomp(d, c, mid), held) /\ KeepsAllBut(d, HandlePubackcomp(d, c, mid), c, mid, "out")
  BY ExactMessageDelete DEF HandlePubackcomp
<1> QED
  BY <1>3, <1>4, <1>6, <1>7, <1>8

\* A SUBSCRIBE: the leaf, and the message that its topic keeps.
LEMMA ExactHandleSubscribe ==
  ASSUME NEW d, NEW held, Exact(d, held), NEW c \in Clients, NEW mid, NEW topic \in Names,
         NEW qos \in 0 .. 2
  PROVE  LET e == HandleSubscribe(d, c, mid, topic, qos)
         IN  Exact(e, held) /\ KeepsAll(d, e)
<1> DEFINE subs == {leaf \in d.subs : leaf.client # c \/ leaf.topic # topic}
                     \cup {[client |-> c, topic |-> topic, qos |-> qos]}
           added == SubAdd(d, c, topic, qos)
           again == c \in V31 /\ \E leaf \in d.subs : leaf.client = c /\ leaf.topic = topic
           kept == IF again THEN 0 ELSE d.kept[topic]
           lower == Lower(d.store[kept].m.qos, qos)
           told == IF kept = 0 THEN added ELSE InsertOut(added, c, lower, TRUE, kept)
<1>1. Exact(added, held) /\ added.store = d.store /\ added.ctx = d.ctx
  <2>1. subs \subseteq Leaf
    BY DEF Exact, Types, Leaf
  <2>2. added = [d EXCEPT !.subs = subs]
    BY DEF SubAdd
  <2> HIDE DEF subs, added
  <2>3. Exact(added, held)
    BY <2>1, <2>2, ExactSubs
  <2>4. added.store = d.store /\ added.ctx = d.ctx
    BY <2>2 DEF Exact, Types
  <2> QED BY <2>3, <2>4
<1> HIDE DEF added
<1>2. kept # 0 => kept \in DOMAIN added.store /\ lower \in 0 .. 2
  <2> SUFFICES ASSUME kept # 0
               PROVE  kept \in DOMAIN d.store /\ lower \in 0 .. 2
    BY <1>1
  <2>1. kept \in DOMAIN d.store
    BY DEF Exact, NothingDangles
  <2>2. d.store[kept] \in Stored
    BY <2>1 DEF Exact, Types
  <2>3. d.store[kept].m.qos \in 0 .. 2
    BY <2>2 DEF Stored, Content
  <2> QED BY <2>1, <2>3 DEF Lower
<1> HIDE DEF lower, kept, again
<1>3. Exact(told, held) /\ KeepsAll(added, told)
  <2>1. CASE kept = 0
    BY <1>1, <2>1, KeepsAllSame
  <2>2. CASE kept # 0
    <3> DEFINE i == InsertOut(added, c, lower, TRUE, kept)
    <3>1. Exact(i, held) /\ Grows(added, i)
      BY <1>1, <1>2, <2>2, ExactInsertOut
    <3>2. told = i
      BY <2>2
    <3> HIDE DEF i, told
    <3>3. KeepsAll(added, i)
      BY <3>1, LongerKeeps DEF Grows
    <3> QED BY <3>1, <3>2, <3>3
  <2> QED BY <2>1, <2>2
<1> DEFINE packet == Packet("suback", mid)
           e == Send(told, c, packet)
<1>4. HandleSubscribe(d, c, mid, topic, qos) = e
  BY DEF HandleSubscribe, added, again, kept, lower
<1> HIDE DEF told, packet
<1>5. Exact(e, held) /\ e.ctx = told.ctx
  BY <1>3, ExactSend
<1> HIDE DEF e
<1>6. KeepsAll(d, added) /\ KeepsAll(told, e)
  BY <1>1, <1>5, KeepsAllSame
<1>7. KeepsAll(d, told)
  BY <1>3, <1>6, KeepsAllOn
<1>8. KeepsAll(d, e)
  BY <1>6, <1>7, KeepsAllOn
<1> QED
  BY <1>4, <1>5, <1>8

\* An UNSUBSCRIBE.
LEMMA ExactHandleUnsubscribe ==
  ASSUME NEW d, NEW held, Exact(d, held), NEW c \in Clients, NEW mid, NEW topic
  PROVE  LET e == HandleUnsubscribe(d, c, mid, topic)
         IN  Exact(e, held) /\ KeepsAll(d, e)
<1> DEFINE subs == {leaf \in d.subs : leaf.client # c \/ leaf.topic # topic}
           e == [d EXCEPT !.subs = subs]
<1>1. subs \subseteq Leaf
  BY DEF Exact, Types
<1>2. HandleUnsubscribe(d, c, mid, topic) = Send(e, c, Packet("unsuback", mid))
  BY DEF HandleUnsubscribe
<1> HIDE DEF subs
<1>3. Exact(e, held) /\ e.ctx = d.ctx
  BY <1>1, ExactSubs
<1> DEFINE packet == Packet("unsuback", mid)
           f == Send(e, c, packet)
<1> HIDE DEF e, packet
<1>4. Exact(f, held) /\ f.ctx = e.ctx
  BY <1>3, ExactSend
<1> HIDE DEF f
<1>5. KeepsAll(d, f)
  BY <1>3, <1>4, KeepsAllSame
<1> QED
  BY <1>2, <1>4, <1>5 DEF f, packet

\* One message of a queue gets another state.
LEMMA ExactMarked ==
  ASSUME NEW d, NEW held, Exact(d, held), NEW c \in Clients, NEW k \in DOMAIN d.ctx[c].msgs, NEW m \in Msg,
         m.id = d.ctx[c].msgs[k].id, m.dir = d.ctx[c].msgs[k].dir,
         m.mid = d.ctx[c].msgs[k].mid, m.qos = d.ctx[c].msgs[k].qos, m.retain = d.ctx[c].msgs[k].retain,
         NEW e,
         e = [store |-> d.store, last |-> d.last, kept |-> d.kept, subs |-> d.subs,
              ctx |-> [d.ctx EXCEPT ![c] = [d.ctx[c] EXCEPT !.msgs = [d.ctx[c].msgs EXCEPT ![k] = m]]],
              out |-> e.out]
  PROVE  Exact(e, held) /\ KeepsAll(d, e)
<1> DEFINE msgs == d.ctx[c].msgs
           new == [msgs EXCEPT ![k] = m]
           x == [d.ctx[c] EXCEPT !.msgs = new]
<1>1. d.ctx \in [Clients -> Context] /\ d.ctx[c] \in Context /\ msgs \in Seq(Msg)
  BY DEF Exact, Types, Context
<1>2. new \in Seq(Msg) /\ DOMAIN new = DOMAIN msgs /\ new[k] = m /\ \A j \in DOMAIN msgs \ {k} : new[j] = msgs[j]
  BY <1>1
<1>3. e.ctx = [d.ctx EXCEPT ![c] = x] /\ OnlyContexts(d, e)
  BY DEF OnlyContexts
<1> HIDE DEF new
<1>4. /\ x \in Context /\ x.msgs = new /\ x.sock = d.ctx[c].sock /\ x.n12 = d.ctx[c].n12
      /\ SameConnection(d.ctx[c], x)
  BY <1>1, <1>2 DEF Context, SameConnection
<1> HIDE DEF x
<1>5. SameMessages(msgs, x.msgs) /\ CountGoesOn(d.ctx[c], x)
  BY <1>2, <1>4 DEF SameMessages, CountGoesOn
<1>6. Exact(e, held)
  BY <1>3, <1>4, <1>5, ExactContext
<1>7. KeepsAll(d, e)
  BY <1>1, <1>3, <1>4, <1>5, KeepsAllOne
<1> QED
  BY <1>6, <1>7

\* A round of mqtt3_db_message_write
WriteStep(p, w, i) == IF w.at > Len(w.db.ctx[p.c].msgs) THEN w ELSE WriteOne(w, p.c)
WriteInv(p, i, w) == Exact(w.db, p.held) /\ KeepsAll(p.start, w.db) /\ w.at \in Nat \ {0} /\ w.count \in Nat
OfWrite == INSTANCE Passes WITH Step <- WriteStep, Inv <- WriteInv

\* One message of the queue is written, or passed over.
LEMMA ExactWriteOne ==
  ASSUME NEW w, NEW held, NEW c \in Clients, Exact(w.db, held), w.at \in Nat \ {0}, w.count \in Nat,
         w.at <= Len(w.db.ctx[c].msgs)
  PROVE  /\ Exact(WriteOne(w, c).db, held) /\ KeepsAll(w.db, WriteOne(w, c).db)
         /\ WriteOne(w, c).at \in Nat \ {0} /\ WriteOne(w, c).count \in Nat
<1> DEFINE d == w.db
           msgs == d.ctx[c].msgs
           m == msgs[w.at]
           count == IF m.dir = "in" THEN w.count + 1 ELSE w.count
           On(packet, state, dup) ==
             [db |-> [Send(d, c, packet) EXCEPT !.ctx[c].msgs[w.at] = [m EXCEPT !.state = state, !.dup = dup]],
              at |-> w.at + 1, count |-> count]
           publish == [type |-> "publish", mid |-> m.mid, qos |-> m.qos, dup |-> m.dup,
                       retain |-> m.retain, body |-> d.store[m.id].m.body]
           removed == [db |-> MessageRemove(Send(d, c, publish), c, w.at), at |-> w.at, count |-> count]
           started == [db |-> [d EXCEPT !.ctx[c].msgs[w.at].state = "send_pubrec"], at |-> w.at, count |-> count]
           over == [db |-> d, at |-> w.at + 1, count |-> count]
           free == MaxInflight = 0 \/ count < MaxInflight
           Good(v) == Exact(v.db, held) /\ KeepsAll(d, v.db) /\ v.at \in Nat \ {0} /\ v.count \in Nat
<1>1. d.ctx \in [Clients -> Context] /\ d.ctx[c] \in Context /\ msgs \in Seq(Msg)
  BY DEF Exact, Types, Context
<1>2. w.at \in DOMAIN msgs /\ w.at \in Nat \ {0}
  BY <1>1
<1>3. m \in Msg
  BY <1>1, <1>2
<1>4. count \in Nat
  OBVIOUS
<1> DEFINE one == WriteOne(w, c)
<1>5. one =
        CASE m.state = "publish_qos0" -> removed
          [] m.state = "publish_qos1" -> On(publish, "wait_for_puback", TRUE)
          [] m.state = "publish_qos2" -> On(publish, "wait_for_pubrec", TRUE)
          [] m.state = "send_pubrec" -> On(Packet("pubrec", m.mid), "wait_for_pubrel", m.dup)
          [] m.state = "resend_pubrel" -> On(Packet("pubrel", m.mid), "wait_for_pubcomp", m.dup)
          [] m.state = "queued" /\ m.dir = "in" /\ free -> started
          [] OTHER -> over
  BY DEF WriteOne
<1> HIDE DEF one, count
<1>6. m.state = "publish_qos0" => Good(removed)
  <2> DEFINE sent == Send(d, c, publish)
           left == MessageRemove(sent, c, w.at)
  <2>1. Exact(sent, held) /\ sent.ctx = d.ctx
    <3> HIDE DEF publish, d
    <3> QED BY ExactSend DEF d
  <2> HIDE DEF sent
  <2>2. w.at \in DOMAIN sent.ctx[c].msgs
    BY <1>2, <2>1
  <2>3. m.state = "publish_qos0" => sent.ctx[c].msgs[w.at].qos = 0
    <3>1. m.state = "publish_qos0" => m.qos = 0
      BY <1>3, SMTT(30) DEF Msg, Staying
    <3> QED BY <2>1, <3>1
  <2>4. Exact(left, held) /\ (sent.ctx[c].msgs[w.at].qos = 0 => KeepsAll(sent, left))
    BY <2>1, <2>2, ExactMessageRemove
  <2> HIDE DEF left, m
  <2>5. m.state = "publish_qos0" => KeepsAll(d, left)
    BY <2>1, <2>3, <2>4, KeepsAllSame, KeepsAllOn
  <2>6. removed = [db |-> left, at |-> w.at, count |-> count]
    BY DEF left, sent
  <2> HIDE DEF removed
  <2> QED BY <1>2, <1>4, <2>4, <2>5, <2>6
<1>7. ASSUME NEW packet, NEW state \in Staying, NEW dup \in BOOLEAN
      PROVE  Good(On(packet, state, dup))
  <2> DEFINE sent == Send(d, c, packet)
             new == [m EXCEPT !.state = state, !.dup = dup]
             e == [sent EXCEPT !.ctx[c].msgs[w.at] = new]
  <2>1. /\ Exact(sent, held)
        /\ sent = [store |-> d.store, last |-> d.last, kept |-> d.kept, subs |-> d.subs,
                   ctx |-> d.ctx, out |-> sent.out]
    BY ExactSend
  <2> HIDE DEF sent
  <2>2. new \in Msg /\ new.id = m.id /\ new.dir = m.dir /\ new.mid = m.mid /\ new.qos = m.qos
        /\ new.retain = m.retain
    <3> HIDE DEF m
    <3> QED BY <1>3 DEF Msg, Staying
  <2> HIDE DEF new
  <2>3. e = [store |-> sent.store, last |-> sent.last, kept |-> sent.kept, subs |-> sent.subs,
             ctx |-> [sent.ctx EXCEPT ![c] = [sent.ctx[c] EXCEPT !.msgs = [sent.ctx[c].msgs EXCEPT ![w.at] = new]]],
             out |-> sent.out]
    BY <2>1
  <2> HIDE DEF e
  <2>4. sent.ctx = d.ctx /\ e.out = sent.out
    BY <2>1, <2>3
  <2>5. Exact(e, held) /\ KeepsAll(sent, e)
    BY <1>2, <2>1, <2>2, <2>3, <2>4, ExactMarked
  <2>7. KeepsAll(d, e)
    BY <2>4, <2>5, KeepsAllSame, KeepsAllOn
  <2>6. On(packet, state, dup) = [db |-> e, at |-> w.at + 1, count |-> count]
    BY DEF e, sent, new
  <2> QED BY <1>2, <1>4, <2>5, <2>6, <2>7
<1>8. Good(started)
  <2> DEFINE With(state) == [d EXCEPT !.ctx[c].msgs[w.at].state = state]
             New(state) == [m EXCEPT !.state = state]
  <2>1. ASSUME NEW state \in Staying
        PROVE  Exact(With(state), held) /\ KeepsAll(d, With(state))
    <3> DEFINE new == New(state)
               e == With(state)
    <3>1. new \in Msg /\ new.id = m.id /\ new.dir = m.dir /\ new.mid = m.mid /\ new.qos = m.qos
          /\ new.retain = m.retain
      <4> HIDE DEF m
      <4> QED BY <1>3 DEF Msg, Staying
    <3>2. e = [store |-> d.store, last |-> d.last, kept |-> d.kept, subs |-> d.subs,
               ctx |-> [d.ctx EXCEPT ![c] = [d.ctx[c] EXCEPT !.msgs = [d.ctx[c].msgs EXCEPT ![w.at] = new]]],
               out |-> d.out]
      <4>1. d = [store |-> d.store, last |-> d.last, kept |-> d.kept, subs |-> d.subs,
                 ctx |-> d.ctx, out |-> d.out]
        BY DEF Exact, Types
      <4> QED BY ONLY <4>1, SMT
    <3> HIDE DEF new, e
    <3>3. e.out = d.out
      BY <3>2
    <3>4. Exact(e, held) /\ KeepsAll(d, e)
      BY <1>2, <3>1, <3>2, <3>3, ExactMarked
    <3> QED BY <3>4 DEF e
  <2>2. Exact(With("send_pubrec"), held) /\ KeepsAll(d, With("send_pubrec"))
    <3> HIDE DEF With
    <3> QED BY <2>1 DEF States, Staying
  <2> QED BY <1>2, <1>4, <2>2
<1>9. Good(over)
  BY <1>2, <1>4, KeepsAllSame
<1>10. /\ Good(On(publish, "wait_for_puback", TRUE)) /\ Good(On(publish, "wait_for_pubrec", TRUE))
       /\ Good(On(Packet("pubrec", m.mid), "wait_for_pubrel", m.dup))
       /\ Good(On(Packet("pubrel", m.mid), "wait_for_pubcomp", m.dup))
  <2>1. m.dup \in BOOLEAN /\ TRUE \in BOOLEAN
    BY <1>3 DEF Msg
  <2>2. /\ "wait_for_puback" \in Staying /\ "wait_for_pubrec" \in Staying
        /\ "wait_for_pubrel" \in Staying /\ "wait_for_pubcomp" \in Staying
    BY DEF States, Staying
  <2> HIDE DEF Good, On, publish, m
  <2> QED BY <1>7, <2>1, <2>2
<1> HIDE DEF removed, On, started, over, publish
<1>11. Good(one)
  BY <1>5, <1>6, <1>8, <1>9, <1>10
<1> QED
  BY <1>11 DEF one

\* mqtt3_db_message_write keeps the counts.
LEMMA ExactMessageWrite ==
  ASSUME NEW d, NEW held, Exact(d, held), NEW c \in Clients
  PROVE  LET e == MessageWrite(d, c)
         IN  Exact(e, held) /\ KeepsAll(d, e)
<1> DEFINE p == [c |-> c, held |-> held, start |-> d]
           start == [db |-> d, at |-> 1, count |-> 0]
           n == 2 * Len(d.ctx[c].msgs)
           last == OfWrite!Pass(p, start, n)
<1>1. MessageWrite(d, c) = last.db
  BY DEF MessageWrite, OfWrite!Pass, WriteStep
<1>2. n \in Nat
  <2>1. d.ctx[c].msgs \in Seq(Msg)
    BY DEF Exact, Types, Context
  <2> QED BY <2>1
<1>3. WriteInv(p, 0, start)
  BY KeepsAllSame DEF WriteInv
<1>4. ASSUME NEW i \in 1 .. n, NEW w, WriteInv(p, i - 1, w)
      PROVE  WriteInv(p, i, WriteStep(p, w, i))
  <2>1. Exact(w.db, held) /\ KeepsAll(d, w.db) /\ w.at \in Nat \ {0} /\ w.count \in Nat
    BY <1>4 DEF WriteInv
  <2>2. w.db.ctx[c].msgs \in Seq(Msg)
    BY <2>1 DEF Exact, Types, Context
  <2>3. CASE w.at > Len(w.db.ctx[c].msgs)
    BY <1>4, <2>3 DEF WriteInv, WriteStep
  <2>4. CASE w.at <= Len(w.db.ctx[c].msgs)
    <3>1. /\ Exact(WriteOne(w, c).db, held) /\ KeepsAll(w.db, WriteOne(w, c).db)
          /\ WriteOne(w, c).at \in Nat \ {0} /\ WriteOne(w, c).count \in Nat
      BY <2>1, <2>4, ExactWriteOne
    <3>2. WriteStep(p, w, i) = WriteOne(w, c)
      BY <2>1, <2>2, <2>4 DEF WriteStep
    <3>3. KeepsAll(d, WriteOne(w, c).db)
      BY <2>1, <3>1, KeepsAllOn
    <3> QED BY <3>1, <3>2, <3>3 DEF WriteInv
  <2> QED BY <2>1, <2>2, <2>3, <2>4
<1> HIDE DEF p, n, start
<1>5. WriteInv(p, n, last)
  BY <1>2, <1>3, <1>4, OfWrite!PassKeeps
<1> QED
  BY <1>1, <1>5 DEF WriteInv, p

-----------------------------------------------------------------------------
\* The restart: what is read of the messages and the clients, before the queues
Read(file) ==
  [EmptyDb EXCEPT
     !.last = file.last,
     !.store = [id \in DOMAIN file.store |-> RestoredMessage(file.store[id])],
     !.ctx = [c \in Clients |-> IF c \in DOMAIN file.clients
                                THEN RestoredContext(file.clients[c]) ELSE @[c]]]

\* The messages are those of the file, nobody is connected, only clients with a persistent
\* session are known, and nothing is retained yet.
Remembered(x, y) == y.known = TRUE /\ y.clean = FALSE /\ y.mid = x.mid
AsSaved(d, e) ==
  /\ DOMAIN e.store = DOMAIN d.store
  /\ \A id \in DOMAIN d.store : /\ e.store[id].smid = d.store[id].smid /\ e.store[id].m = d.store[id].m
                                /\ e.store[id].source = d.store[id].source
  /\ \A c \in Clients : e.ctx[c].sock = FALSE
  /\ \A c \in Durable(d) : Remembered(d.ctx[c], e.ctx[c])
  /\ \A c \in Clients \ Durable(d) : e.ctx[c] = NewContext
  /\ \A t \in Names : e.kept[t] = 0

\* The context of a client of the file has its last identifier and no messages yet.
LEMMA RestoredContextTypes ==
  ASSUME NEW client, client.mid \in Nat
  PROVE  LET x == RestoredContext(client)
         IN  x \in Context /\ x.msgs = <<>> /\ x.sock = FALSE /\ Remembered(client, x)
<1> DEFINE With(known, clean, mid) == [NewContext EXCEPT !.known = known, !.clean = clean, !.mid = mid]
<1>1. \A known, clean \in BOOLEAN : \A mid \in Nat : known =>
        LET x == With(known, clean, mid)
        IN  /\ x \in Context /\ x.msgs = NewContext.msgs /\ x.sock = NewContext.sock
            /\ x.known = known /\ x.clean = clean /\ x.mid = mid
  BY NewContextTypes, ZenonT(60) DEF Context
<1>2. RestoredContext(client) = With(TRUE, FALSE, client.mid)
  BY DEF RestoredContext
<1>3. TRUE \in BOOLEAN /\ FALSE \in BOOLEAN /\ NewContext.sock = FALSE
  BY DEF NewContext
<1> HIDE DEF With
<1> DEFINE x == RestoredContext(client)
<1>4. LET y == With(TRUE, FALSE, client.mid)
      IN  /\ y \in Context /\ y.msgs = NewContext.msgs /\ y.sock = NewContext.sock
          /\ y.known = TRUE /\ y.clean = FALSE /\ y.mid = client.mid
  BY <1>1, <1>3, Zenon
<1>5. /\ x \in Context /\ x.msgs = NewContext.msgs /\ x.sock = NewContext.sock
      /\ x.known = TRUE /\ x.clean = FALSE /\ x.mid = client.mid
  BY <1>2, <1>4
<1> HIDE DEF x
<1> QED
  BY <1>3, <1>5, NewContextTypes DEF Remembered, x

\* The messages of the file are not referred to by what has been read so far.
LEMMA ExactRead ==
  ASSUME NEW d, Exact(d, NoneHeld)
  PROVE  LET e == Read(File(d))
         IN  Exact(e, NoneHeld) /\ AsSaved(d, e) /\ \A c \in Clients : e.ctx[c].msgs = <<>>
<1> DEFINE file == File(d)
           e == Read(file)
           store == [id \in DOMAIN d.store |-> RestoredMessage(file.store[id])]
           kept == [t \in Names |-> 0]
           ctx == [c \in Clients |-> IF c \in Durable(d) THEN RestoredContext(file.clients[c]) ELSE NewContext]
           none == [c \in Clients |-> <<>>]
<1>1. /\ d.store \in [DOMAIN d.store -> Stored] /\ d.last \in Nat /\ DOMAIN d.store \subseteq 1 .. d.last
      /\ d.ctx \in [Clients -> Context]
  BY DEF Exact, Types
<1>2. /\ file.last = d.last /\ DOMAIN file.store = DOMAIN d.store
      /\ \A id \in DOMAIN d.store : /\ file.store[id].source = d.store[id].source
                                    /\ file.store[id].smid = d.store[id].smid
                                    /\ file.store[id].m = d.store[id].m
      /\ DOMAIN file.clients = Durable(d)
      /\ \A c \in Durable(d) : file.clients[c].mid = d.ctx[c].mid
  <2>1. file.last = d.last /\ file.store = MessageStoreWrite(d) /\ file.clients = ClientWrite(d)
    BY DEF File
  <2> HIDE DEF file
  <2>2. /\ DOMAIN file.store = DOMAIN d.store
        /\ \A id \in DOMAIN d.store : /\ file.store[id].source = d.store[id].source
                                      /\ file.store[id].smid = d.store[id].smid
                                      /\ file.store[id].m = d.store[id].m
    BY <2>1 DEF MessageStoreWrite
  <2>3. DOMAIN file.clients = Durable(d) /\ \A c \in Durable(d) : file.clients[c].mid = d.ctx[c].mid
    BY <2>1 DEF ClientWrite
  <2> QED BY <2>1, <2>2, <2>3
<1> HIDE DEF file
<1>3. e = [store |-> store, last |-> d.last, kept |-> kept, subs |-> {}, ctx |-> ctx, out |-> none]
  <2> DEFINE empty == EmptyDb
  <2>1. /\ empty.kept = kept /\ empty.subs = {} /\ empty.out = none
        /\ empty.ctx = [c \in Clients |-> NewContext]
        /\ empty = [store |-> empty.store, last |-> empty.last, kept |-> empty.kept, subs |-> empty.subs,
                    ctx |-> empty.ctx, out |-> empty.out]
    BY DEF EmptyDb
  <2> HIDE DEF kept, none
  <2>2. e = [empty EXCEPT
               !.last = file.last,
               !.store = [id \in DOMAIN file.store |-> RestoredMessage(file.store[id])],
               !.ctx = [c \in Clients |-> IF c \in DOMAIN file.clients
                                          THEN RestoredContext(file.clients[c]) ELSE empty.ctx[c]]]
    BY DEF Read
  <2> HIDE DEF empty
  <2>3. [id \in DOMAIN file.store |-> RestoredMessage(file.store[id])] = store
    BY <1>2
  <2>4. [c \in Clients |-> IF c \in DOMAIN file.clients
                           THEN RestoredContext(file.clients[c]) ELSE empty.ctx[c]] = ctx
    BY <1>2, <2>1
  <2> HIDE DEF e, store, ctx
  <2> QED BY <1>2, <2>1, <2>2, <2>3, <2>4
<1>4. /\ store \in [DOMAIN d.store -> Stored]
      /\ \A id \in DOMAIN d.store : /\ store[id].refs = 0 /\ store[id].smid = d.store[id].smid
                                    /\ store[id].m = d.store[id].m /\ store[id].source = d.store[id].source
  <2>1. \A id \in DOMAIN d.store : d.store[id] \in Stored
    BY <1>1
  <2> QED BY <1>2, <2>1 DEF RestoredMessage, Stored
<1>5. \A c \in Clients :
        /\ ctx[c] \in Context /\ ctx[c].msgs = <<>> /\ ctx[c].sock = FALSE
        /\ IF c \in Durable(d) THEN Remembered(d.ctx[c], ctx[c]) ELSE ctx[c] = NewContext
  <2> TAKE c \in Clients
  <2>1. CASE c \in Durable(d)
    <3>1. file.clients[c].mid \in Nat /\ file.clients[c].mid = d.ctx[c].mid
      BY <1>1, <1>2, <2>1 DEF Context
    <3> DEFINE x == RestoredContext(file.clients[c])
    <3>2. x \in Context /\ x.msgs = <<>> /\ x.sock = FALSE /\ Remembered(file.clients[c], x)
      BY <3>1, RestoredContextTypes
    <3>3. ctx[c] = x
      BY <2>1
    <3> HIDE DEF x, ctx
    <3> QED BY <2>1, <3>1, <3>2, <3>3 DEF Remembered
  <2>2. CASE c \notin Durable(d)
    <3>1. ctx[c] = NewContext /\ NewContext.sock = FALSE
      BY <2>2 DEF NewContext
    <3> QED BY <2>2, <3>1, NewContextTypes
  <2> QED BY <2>1, <2>2
<1>6. ctx \in [Clients -> Context]
  BY <1>5
<1> HIDE DEF store, ctx, kept, none, e
<1>7. /\ e.store = store /\ e.last = d.last /\ e.kept = kept /\ e.subs = {} /\ e.ctx = ctx
      /\ e = [store |-> e.store, last |-> e.last, kept |-> e.kept, subs |-> e.subs, ctx |-> e.ctx, out |-> e.out]
  BY <1>3
<1>8. kept \in [Names -> Nat] /\ \A t \in Names : kept[t] = 0
  BY DEF kept
<1>9. Types(e)
  BY <1>1, <1>4, <1>6, <1>7, <1>8 DEF Types
<1>10. NoneHeld \in Held /\ \A id \in Nat : NoneHeld[id] = 0
  BY DEF NoneHeld, Held
<1>11. \A c \in Clients : DOMAIN ctx[c].msgs = {}
  BY <1>5
<1>12. ASSUME NEW id \in DOMAIN d.store
       PROVE  References(e, id) = 0
  <2>1. Waiting(ctx, id) = {}
    BY <1>11 DEF Waiting
  <2>2. Keeping(kept, id) = {}
    BY <1>1, <1>8 DEF Keeping
  <2> QED BY <1>7, <2>1, <2>2, FS_EmptySet DEF References
<1>13. NothingDangles(e, NoneHeld)
  BY <1>7, <1>8, <1>10, <1>11 DEF NothingDangles
<1>14. AllCounted(e, NoneHeld)
  BY <1>1, <1>4, <1>7, <1>10, <1>12 DEF AllCounted
<1>15. QueuesCounted(e) /\ IncomingIsStored(e) /\ KeptAsPublished(e)
  BY <1>5, <1>7, <1>8, <1>11 DEF QueuesCounted, IncomingIsStored, KeptAsPublished
<1>16. AsSaved(d, e)
  <2>1. Durable(d) \subseteq Clients
    BY DEF Durable
  <2> QED BY <1>4, <1>5, <1>7, <1>8, <2>1 DEF AsSaved
<1> QED
  BY <1>5, <1>7, <1>9, <1>10, <1>13, <1>14, <1>15, <1>16 DEF Exact, e, file

\* _db_client_msg_restore for one client, and one message of it
RestoredRef(d, c, m) == [Ref(d, m.id) EXCEPT !.ctx[c].msgs = Append(@, m)]
RefsStep(p, d, i) == RestoredRef(d, p.c, p.msgs[i])
RefsInv(p, i, d) ==
  /\ Exact(d, NoneHeld) /\ AsSaved(p.was, d)
  /\ \A b \in Clients \ {p.c} : d.ctx[b] = p.start.ctx[b]
  /\ Len(d.ctx[p.c].msgs) = i /\ \A k \in 1 .. i : d.ctx[p.c].msgs[k] = p.msgs[k]
OfRefs == INSTANCE Passes WITH Step <- RefsStep, Inv <- RefsInv

\* A message of the file gets back to the queue it was in, and is counted.
LEMMA ExactRestoredMessage ==
  ASSUME NEW was, NEW d, Exact(d, NoneHeld), AsSaved(was, d), NEW c \in Durable(was), NEW m \in Msg,
         m.id \in DOMAIN was.store, m.dir = "in" => AsPublished(was.store[m.id], m)
  PROVE  LET e == RestoredRef(d, c, m)
         IN  /\ Exact(e, NoneHeld) /\ AsSaved(was, e)
             /\ e.ctx[c].msgs = Append(d.ctx[c].msgs, m)
             /\ \A b \in Clients \ {c} : e.ctx[b] = d.ctx[b]
<1> DEFINE id == m.id
           r == Ref(d, id)
           e == [r EXCEPT !.ctx[c].msgs = Append(@, m)]
           x == [d.ctx[c] EXCEPT !.msgs = Append(d.ctx[c].msgs, m)]
<1>1. id \in DOMAIN d.store /\ NoneHeld \in Held /\ id \in Nat /\ c \in Clients
  BY DEF AsSaved, NoneHeld, Held, Msg, Durable
<1>2. /\ Exact(r, Holding(NoneHeld, id)) /\ OnlyStore(d, r) /\ DOMAIN r.store = DOMAIN d.store
      /\ \A i \in DOMAIN d.store : /\ r.store[i].smid = d.store[i].smid /\ r.store[i].m = d.store[i].m
                                   /\ r.store[i].source = d.store[i].source
  <2> HIDE DEF r
  <2> QED BY <1>1, ExactRef DEF SameContent, r
<1>3. Holding(NoneHeld, id)[id] # 0 /\ Giving(Holding(NoneHeld, id), id) = NoneHeld
  BY <1>1, HoldingGiving
<1> HIDE DEF r
<1>4. r = [store |-> r.store, last |-> d.last, kept |-> d.kept, subs |-> d.subs, ctx |-> d.ctx, out |-> d.out]
  BY <1>2 DEF OnlyStore
<1>5. e = [store |-> r.store, last |-> d.last, kept |-> d.kept, subs |-> d.subs,
           ctx |-> [d.ctx EXCEPT ![c] = x], out |-> d.out]
  <2>1. /\ r.last = d.last /\ r.kept = d.kept /\ r.subs = d.subs /\ r.ctx = d.ctx /\ r.out = d.out
        /\ r = [store |-> r.store, last |-> r.last, kept |-> r.kept, subs |-> r.subs, ctx |-> r.ctx, out |-> r.out]
    BY <1>4
  <2>2. e = [store |-> r.store, last |-> r.last, kept |-> r.kept, subs |-> r.subs,
             ctx |-> [r.ctx EXCEPT ![c] = [r.ctx[c] EXCEPT !.msgs = Append(r.ctx[c].msgs, m)]], out |-> r.out]
    BY ONLY <2>1, SMT
  <2> QED BY <2>1, <2>2
<1>6. d.ctx \in [Clients -> Context] /\ d.ctx[c] \in Context /\ d.ctx[c].msgs \in Seq(Msg)
  BY <1>1 DEF Exact, Types, Context
<1>7. /\ x \in Context /\ x.msgs = Append(d.ctx[c].msgs, m) /\ x.sock = d.ctx[c].sock
      /\ Remembered(d.ctx[c], d.ctx[c]) => Remembered(d.ctx[c], x)
  <2> DEFINE msgs == Append(d.ctx[c].msgs, m)
  <2>1. msgs \in Seq(Msg)
    BY <1>6
  <2> HIDE DEF msgs
  <2>2. [d.ctx[c] EXCEPT !.msgs = msgs] \in Context
    BY <1>6, <2>1 DEF Context
  <2> QED BY <1>6, <2>2 DEF msgs, Context, Remembered
<1> HIDE DEF x, e
<1>8. /\ e.store = r.store /\ e.last = r.last /\ e.kept = r.kept /\ e.subs = r.subs
      /\ e.ctx = [d.ctx EXCEPT ![c] = x] /\ r.ctx = d.ctx /\ r.kept = d.kept
      /\ e = [store |-> e.store, last |-> e.last, kept |-> e.kept, subs |-> e.subs, ctx |-> e.ctx, out |-> e.out]
  BY <1>4, <1>5
<1>9. e.ctx \in [Clients -> Context] /\ e.ctx[c] = x /\ \A b \in Clients \ {c} : e.ctx[b] = r.ctx[b]
  BY <1>1, <1>6, <1>7, <1>8
<1>10. Types(e) /\ SameCounts(r, e)
  BY <1>2, <1>8, <1>9 DEF Exact, Types, SameCounts
<1>11. e.ctx[c].sock = FALSE /\ e.ctx[c].msgs = Append(r.ctx[c].msgs, m)
  BY <1>1, <1>7, <1>8, <1>9 DEF AsSaved
<1>12. m.dir = "in" => AsPublished(r.store[m.id], m)
  BY <1>1, <1>2 DEF AsSaved, AsPublished
<1>13. Exact(e, Giving(Holding(NoneHeld, id), id))
  <2>1. /\ Exact(r, Holding(NoneHeld, id)) /\ Types(e) /\ SameCounts(r, e) /\ e.kept = r.kept
        /\ c \in Clients /\ m \in Msg
    BY <1>1, <1>2, <1>8, <1>10
  <2>2. \A b \in Clients \ {c} : e.ctx[b] = r.ctx[b]
    BY <1>9
  <2>3. e.ctx[c].sock => r.ctx[c].sock /\ e.ctx[c].n12 = r.ctx[c].n12 + (IF m.qos > 0 THEN 1 ELSE 0)
    BY <1>11
  <2> DEFINE held == Holding(NoneHeld, id)
  <2>4. Exact(r, held) /\ held[m.id] # 0
    BY <1>3, <2>1
  <2> HIDE DEF held
  <2>5. Exact(e, Giving(held, m.id))
    BY ONLY <1>11, <1>12, <2>1, <2>2, <2>3, <2>4, ExactAppended, SMT
  <2> QED BY <2>5 DEF held
<1>14. AsSaved(was, e)
  <2>1. Remembered(was.ctx[c], e.ctx[c])
    <3>1. Remembered(was.ctx[c], d.ctx[c])
      BY DEF AsSaved
    <3> QED BY <1>7, <1>9, <3>1 DEF Remembered
  <2>2. \A b \in Durable(was) : Remembered(was.ctx[b], e.ctx[b])
    BY <1>8, <1>9, <2>1 DEF AsSaved, Durable
  <2>3. \A b \in Clients \ Durable(was) : e.ctx[b] = NewContext
    BY <1>8, <1>9 DEF AsSaved
  <2>4. \A b \in Clients : e.ctx[b].sock = FALSE
    BY <1>8, <1>9, <1>11 DEF AsSaved
  <2>5. /\ DOMAIN e.store = DOMAIN was.store /\ \A t \in Names : e.kept[t] = 0
        /\ \A i \in DOMAIN was.store : /\ e.store[i].smid = was.store[i].smid /\ e.store[i].m = was.store[i].m
                                       /\ e.store[i].source = was.store[i].source
    BY <1>2, <1>8 DEF AsSaved
  <2> QED BY <2>2, <2>3, <2>4, <2>5 DEF AsSaved
<1>15. e.ctx[c].msgs = Append(d.ctx[c].msgs, m) /\ \A b \in Clients \ {c} : e.ctx[b] = d.ctx[b]
  BY <1>8, <1>9, <1>11
<1> QED
  BY <1>3, <1>13, <1>14, <1>15 DEF e, r, RestoredRef

\* The messages of a client in the file: each is in the store.
QueueOf(was, msgs) ==
  /\ msgs \in Seq(Msg)
  /\ \A k \in DOMAIN msgs : /\ msgs[k].id \in DOMAIN was.store
                            /\ msgs[k].dir = "in" => AsPublished(was.store[msgs[k].id], msgs[k])

\* The queue of a client is read.
LEMMA ExactRestoredRefs ==
  ASSUME NEW was, NEW d, Exact(d, NoneHeld), AsSaved(was, d), NEW c \in Durable(was),
         NEW msgs, QueueOf(was, msgs), d.ctx[c].msgs = <<>>
  PROVE  LET e == RestoredRefs(d, c, msgs)
         IN  /\ Exact(e, NoneHeld) /\ AsSaved(was, e)
             /\ e.ctx[c].msgs = msgs
             /\ \A b \in Clients \ {c} : e.ctx[b] = d.ctx[b]
<1> DEFINE p == [was |-> was, c |-> c, msgs |-> msgs, start |-> d]
           n == Len(msgs)
           last == OfRefs!Pass(p, d, n)
<1>1. RestoredRefs(d, c, msgs) = last
  BY ZenonT(60) DEF RestoredRefs, OfRefs!Pass, RefsStep, RestoredRef
<1>2. msgs \in Seq(Msg) /\ n \in Nat /\ RefsInv(p, 0, d)
  BY DEF RefsInv, QueueOf
<1>3. ASSUME NEW i \in 1 .. n, NEW e, RefsInv(p, i - 1, e)
      PROVE  RefsInv(p, i, RefsStep(p, e, i))
  <2> DEFINE m == msgs[i]
  <2>1. /\ Exact(e, NoneHeld) /\ AsSaved(was, e)
        /\ \A b \in Clients \ {c} : e.ctx[b] = d.ctx[b]
        /\ Len(e.ctx[c].msgs) = i - 1 /\ \A k \in 1 .. i - 1 : e.ctx[c].msgs[k] = msgs[k]
    BY <1>3 DEF RefsInv
  <2>2. m \in Msg /\ m.id \in DOMAIN was.store /\ (m.dir = "in" => AsPublished(was.store[m.id], m))
    BY <1>2 DEF QueueOf
  <2>3. RefsStep(p, e, i) = RestoredRef(e, c, m)
    BY DEF RefsStep
  <2> HIDE DEF m
  <2> DEFINE f == RestoredRef(e, c, m)
  <2>4. /\ Exact(f, NoneHeld) /\ AsSaved(was, f)
        /\ f.ctx[c].msgs = Append(e.ctx[c].msgs, m)
        /\ \A b \in Clients \ {c} : f.ctx[b] = e.ctx[b]
    <3>1. Exact(e, NoneHeld) /\ AsSaved(was, e)
      BY <2>1
    <3>2. c \in Durable(was)
      OBVIOUS
    <3> QED BY ONLY <3>1, <3>2, <2>2, ExactRestoredMessage, SMT
  <2>5. e.ctx[c].msgs \in Seq(Msg)
    <3>1. c \in Clients
      BY DEF Durable
    <3> QED BY <2>1, <3>1 DEF Exact, Types, Context
  <2> HIDE DEF f
  <2>6. Len(f.ctx[c].msgs) = i /\ \A k \in 1 .. i : f.ctx[c].msgs[k] = msgs[k]
    <3> DEFINE q == e.ctx[c].msgs
               g == f.ctx[c].msgs
    <3>1. q \in Seq(Msg) /\ Len(q) = i - 1 /\ (\A k \in 1 .. i - 1 : q[k] = msgs[k])
      BY <2>1, <2>5
    <3>2. g = Append(q, m) /\ m = msgs[i] /\ m \in Msg /\ i \in Nat \ {0}
      BY <1>2, <2>2, <2>4 DEF m
    <3> HIDE DEF q, g
    <3>3. Len(g) = i /\ \A k \in 1 .. i : g[k] = msgs[k]
      BY ONLY <3>1, <3>2, SMT
    <3> QED BY <3>3 DEF g
  <2>7. \A b \in Clients \ {c} : f.ctx[b] = d.ctx[b]
    BY <2>1, <2>4
  <2> QED BY <2>3, <2>4, <2>6, <2>7 DEF RefsInv, f
<1> HIDE DEF p, n
<1>4. RefsInv(p, n, last)
  BY <1>2, <1>3, OfRefs!PassKeeps
<1> HIDE DEF last
<1>5. /\ Exact(last, NoneHeld) /\ AsSaved(was, last)
      /\ \A b \in Clients \ {c} : last.ctx[b] = d.ctx[b]
      /\ Len(last.ctx[c].msgs) = Len(msgs) /\ \A k \in 1 .. Len(msgs) : last.ctx[c].msgs[k] = msgs[k]
  BY <1>4 DEF RefsInv, p, n
<1>6. last.ctx[c].msgs = msgs
  <2>1. c \in Clients
    BY DEF Durable
  <2>2. last.ctx[c].msgs \in Seq(Msg) /\ msgs \in Seq(Msg)
    BY <1>2, <1>5, <2>1 DEF Exact, Types, Context
  <2> QED BY <1>5, <2>2
<1> QED
  BY <1>1, <1>5, <1>6

\* A round of _db_client_msg_chunk_restore
QueuesStep(p, d, i) == RestoredRefs(d, p.order[i], p.clients[p.order[i]].msgs)
QueuesInv(p, i, d) ==
  /\ Exact(d, NoneHeld) /\ AsSaved(p.was, d)
  /\ \A j \in 1 .. Len(p.order) :
       d.ctx[p.order[j]].msgs = IF j <= i THEN p.clients[p.order[j]].msgs ELSE <<>>
OfQueues == INSTANCE Passes WITH Step <- QueuesStep, Inv <- QueuesInv

\* The queues of all clients of the file are read.
LEMMA ExactRestoredQueues ==
  ASSUME NEW was, NEW d, Exact(d, NoneHeld), AsSaved(was, d),
         \A c \in Clients : d.ctx[c].msgs = <<>>,
         NEW clients, DOMAIN clients = Durable(was),
         \A c \in DOMAIN clients : QueueOf(was, clients[c].msgs)
  PROVE  LET e == RestoredQueues(d, clients)
         IN  /\ Exact(e, NoneHeld) /\ AsSaved(was, e)
             /\ \A c \in Durable(was) : e.ctx[c].msgs = clients[c].msgs
<1> DEFINE order == SetToSeq(DOMAIN clients)
           p == [was |-> was, clients |-> clients, order |-> order]
           n == Len(order)
           last == OfQueues!Pass(p, d, n)
<1>1. RestoredQueues(d, clients) = last
  BY DEF RestoredQueues, OfQueues!Pass, QueuesStep
<1>2. /\ order \in Seq(DOMAIN clients)
      /\ \A i, j \in 1 .. Len(order) : order[i] = order[j] => i = j
      /\ \A c \in DOMAIN clients : \E i \in 1 .. Len(order) : order[i] = c
  <2>1. IsFiniteSet(DOMAIN clients)
    <3>1. DOMAIN clients \in SUBSET Clients
      BY DEF Durable
    <3> QED BY <3>1, BrokerAssumption, FS_Subset
  <2> QED BY <2>1, SetToSeqLists
<1> HIDE DEF order
<1>6. \A i \in 1 .. Len(order) : order[i] \in Durable(was) /\ order[i] \in Clients
  BY <1>2 DEF Durable
<1>3. n \in Nat /\ QueuesInv(p, 0, d)
  BY <1>2, <1>6 DEF QueuesInv
<1>4. ASSUME NEW i \in 1 .. n, NEW e, QueuesInv(p, i - 1, e)
      PROVE  QueuesInv(p, i, QueuesStep(p, e, i))
  <2> DEFINE c == order[i]
  <2>1. /\ Exact(e, NoneHeld) /\ AsSaved(was, e)
        /\ \A j \in 1 .. n : e.ctx[order[j]].msgs = IF j <= i - 1 THEN clients[order[j]].msgs ELSE <<>>
    BY <1>4 DEF QueuesInv
  <2>2. c \in Clients /\ c \in DOMAIN clients /\ c \in Durable(was) /\ e.ctx[c].msgs = <<>>
    BY <1>3, <1>6, <2>1
  <2>3. QueuesStep(p, e, i) = RestoredRefs(e, c, clients[c].msgs)
    BY DEF QueuesStep
  <2> DEFINE f == RestoredRefs(e, c, clients[c].msgs)
  <2> HIDE DEF c
  <2>4. /\ Exact(f, NoneHeld) /\ AsSaved(was, f)
        /\ f.ctx[c].msgs = clients[c].msgs
        /\ \A b \in Clients \ {c} : f.ctx[b] = e.ctx[b]
    BY <2>1, <2>2, ExactRestoredRefs
  <2> HIDE DEF f
  <2>5. ASSUME NEW j \in 1 .. n
        PROVE  f.ctx[order[j]].msgs = IF j <= i THEN clients[order[j]].msgs ELSE <<>>
    <3>1. CASE j = i
      BY <2>4, <3>1 DEF c
    <3>2. CASE j # i
      <4>1. order[j] # c /\ order[j] \in Clients
        BY <1>2, <1>6, <3>2 DEF c
      <4>2. j <= i - 1 <=> j <= i
        BY <1>3, <3>2
      <4> QED BY <2>1, <2>4, <4>1, <4>2
    <3> QED BY <3>1, <3>2
  <2> QED BY <2>3, <2>4, <2>5 DEF QueuesInv, f
<1> HIDE DEF p, n
<1>5. QueuesInv(p, n, last)
  BY <1>3, <1>4, OfQueues!PassKeeps
<1> HIDE DEF last
<1>7. /\ Exact(last, NoneHeld) /\ AsSaved(was, last)
      /\ \A j \in 1 .. n : last.ctx[order[j]].msgs = clients[order[j]].msgs
  BY <1>3, <1>5 DEF QueuesInv, p, n
<1>8. \A c \in Durable(was) : last.ctx[c].msgs = clients[c].msgs
  BY <1>2, <1>7 DEF n
<1> QED
  BY <1>1, <1>7, <1>8

\* A round of _db_retain_chunk_restore: the messages of the rounds that follow are still there.
RetainStep(p, d, i) ==
  LET m == p.start.store[p.order[i]].m IN MessagesQueue(d, p.order[i], m.qos, m.retain, {})
RetainInv(p, i, d) ==
  /\ Exact(d, NoneHeld)
  /\ \A j \in DOMAIN p.order : j > i => p.order[j] \in DOMAIN d.store
  /\ \A t \in Names : d.kept[t] = 0 \/ \E j \in DOMAIN p.order : j <= i /\ d.kept[t] = p.order[j]
  /\ \A j \in DOMAIN p.order : j <= i => d.kept[p.start.store[p.order[j]].m.topic] = p.order[j]
  /\ d.ctx = p.start.ctx /\ d.subs = p.start.subs
  /\ SameContent(p.start, d) /\ DOMAIN d.store \subseteq DOMAIN p.start.store
OfRetain == INSTANCE Passes WITH Step <- RetainStep, Inv <- RetainInv

\* The messages that topics may keep, not two of one topic
OneForEach(store, kept) ==
  /\ \A id \in kept : Keepable(store[id].m, store[id].m.topic)
  /\ \A a, b \in kept : store[a].m.topic = store[b].m.topic => a = b

\* The retained messages are read; each is kept.
LEMMA ExactRestoredRetain ==
  ASSUME NEW d, Exact(d, NoneHeld), \A t \in Names : d.kept[t] = 0,
         NEW kept, IsFiniteSet(kept), kept \subseteq DOMAIN d.store, OneForEach(d.store, kept)
  PROVE  LET e == RestoredRetain(d, kept)
         IN  /\ Exact(e, NoneHeld) /\ e.ctx = d.ctx /\ e.subs = d.subs
             /\ SameContent(d, e) /\ DOMAIN e.store \subseteq DOMAIN d.store
             /\ KeptMessages(e) = kept
<1> DEFINE order == SetToSeq(kept)
           p == [start |-> d, order |-> order]
           n == Len(order)
           last == OfRetain!Pass(p, d, n)
<1>1. RestoredRetain(d, kept) = last
  BY DEF RestoredRetain, OfRetain!Pass, RetainStep
<1>2. /\ order \in Seq(kept) /\ \A i, j \in 1 .. Len(order) : order[i] = order[j] => i = j
      /\ n \in Nat /\ DOMAIN order = 1 .. n
      /\ \A id \in kept : \E j \in 1 .. n : order[j] = id
  <2>1. /\ order \in Seq(kept) /\ \A i, j \in 1 .. Len(order) : order[i] = order[j] => i = j
        /\ \A id \in kept : \E j \in 1 .. Len(order) : order[j] = id
    BY SetToSeqLists
  <2> HIDE DEF order
  <2> QED BY <2>1
<1>3. /\ d.store \in [DOMAIN d.store -> Stored] /\ DOMAIN d.store \subseteq Nat \ {0}
  BY DEF Exact, Types
<1> DEFINE Topic(j) == d.store[order[j]].m.topic
<1>4. RetainInv(p, 0, d)
  BY <1>2 DEF RetainInv, SameContent
<1>5. ASSUME NEW i \in 1 .. n, NEW e, RetainInv(p, i - 1, e)
      PROVE  RetainInv(p, i, RetainStep(p, e, i))
  <2> DEFINE id == order[i]
             m == d.store[id].m
             new == MessagesQueue(e, id, m.qos, m.retain, {})
  <2>1. /\ Exact(e, NoneHeld)
        /\ \A j \in 1 .. n : j > i - 1 => order[j] \in DOMAIN e.store
        /\ \A t \in Names : e.kept[t] = 0 \/ \E j \in 1 .. n : j <= i - 1 /\ e.kept[t] = order[j]
        /\ \A j \in 1 .. n : j <= i - 1 => e.kept[Topic(j)] = order[j]
        /\ e.ctx = d.ctx /\ e.subs = d.subs /\ SameContent(d, e) /\ DOMAIN e.store \subseteq DOMAIN d.store
    BY <1>2, <1>5 DEF RetainInv
  <2>2. id \in DOMAIN e.store /\ id \in DOMAIN d.store /\ id \in kept
    BY <1>2, <2>1
  <2>3. /\ m.qos \in 0 .. 2 /\ m.retain = TRUE /\ m.empty = FALSE /\ m.topic \in Names
        /\ e.store[id].m = m
    <3>1. d.store[id] \in Stored
      BY <1>3, <2>2
    <3>2. m.retain = TRUE /\ m.empty = FALSE
      BY <2>2 DEF OneForEach, Keepable
    <3>3. e.store[id].m = m
      BY <2>1, <2>2 DEF SameContent
    <3> QED BY <3>1, <3>2, <3>3 DEF Stored, Content
  <2>4. RetainStep(p, e, i) = new
    BY DEF RetainStep
  <2>5. Exact(new, NoneHeld) /\ Passed(e, new, id, m.retain) /\ new.ctx = e.ctx
    <3>1. {} \subseteq Leaf
      OBVIOUS
    <3> HIDE DEF id, m
    <3> QED BY <2>1, <2>2, <2>3, <3>1, ExactMessagesQueue
  <2> HIDE DEF new
  <2>6. new.kept = [e.kept EXCEPT ![Topic(i)] = id] /\ e.kept \in [Names -> Nat]
    <3>1. Topic(i) = m.topic
      OBVIOUS
    <3>2. new.kept = KeptAfter(e, id, m.retain)
      BY <2>5 DEF Passed
    <3>3. e.kept \in [Names -> Nat]
      BY <2>1 DEF Exact, Types
    <3> HIDE DEF m, id
    <3> QED BY <2>3, <3>1, <3>2, <3>3 DEF KeptAfter
  <2>7. ASSUME NEW j \in 1 .. n, j > i
        PROVE  order[j] \in DOMAIN new.store
    <3>1. order[j] \in DOMAIN e.store /\ order[j] # id
      BY <1>2, <2>1, <2>7
    <3>2. ASSUME NEW t \in Names
          PROVE  e.kept[t] # order[j]
      <4>1. CASE e.kept[t] = 0
        <5>1. order[j] # 0
          BY <1>2, <1>3
        <5> QED BY <4>1, <5>1
      <4>2. CASE \E k \in 1 .. n : k <= i - 1 /\ e.kept[t] = order[k]
        BY <1>2, <2>7, <4>2
      <4> QED BY <2>1, <4>1, <4>2
    <3> QED BY <2>5, <3>1, <3>2 DEF Passed
  <2>8. ASSUME NEW t \in Names
        PROVE  new.kept[t] = 0 \/ \E j \in 1 .. n : j <= i /\ new.kept[t] = order[j]
    <3>1. new.kept[t] \in {e.kept[t], id}
      BY <2>6
    <3>2. CASE new.kept[t] = e.kept[t]
      BY <2>1, <3>2
    <3>3. CASE new.kept[t] = id
      BY <3>3
    <3> QED BY <3>1, <3>2, <3>3
  <2>9. ASSUME NEW j \in 1 .. n, j <= i
        PROVE  new.kept[Topic(j)] = order[j]
    <3>1. CASE j = i
      <4>1. Topic(i) \in Names
        BY <2>3
      <4> HIDE DEF Topic
      <4> QED BY <2>6, <3>1, <4>1
    <3>2. CASE j # i
      <4>1. j <= i - 1 /\ order[j] # id /\ order[j] \in kept
        BY <1>2, <2>9, <3>2
      <4>2. Topic(j) # Topic(i)
        BY <2>2, <4>1 DEF OneForEach
      <4>3. Topic(j) \in Names
        <5>1. d.store[order[j]] \in Stored
          BY <1>3, <4>1
        <5> QED BY <5>1 DEF Stored, Content
      <4>4. e.kept[Topic(j)] = order[j]
        BY <2>1, <4>1
      <4> HIDE DEF Topic
      <4> QED BY <2>6, <4>2, <4>3, <4>4
    <3> QED BY <3>1, <3>2
  <2>10. SameContent(d, new) /\ DOMAIN new.store \subseteq DOMAIN d.store /\ new.subs = d.subs
    BY <2>1, <2>5 DEF Passed, SameContent
  <2> HIDE DEF m, id
  <2> QED BY <1>2, <2>1, <2>4, <2>5, <2>7, <2>8, <2>9, <2>10 DEF RetainInv
<1> HIDE DEF n, order
<1> HIDE DEF p
<1>6. RetainInv(p, n, last)
  BY <1>2, <1>4, <1>5, OfRetain!PassKeeps
<1> HIDE DEF last
<1>7. /\ \A t \in Names : last.kept[t] = 0 \/ \E j \in 1 .. n : last.kept[t] = order[j]
      /\ \A j \in 1 .. n : last.kept[Topic(j)] = order[j]
  BY <1>2, <1>6 DEF RetainInv, p
<1>8. KeptMessages(last) = kept
  <2>1. ASSUME NEW id \in KeptMessages(last)
        PROVE  id \in kept
    <3>1. PICK t \in Names : id = last.kept[t] /\ id # 0
      BY DEF KeptMessages
    <3> QED BY <1>2, <1>7, <3>1
  <2>2. ASSUME NEW id \in kept
        PROVE  id \in KeptMessages(last)
    <3>1. PICK j \in 1 .. n : order[j] = id
      BY <1>2
    <3>2. id # 0 /\ d.store[id].m.topic \in Names
      <4>1. id \in DOMAIN d.store
        OBVIOUS
      <4> QED BY <1>3, <4>1 DEF Stored, Content
    <3>3. last.kept[d.store[id].m.topic] = id
      BY <1>7, <3>1
    <3> QED BY <3>2, <3>3 DEF KeptMessages
  <2> QED BY <2>1, <2>2
<1> QED
  BY <1>1, <1>6, <1>8 DEF RetainInv, p

\* What is to last of two states is the same when their clients with a persistent session, their
\* subscriptions and their retained messages are.
LEMMA LastsAsSaved ==
  ASSUME NEW d, NEW e, Exact(e, NoneHeld),
         \A id \in DOMAIN e.store : /\ id \in DOMAIN d.store /\ e.store[id].m = d.store[id].m
                                    /\ e.store[id].smid = d.store[id].smid
                                    /\ e.store[id].source = d.store[id].source,
         KeptMessages(e) = KeptMessages(d), e.subs = SubsWrite(d),
         \A c \in Durable(d) : Remembered(d.ctx[c], e.ctx[c]),
         \A c \in Clients \ Durable(d) : e.ctx[c] = NewContext,
         \A c \in Durable(d) : e.ctx[c].msgs = d.ctx[c].msgs
  PROVE  Lasting(e) = Lasting(d)
<1>1. Durable(e) = Durable(d)
  <2>1. Durable(d) \subseteq Clients /\ Durable(e) \subseteq Clients
    BY DEF Durable
  <2>2. \A c \in Durable(d) : c \in Durable(e)
    BY <2>1 DEF Durable, Remembered
  <2>3. NewContext.known = FALSE
    BY DEF NewContext
  <2>4. \A c \in Durable(e) : c \in Durable(d)
    BY <2>1, <2>3 DEF Durable
  <2> QED BY <2>2, <2>4
<1> DEFINE Place(f, m) == [mid |-> m.mid, dir |-> m.dir, qos |-> m.qos, state |-> m.state,
                           message |-> f.store[m.id].m, source |-> f.store[m.id].source,
                           smid |-> f.store[m.id].smid]
           Row(f, c) == [k \in DOMAIN f.ctx[c].msgs |-> Place(f, f.ctx[c].msgs[k])]
           queues(f) == [c \in Durable(f) |-> Row(f, c)]
           mids(f) == [c \in Durable(f) |-> f.ctx[c].mid]
           leaves(f) == {leaf \in f.subs : leaf.client \in Durable(f)}
           kept(f) == {f.store[id].m : id \in KeptMessages(f)}
<1>2. queues(e) = queues(d)
  <2>1. ASSUME NEW c \in Durable(d)
        PROVE  Row(e, c) = Row(d, c)
    <3>1. e.ctx[c].msgs = d.ctx[c].msgs /\ c \in Clients
      BY DEF Durable
    <3>2. ASSUME NEW k \in DOMAIN d.ctx[c].msgs
          PROVE  Place(e, d.ctx[c].msgs[k]) = Place(d, d.ctx[c].msgs[k])
      <4>1. d.ctx[c].msgs[k].id \in DOMAIN e.store
        BY <3>1 DEF Exact, NothingDangles
      <4> QED BY <4>1
    <3> HIDE DEF Place
    <3> QED BY <3>1, <3>2
  <2> HIDE DEF Row
  <2> QED BY <1>1, <2>1
<1>3. mids(e) = mids(d)
  BY <1>1 DEF Remembered
<1>4. leaves(e) = leaves(d)
  BY <1>1 DEF SubsWrite
<1>5. kept(e) = kept(d)
  <2>1. \A id \in KeptMessages(d) : id \in DOMAIN e.store
    BY DEF Exact, NothingDangles, KeptMessages
  <2> QED BY <2>1
<1>6. \A f : Lasting(f) = [queues |-> queues(f), mids |-> mids(f), subs |-> leaves(f), kept |-> kept(f)]
  BY DEF Lasting
<1> HIDE DEF queues, mids, leaves, kept
<1> QED
  BY <1>2, <1>3, <1>4, <1>5, <1>6

\* A broker that is started again counts what its file says exactly, and has what was to last:
\* the clients with a persistent session have the queues that they had.
LEMMA ExactRestore ==
  ASSUME NEW d, Exact(d, NoneHeld)
  PROVE  LET e == Restore(File(d))
         IN  /\ Exact(e, NoneHeld)
             /\ \A c \in Durable(d) : e.ctx[c].msgs = d.ctx[c].msgs /\ e.ctx[c].mid = d.ctx[c].mid
             /\ \A c \in Clients \ Durable(d) : e.ctx[c] = NewContext
             /\ \A c \in Clients : e.ctx[c].sock = FALSE
             /\ e.subs = SubsWrite(d)
             /\ Lasting(e) = Lasting(d)
<1> DEFINE file == File(d)
           read == Read(file)
           queues == RestoredQueues(read, file.clients)
           subs == RestoredSubs(queues, file.subs)
<1>1. Restore(file) = RestoredRetain(subs, file.kept)
  BY DEF Restore, Read
<1>2. Exact(read, NoneHeld) /\ AsSaved(d, read) /\ \A c \in Clients : read.ctx[c].msgs = <<>>
  BY ExactRead
<1>3. /\ file.clients = ClientWrite(d) /\ file.subs = SubsWrite(d) /\ file.kept = KeptMessages(d)
  BY DEF File
<1> HIDE DEF file, read
<1>4. /\ DOMAIN file.clients = Durable(d) /\ DOMAIN file.clients \subseteq Clients
      /\ \A c \in DOMAIN file.clients : file.clients[c].msgs = d.ctx[c].msgs
  BY <1>3 DEF ClientWrite, ClientMessagesWrite, Durable
<1>5. \A c \in DOMAIN file.clients : QueueOf(d, file.clients[c].msgs)
  <2> TAKE c \in DOMAIN file.clients
  <2>1. d.ctx[c].msgs \in Seq(Msg)
    BY <1>4 DEF Exact, Types, Context
  <2>2. c \in Clients /\ file.clients[c].msgs = d.ctx[c].msgs
    BY <1>4
  <2> QED BY <2>1, <2>2 DEF Exact, NothingDangles, IncomingIsStored, QueueOf
<1>6. /\ Exact(queues, NoneHeld) /\ AsSaved(d, queues)
      /\ \A c \in Durable(d) : queues.ctx[c].msgs = d.ctx[c].msgs
  <2> DEFINE clients == file.clients
  <2>1. DOMAIN clients = Durable(d) /\ \A c \in DOMAIN clients : QueueOf(d, clients[c].msgs)
    BY <1>4, <1>5
  <2>2. \A c \in Durable(d) : clients[c].msgs = d.ctx[c].msgs
    BY <1>4
  <2> HIDE DEF clients
  <2> DEFINE read2 == RestoredQueues(read, clients)
  <2>3. /\ Exact(read2, NoneHeld) /\ AsSaved(d, read2)
        /\ \A c \in Durable(d) : read2.ctx[c].msgs = clients[c].msgs
    BY ONLY <1>2, <2>1, ExactRestoredQueues, SMT
  <2>4. read2 = queues
    BY DEF clients
  <2> HIDE DEF read2, queues
  <2> QED BY <2>2, <2>3, <2>4
<1> HIDE DEF queues
<1>7. Exact(subs, NoneHeld) /\ subs.ctx = queues.ctx
  <2>1. file.subs \subseteq Leaf
    BY <1>3 DEF Exact, Types, SubsWrite
  <2>2. Exact([queues EXCEPT !.subs = file.subs], NoneHeld) /\ [queues EXCEPT !.subs = file.subs].ctx = queues.ctx
    BY <1>6, <2>1, ExactSubs
  <2> QED BY <2>2 DEF RestoredSubs
<1>8. subs.store = queues.store /\ subs.kept = queues.kept /\ subs.subs = file.subs
  BY <1>6 DEF RestoredSubs, Exact, Types
<1> HIDE DEF subs
<1>9. DOMAIN subs.store = DOMAIN d.store /\ \A t \in Names : subs.kept[t] = 0
  BY <1>6, <1>8 DEF AsSaved
<1>10. IsFiniteSet(file.kept) /\ file.kept \subseteq DOMAIN d.store
  <2> DEFINE all == {d.kept[t] : t \in Names}
             f == [t \in Names |-> d.kept[t]]
  <2>1. f \in Surjection(Names, all)
    BY DEF Surjection
  <2>2. IsFiniteSet(all)
    BY <2>1, FS_Surjection, BrokerAssumption
  <2>3. file.kept \subseteq all
    BY <1>3 DEF KeptMessages
  <2>4. file.kept \subseteq DOMAIN d.store
    BY <1>3 DEF KeptMessages, Exact, NothingDangles
  <2> HIDE DEF all
  <2> QED BY <2>2, <2>3, <2>4, FS_Subset
<1> DEFINE kept == file.kept
           e == RestoredRetain(subs, kept)
<1>11. /\ Exact(e, NoneHeld) /\ e.ctx = subs.ctx /\ e.subs = subs.subs
       /\ SameContent(subs, e) /\ DOMAIN e.store \subseteq DOMAIN subs.store
       /\ KeptMessages(e) = kept
  <2>1. IsFiniteSet(kept) /\ kept \subseteq DOMAIN subs.store
    BY <1>9, <1>10
  <2>2. OneForEach(d.store, kept)
    <3>1. \A t \in Names : d.kept[t] # 0 => Keepable(d.store[d.kept[t]].m, t)
      BY DEF Exact, KeptAsPublished
    <3>2. \A id \in kept : \E t \in Names : id = d.kept[t] /\ Keepable(d.store[id].m, t)
      BY <1>3, <3>1 DEF KeptMessages
    <3> HIDE DEF kept
    <3> QED BY <3>2 DEF OneForEach, Keepable
  <2>3. OneForEach(subs.store, kept)
    <3>1. \A id \in kept : subs.store[id].m = d.store[id].m
      BY <1>6, <1>8, <1>10 DEF AsSaved
    <3> HIDE DEF kept
    <3> QED BY <2>2, <3>1 DEF OneForEach
  <2> HIDE DEF kept
  <2> QED BY <1>7, <1>9, <2>1, <2>3, ExactRestoredRetain
<1>12. /\ \A id \in DOMAIN e.store : /\ id \in DOMAIN d.store /\ e.store[id].m = d.store[id].m
                                     /\ e.store[id].smid = d.store[id].smid
                                     /\ e.store[id].source = d.store[id].source
       /\ KeptMessages(e) = KeptMessages(d) /\ e.subs = SubsWrite(d)
  <2> HIDE DEF e
  <2>1. \A id \in DOMAIN d.store : /\ subs.store[id].m = d.store[id].m
                                   /\ subs.store[id].smid = d.store[id].smid
                                   /\ subs.store[id].source = d.store[id].source
    BY <1>6, <1>8 DEF AsSaved
  <2> QED BY <1>3, <1>8, <1>9, <1>11, <2>1 DEF SameContent
<1> HIDE DEF e, kept
<1>13. /\ \A c \in Durable(d) : Remembered(d.ctx[c], e.ctx[c])
       /\ \A c \in Clients \ Durable(d) : e.ctx[c] = NewContext
       /\ \A c \in Durable(d) : e.ctx[c].msgs = d.ctx[c].msgs
  BY <1>6, <1>7, <1>11 DEF AsSaved
<1>14. Lasting(e) = Lasting(d)
  BY <1>11, <1>12, <1>13, LastsAsSaved
<1>15. /\ Exact(e, NoneHeld)
       /\ \A c \in Durable(d) : e.ctx[c].msgs = d.ctx[c].msgs /\ e.ctx[c].mid = d.ctx[c].mid
       /\ \A c \in Clients : e.ctx[c].sock = FALSE
  BY <1>6, <1>7, <1>11, <1>13 DEF AsSaved, Remembered
<1>16. e = Restore(File(d))
  BY <1>1 DEF file, e, kept
<1> QED
  BY <1>12, <1>13, <1>15, <1>16, <1>14

\* A round of the loop over the contexts at the end of main
LeftStep(p, d, i) == ContextSendWill(d, p.order[i])
LeftInv(p, i, d) == Exact(d, NoneHeld) /\ KeepsAll(p.start, d)
OfLeft == INSTANCE Passes WITH Step <- LeftStep, Inv <- LeftInv

\* The wills that a broker sends when it ends keep the counts.
LEMMA ExactLeft ==
  ASSUME NEW d, Exact(d, NoneHeld)
  PROVE  Exact(Left(d), NoneHeld) /\ KeepsAll(d, Left(d))
<1> DEFINE order == SetToSeq(Clients)
           p == [order |-> order, start |-> d]
           n == Len(order)
<1>1. Left(d) = OfLeft!Pass(p, d, n)
  BY DEF Left, OfLeft!Pass, LeftStep
<1>2. order \in Seq(Clients) /\ n \in Nat /\ DOMAIN order = 1 .. n
  BY SetToSeqLists, BrokerAssumption
<1>3. LeftInv(p, 0, d)
  BY KeepsAllSame DEF LeftInv
<1>4. ASSUME NEW i \in 1 .. n, NEW e, LeftInv(p, i - 1, e)
      PROVE  LeftInv(p, i, LeftStep(p, e, i))
  <2>1. order[i] \in Clients /\ Exact(e, NoneHeld) /\ KeepsAll(d, e)
    BY <1>2, <1>4 DEF LeftInv
  <2> DEFINE c == order[i]
             f == ContextSendWill(e, c)
  <2> HIDE DEF c
  <2>2. Exact(f, NoneHeld) /\ KeepsAll(e, f)
    BY <2>1, ExactContextSendWill DEF c
  <2>3. LeftStep(p, e, i) = f
    BY DEF LeftStep, c
  <2> HIDE DEF f
  <2>4. KeepsAll(d, f)
    BY <2>1, <2>2, KeepsAllOn
  <2> QED BY <2>2, <2>3, <2>4 DEF LeftInv
<1> HIDE DEF p, n, order
<1>5. LeftInv(p, n, OfLeft!Pass(p, d, n))
  BY <1>2, <1>3, <1>4, OfLeft!PassKeeps
<1> QED
  BY <1>1, <1>5 DEF LeftInv, p

-----------------------------------------------------------------------------
\* A broker without a file counts nothing.
LEMMA ExactEmpty == Exact(EmptyDb, NoneHeld)
<1> DEFINE e == EmptyDb
           kept == [t \in Names |-> 0]
           ctx == [c \in Clients |-> NewContext]
<1>1. /\ e.store = <<>> /\ e.last = 0 /\ e.kept = kept /\ e.subs = {} /\ e.ctx = ctx
      /\ e = [store |-> e.store, last |-> e.last, kept |-> e.kept, subs |-> e.subs, ctx |-> e.ctx, out |-> e.out]
  BY DEF EmptyDb
<1>2. /\ kept \in [Names -> Nat] /\ \A t \in Names : kept[t] = 0
      /\ ctx \in [Clients -> Context] /\ \A c \in Clients : ctx[c] = NewContext
  BY NewContextTypes
<1> HIDE DEF e, kept, ctx
<1>3. DOMAIN e.store = {} /\ e.store \in [DOMAIN e.store -> Stored]
  BY <1>1
<1>4. NoneHeld \in Held /\ \A id \in Nat : NoneHeld[id] = 0
  BY DEF NoneHeld, Held
<1>5. Types(e)
  BY <1>1, <1>2, <1>3 DEF Types
<1>6. \A c \in Clients : DOMAIN e.ctx[c].msgs = {} /\ e.ctx[c].sock = FALSE
  <2>1. NewContext.sock = FALSE /\ DOMAIN NewContext.msgs = {}
    BY NewContextTypes DEF NewContext
  <2> QED BY <1>1, <1>2, <2>1
<1>7. NothingDangles(e, NoneHeld)
  BY <1>1, <1>2, <1>4, <1>6 DEF NothingDangles
<1>8. AllCounted(e, NoneHeld)
  BY <1>3 DEF AllCounted
<1>9. QueuesCounted(e) /\ IncomingIsStored(e) /\ KeptAsPublished(e)
  BY <1>1, <1>2, <1>6 DEF QueuesCounted, IncomingIsStored, KeptAsPublished
<1> QED
  BY <1>4, <1>5, <1>7, <1>8, <1>9 DEF Exact, e

\* What the file has saved
SavedIsExact == disk # <<>> => Exact(saved, NoneHeld) /\ disk = File(saved)

\* A step whose handler keeps the counts keeps the invariant.
LEMMA ExactBecomes ==
  ASSUME BrokerIInv, NEW new, Exact(new, NoneHeld), Becomes(new)
  PROVE  Exact(db', NoneHeld) /\ SavedIsExact' /\ db'.ctx = new.ctx
<1> DEFINE e == [new EXCEPT !.out = [c \in Clients |-> <<>>]]
<1>1. e = [store |-> new.store, last |-> new.last, kept |-> new.kept, subs |-> new.subs,
           ctx |-> new.ctx, out |-> [c \in Clients |-> <<>>]]
  BY DEF Exact, Types
<1>2. db' = e /\ disk' = disk /\ saved' = saved
  BY DEF Becomes
<1> HIDE DEF e
<1>3. e = [store |-> new.store, last |-> new.last, kept |-> new.kept, subs |-> new.subs,
           ctx |-> new.ctx, out |-> e.out]
  BY <1>1
<1>4. Exact(e, NoneHeld)
  BY <1>3, ExactOut
<1>5. e.ctx = new.ctx
  BY <1>3
<1> QED
  BY <1>2, <1>4, <1>5 DEF BrokerIInv, SavedIsExact

\* What a client publishes, or leaves as its will, is a message.
LEMMA MessageTypes ==
  ASSUME BrokerIInv, NEW p \in Publication
  PROVE  Message(p) \in Content
  BY DEF BrokerIInv, Publication, Message, Content

\* The will of a CONNECT packet is a message, or there is none.
LEMMA WillTypes ==
  ASSUME BrokerIInv, NEW p \in Accepted
  PROVE  /\ p.clean \in BOOLEAN
         /\ (IF p.will = <<>> THEN <<>> ELSE <<Message(Head(p.will))>>) \in {<<>>} \cup {<<m>> : m \in Content}
<1>1. p.clean \in BOOLEAN /\ (p.will # <<>> => \E m \in Publication : p.will = <<m>>)
  BY ClientsAssumption DEF Accepted
<1>2. CASE p.will = <<>>
  BY <1>1, <1>2
<1>3. CASE p.will # <<>>
  <2>1. PICK m \in Publication : p.will = <<m>>
    BY <1>1, <1>3
  <2>2. Head(p.will) = m
    BY <2>1
  <2>3. Message(m) \in Content
    BY MessageTypes
  <2> QED BY <1>1, <1>3, <2>2, <2>3
<1> QED
  BY <1>2, <1>3

\* A CONNECT packet keeps the counts.
LEMMA ConnectKeeps ==
  ASSUME BrokerIInv, NEW c \in Clients, Connect(c)
  PROVE  BrokerIInv'
<1>1. PICK p \in Accepted :
        /\ IF p.will = <<>> THEN UNCHANGED body ELSE NewPublication
        /\ Becomes(HandleConnect(db, c, p.clean, IF p.will = <<>> THEN <<>> ELSE <<Message(Head(p.will))>>))
  BY DEF Connect
<1> DEFINE will == IF p.will = <<>> THEN <<>> ELSE <<Message(Head(p.will))>>
<1>2. p.clean \in BOOLEAN /\ will \in {<<>>} \cup {<<m>> : m \in Content}
  BY <1>1, WillTypes
<1> HIDE DEF will
<1>4. Exact(HandleConnect(db, c, p.clean, will), NoneHeld)
  BY <1>2, ExactHandleConnect DEF BrokerIInv
<1>5. Exact(db', NoneHeld) /\ SavedIsExact'
  BY <1>1, <1>4, ExactBecomes DEF will
<1>6. body' \in Nat
  BY <1>1 DEF BrokerIInv, NewPublication
<1> QED
  BY <1>5, <1>6 DEF BrokerIInv, SavedIsExact

\* Each packet of a client that keeps to the protocol keeps the counts.
LEMMA PacketKeeps ==
  ASSUME BrokerIInv, NEW c \in Clients, PacketHandle(c)
  PROVE  BrokerIInv'
<1> DEFINE msgs == db.ctx[c].msgs
<1>1. Exact(db, NoneHeld) /\ body \in Nat
  BY DEF BrokerIInv
<1>2. ASSUME NEW p \in Publications, Publish(c, p)
      PROVE  BrokerIInv'
  <2> DEFINE mid == IF p.qos = 0 THEN 0 ELSE (body % MaxMid) + 1
  <2>1. /\ NewPublication /\ Becomes(HandlePublish(db, c, mid, Message(p)))
        /\ \A k \in DOMAIN msgs : msgs[k].dir = "in" => msgs[k].mid # mid
    BY <1>2 DEF Publish, Incoming, ToSet
  <2>2. mid \in Nat
    <3>1. MaxMid \in Nat /\ MaxMid > 0
      BY BrokerAssumption
    <3> QED BY <1>1, <3>1
  <2>3. Message(p) \in Content
    BY ClientsAssumption, MessageTypes
  <2> HIDE DEF mid
  <2>4. Exact(HandlePublish(db, c, mid, Message(p)), NoneHeld)
    BY <1>1, <2>1, <2>2, <2>3, ExactHandlePublish
  <2>5. Exact(db', NoneHeld) /\ SavedIsExact'
    BY <2>1, <2>4, ExactBecomes
  <2> QED BY <1>1, <2>1, <2>5 DEF BrokerIInv, SavedIsExact, NewPublication
<1>3. ASSUME NEW new, Exact(new, NoneHeld), Becomes(new), body' = body
      PROVE  BrokerIInv'
  <2>1. Exact(db', NoneHeld) /\ SavedIsExact'
    BY <1>3, ExactBecomes
  <2> QED BY <1>1, <1>3, <2>1 DEF BrokerIInv, SavedIsExact
<1>4. ASSUME NEW m \in Incoming(c), PublishAgain(c, m.mid) \/ Pubrel(c, m.mid)
      PROVE  BrokerIInv'
  <2>1. PICK k \in DOMAIN msgs : msgs[k] = m /\ m.dir = "in"
    BY DEF Incoming, ToSet
  <2>2. CASE PublishAgain(c, m.mid)
    <3> DEFINE new == HandlePublish(db, c, m.mid, [qos |-> 2, retain |-> FALSE])
    <3>1. Exact(new, NoneHeld)
      BY <1>1, <2>1, ExactPublishAgain
    <3>2. Becomes(new) /\ body' = body
      BY <2>2 DEF PublishAgain
    <3> HIDE DEF new
    <3> QED BY <1>3, <3>1, <3>2
  <2>3. CASE Pubrel(c, m.mid)
    <3>1. Exact(HandlePubrel(db, c, m.mid), NoneHeld)
      BY <1>1, ExactAnswers
    <3> QED BY <1>3, <2>3, <3>1 DEF Pubrel
  <2> QED BY <1>4, <2>2, <2>3
<1>5. ASSUME NEW mid, Ack(c, mid)
      PROVE  BrokerIInv'
  <2>1. Exact(HandlePubackcomp(db, c, mid), NoneHeld)
    BY <1>1, ExactAnswers
  <2> QED BY <1>3, <1>5, <2>1 DEF Ack
<1>6. ASSUME NEW mid, Pubrec(c, mid)
      PROVE  BrokerIInv'
  <2>1. Exact(HandlePubrec(db, c, mid), NoneHeld)
    BY <1>1, ExactAnswers
  <2> QED BY <1>3, <1>6, <2>1 DEF Pubrec
<1>7. ASSUME NEW topic \in Names, Unsubscribe(c, topic)
      PROVE  BrokerIInv'
  <2>1. Exact(HandleUnsubscribe(db, c, 1, topic), NoneHeld)
    BY <1>1, ExactHandleUnsubscribe
  <2> QED BY <1>3, <1>7, <2>1 DEF Unsubscribe
<1>8. ASSUME NEW topic \in Names, NEW qos \in 1 .. 2, Subscribe(c, topic, qos)
      PROVE  BrokerIInv'
  <2>1. qos \in 0 .. 2
    OBVIOUS
  <2>2. Exact(HandleSubscribe(db, c, 1, topic, qos), NoneHeld)
    BY <1>1, <2>1, ExactHandleSubscribe
  <2> QED BY <1>3, <1>8, <2>2 DEF Subscribe
<1> QED
  BY <1>2, <1>4, <1>5, <1>6, <1>7, <1>8 DEF PacketHandle

\* Every step of the broker keeps the counts and what its file has saved.
LEMMA StepKeeps ==
  ASSUME BrokerIInv, [Next]_brokerVars
  PROVE  BrokerIInv'
<1>1. Exact(db, NoneHeld) /\ body \in Nat /\ SavedIsExact
  BY DEF BrokerIInv, SavedIsExact
<1>2. ASSUME NEW new, Exact(new, NoneHeld), Becomes(new), body' = body
      PROVE  BrokerIInv'
  <2>1. Exact(db', NoneHeld) /\ SavedIsExact'
    BY <1>2, ExactBecomes
  <2> QED BY <1>1, <1>2, <2>1 DEF BrokerIInv, SavedIsExact
<1>3. ASSUME NEW c \in Clients, Connect(c)
      PROVE  BrokerIInv'
  BY <1>3, ConnectKeeps
<1>4. ASSUME NEW c \in Clients, Disconnect(c)
      PROVE  BrokerIInv'
  <2>1. Exact(HandleDisconnect(db, c), NoneHeld)
    BY <1>1, ExactHandleDisconnect
  <2> QED BY <1>2, <1>4, <2>1 DEF Disconnect
<1>5. ASSUME NEW c \in Clients, ConnectionLost(c)
      PROVE  BrokerIInv'
  <2>1. Exact(DoDisconnect(db, c), NoneHeld)
    BY <1>1, ExactDoDisconnect
  <2> QED BY <1>2, <1>5, <2>1 DEF ConnectionLost
<1>6. ASSUME NEW c \in Clients, Expire(c)
      PROVE  BrokerIInv'
  <2>1. Exact(ContextCleanup(db, c), NoneHeld)
    BY <1>1, ExactContextCleanup
  <2> QED BY <1>2, <1>6, <2>1 DEF Expire
<1>7. ASSUME NEW c \in Clients, Write(c)
      PROVE  BrokerIInv'
  <2>1. Exact(MessageWrite(db, c), NoneHeld)
    BY <1>1, ExactMessageWrite
  <2> QED BY <1>2, <1>7, <2>1 DEF Write
<1>8. ASSUME NEW c \in Clients, NEW k \in DOMAIN db.ctx[c].msgs, Retry(c, k)
      PROVE  BrokerIInv'
  <2> DEFINE new == [db EXCEPT !.ctx[c].msgs[k] = TimedOut(@)]
  <2>1. Exact(new, NoneHeld)
    BY <1>1, ExactRetry
  <2>2. Becomes(new) /\ body' = body
    BY <1>8 DEF Retry
  <2> HIDE DEF new
  <2> QED BY <1>2, <2>1, <2>2
<1>9. ASSUME NEW c \in Clients, PacketHandle(c)
      PROVE  BrokerIInv'
  BY <1>9, PacketKeeps
<1>10. CASE Refuse
  BY <1>1, <1>2, <1>10 DEF Refuse
<1>11. CASE Backup
  BY <1>1, <1>11 DEF Backup, BrokerIInv
<1>12. CASE Crash
  <2>1. Exact(db', NoneHeld)
    <3>1. CASE disk = <<>>
      BY <1>12, <3>1, ExactEmpty DEF Crash
    <3>2. CASE disk # <<>>
      <4>1. Exact(saved, NoneHeld) /\ disk = File(saved)
        BY <1>1, <3>2 DEF SavedIsExact
      <4>2. Exact(Restore(File(saved)), NoneHeld)
        BY <4>1, ExactRestore
      <4> QED BY <1>12, <3>2, <4>1, <4>2 DEF Crash
    <3> QED BY <3>1, <3>2
  <2> QED BY <1>1, <1>12, <2>1 DEF Crash, BrokerIInv
<1>13. CASE Stop
  <2>1. Exact(Restore(File(Left(db))), NoneHeld)
    BY <1>1, ExactLeft, ExactRestore
  <2> QED BY <1>1, <1>13, <2>1 DEF Stop, BrokerIInv
<1>14. CASE UNCHANGED brokerVars
  BY <1>14 DEF brokerVars, BrokerIInv, Exact, Types, NothingDangles, AllCounted, QueuesCounted,
                IncomingIsStored, KeptAsPublished, References
<1> QED
  BY <1>3, <1>4, <1>5, <1>6, <1>7, <1>8, <1>9, <1>10, <1>11, <1>12, <1>13, <1>14 DEF Next

\* The types of the broker's store and queues hold in every state; no message is freed that
\* something refers to, each reference is counted, and the file is the state it has saved.
THEOREM BrokerInvariant == Spec => []BrokerIInv
<1>1. Init => BrokerIInv
  BY ExactEmpty DEF Init, BrokerIInv
<1>2. BrokerIInv /\ [Next]_brokerVars => BrokerIInv'
  BY StepKeeps
<1> QED
  BY <1>1, <1>2, PTL DEF Spec

\* Each message is counted as often as queues and topics refer to it, whatever clients,
\* connections, take-overs, retries, crashes and restarts have done (db_msg_store, ref_count).
THEOREM CountsAlwaysExact == Spec => []CountsAreExact
<1>1. BrokerIInv => CountsAreExact
  <2> SUFFICES ASSUME BrokerIInv
               PROVE  CountsAreExact
    OBVIOUS
  <2>1. Exact(db, NoneHeld) /\ \A id \in Nat : NoneHeld[id] = 0
    BY DEF BrokerIInv, NoneHeld
  <2>2. \A c \in Clients : \A m \in ToSet(Queue(c)) : m.id \in DOMAIN db.store
    BY <2>1 DEF Exact, NothingDangles, Queue, ToSet
  <2>3. KeptMessages(db) \subseteq DOMAIN db.store
    BY <2>1 DEF Exact, NothingDangles, KeptMessages
  <2>4. \A id \in DOMAIN db.store : db.store[id].refs = References(db, id)
    <3> TAKE id \in DOMAIN db.store
    <3>1. id \in Nat /\ References(db, id) \in Nat
      BY <2>1, ReferencesNat DEF Exact, Types
    <3>2. db.store[id].refs = References(db, id) + NoneHeld[id]
      BY <2>1 DEF Exact, AllCounted
    <3> QED BY <2>1, <3>1, <3>2
  <2>5. \A c \in Clients : Connected(c) => db.ctx[c].n12 = Count12(Queue(c))
    BY <2>1 DEF Exact, QueuesCounted, Connected, Queue
  <2> QED BY <2>2, <2>3, <2>4, <2>5 DEF CountsAreExact
<1> QED
  BY <1>1, BrokerInvariant, PTL

-----------------------------------------------------------------------------
\* What may take a message from a queue
MayGo(c, m) ==
  \/ m.dir = "out" /\ Ack(c, m.mid)
  \/ m.dir = "in" /\ Pubrel(c, m.mid)
  \/ db.ctx[c].clean /\ ~Connected(c)'
  \/ Expire(c)
  \/ Connect(c) /\ (db.ctx[c].clean \/ db.ctx[c].clean')
  \/ Crash

\* In a step, each message of QoS 1 or 2 stays in its queue, or may go.
MessagesStay(c) ==
  \A k \in DOMAIN db.ctx[c].msgs :
    \/ db.ctx[c].msgs[k].qos = 0
    \/ \E j \in DOMAIN db'.ctx[c].msgs : SameMessage(db.ctx[c].msgs[k], db'.ctx[c].msgs[j])
    \/ MayGo(c, db.ctx[c].msgs[k])

\* A queue that has kept its messages
LEMMA KeptStay ==
  ASSUME NEW c, Keeps(db.ctx[c].msgs, db'.ctx[c].msgs)
  PROVE  MessagesStay(c)
  BY DEF Keeps, MessagesStay

\* A handler in which no client loses a message
LEMMA AllStay ==
  ASSUME NEW new, KeepsAll(db, new), db'.ctx = new.ctx, NEW c \in Clients
  PROVE  MessagesStay(c)
<1>1. Keeps(db.ctx[c].msgs, db'.ctx[c].msgs)
  BY DEF KeepsAll
<1> QED
  BY <1>1, KeptStay

\* A handler in which another client loses nothing
LEMMA OthersStay ==
  ASSUME NEW new, NEW b, KeepsOthers(db, new, b), db'.ctx = new.ctx, NEW c \in Clients \ {b}
  PROVE  MessagesStay(c)
<1>1. Keeps(db.ctx[c].msgs, db'.ctx[c].msgs)
  BY DEF KeepsOthers
<1> QED
  BY <1>1, KeptStay

\* A handler that takes one message, whose answer has come
LEMMA AnsweredStay ==
  ASSUME NEW new, NEW b, NEW mid, NEW dir, KeepsAllBut(db, new, b, mid, dir), db'.ctx = new.ctx,
         \/ dir = "out" /\ Ack(b, mid)
         \/ dir = "in" /\ Pubrel(b, mid),
         NEW c \in Clients
  PROVE  MessagesStay(c)
<1>1. CASE c # b
  <2>1. Keeps(db.ctx[c].msgs, db'.ctx[c].msgs)
    BY <1>1 DEF KeepsAllBut
  <2> QED BY <2>1, KeptStay
<1>2. CASE c = b
  <2>1. KeepsBut(db.ctx[c].msgs, db'.ctx[c].msgs, mid, dir)
    BY <1>2 DEF KeepsAllBut
  <2>2. ASSUME NEW k \in DOMAIN db.ctx[c].msgs,
               db.ctx[c].msgs[k].mid = mid, db.ctx[c].msgs[k].dir = dir
        PROVE  MayGo(c, db.ctx[c].msgs[k])
    BY <1>2, <2>2 DEF MayGo
  <2> QED BY <2>1, <2>2 DEF KeepsBut, MessagesStay
<1> QED
  BY <1>1, <1>2

\* A CONNECT packet takes only the messages of a clean session, the old or the new one.
LEMMA ConnectStays ==
  ASSUME BrokerIInv, NEW b \in Clients, Connect(b), NEW c \in Clients
  PROVE  MessagesStay(c)
<1>1. PICK p \in Accepted :
        Becomes(HandleConnect(db, b, p.clean, IF p.will = <<>> THEN <<>> ELSE <<Message(Head(p.will))>>))
  BY DEF Connect
<1> DEFINE will == IF p.will = <<>> THEN <<>> ELSE <<Message(Head(p.will))>>
           new == HandleConnect(db, b, p.clean, will)
<1>2. p.clean \in BOOLEAN /\ will \in {<<>>} \cup {<<m>> : m \in Content}
  BY <1>1, WillTypes
<1>3. Becomes(new)
  BY <1>1
<1> HIDE DEF will
<1>4. /\ Exact(new, NoneHeld) /\ KeepsOthers(db, new, b) /\ new.ctx[b].clean = p.clean
      /\ db.ctx[b].clean \/ p.clean \/ Keeps(db.ctx[b].msgs, new.ctx[b].msgs)
  BY <1>2, ExactHandleConnect DEF BrokerIInv
<1> HIDE DEF new
<1>5. db'.ctx = new.ctx
  BY <1>3, <1>4, ExactBecomes
<1>6. CASE c # b
  BY <1>4, <1>5, <1>6, OthersStay
<1>7. CASE c = b /\ Keeps(db.ctx[b].msgs, new.ctx[b].msgs)
  BY <1>5, <1>7, KeptStay
<1>8. CASE c = b /\ (db.ctx[b].clean \/ p.clean)
  <2>1. db.ctx[c].clean \/ db.ctx[c].clean'
    BY <1>4, <1>5, <1>8
  <2> QED BY <1>8, <2>1 DEF MayGo, MessagesStay
<1> QED
  BY <1>4, <1>6, <1>7, <1>8

\* The end of a connection takes only the messages of a clean session.
LEMMA DisconnectStays ==
  ASSUME BrokerIInv, NEW b \in Clients, Disconnect(b) \/ ConnectionLost(b), NEW c \in Clients
  PROVE  MessagesStay(c)
<1>1. PICK new :
        /\ Exact(new, NoneHeld) /\ KeepsOthers(db, new, b) /\ new.ctx[b].sock = FALSE
        /\ db.ctx[b].clean \/ Keeps(db.ctx[b].msgs, new.ctx[b].msgs)
        /\ Becomes(new)
  <2>1. Exact(db, NoneHeld)
    BY DEF BrokerIInv
  <2>2. CASE Disconnect(b)
    <3> DEFINE new == HandleDisconnect(db, b)
    <3>1. /\ Exact(new, NoneHeld) /\ KeepsOthers(db, new, b) /\ new.ctx[b].sock = FALSE
          /\ db.ctx[b].clean \/ Keeps(db.ctx[b].msgs, new.ctx[b].msgs)
      BY <2>1, ExactHandleDisconnect
    <3>2. Becomes(new)
      BY <2>2 DEF Disconnect
    <3> HIDE DEF new
    <3> QED BY <3>1, <3>2
  <2>3. CASE ConnectionLost(b)
    <3> DEFINE new == DoDisconnect(db, b)
    <3>1. /\ Exact(new, NoneHeld) /\ KeepsOthers(db, new, b) /\ new.ctx[b].sock = FALSE
          /\ db.ctx[b].clean \/ Keeps(db.ctx[b].msgs, new.ctx[b].msgs)
      BY <2>1, ExactDoDisconnect
    <3>2. Becomes(new)
      BY <2>3 DEF ConnectionLost
    <3> HIDE DEF new
    <3> QED BY <3>1, <3>2
  <2> QED BY <2>2, <2>3
<1>2. db'.ctx = new.ctx
  BY <1>1, ExactBecomes
<1>3. CASE c # b
  BY <1>1, <1>2, <1>3, OthersStay
<1>4. CASE c = b /\ Keeps(db.ctx[b].msgs, new.ctx[b].msgs)
  BY <1>2, <1>4, KeptStay
<1>5. CASE c = b /\ db.ctx[b].clean
  <2>1. ~Connected(c)'
    BY <1>1, <1>2, <1>5 DEF Connected
  <2> QED BY <1>5, <2>1 DEF MayGo, MessagesStay
<1> QED
  BY <1>1, <1>3, <1>4, <1>5

\* An acknowledgement takes the message it is for, and no other packet takes any.
LEMMA PacketStays ==
  ASSUME BrokerIInv, NEW b \in Clients, PacketHandle(b), NEW c \in Clients
  PROVE  MessagesStay(c)
<1>1. Exact(db, NoneHeld) /\ body \in Nat
  BY DEF BrokerIInv
<1>2. ASSUME NEW new, Exact(new, NoneHeld), KeepsAll(db, new), Becomes(new)
      PROVE  MessagesStay(c)
  <2>1. db'.ctx = new.ctx
    BY <1>2, ExactBecomes
  <2> QED BY <1>2, <2>1, AllStay
<1>3. ASSUME NEW p \in Publications, Publish(b, p)
      PROVE  MessagesStay(c)
  <2> DEFINE mid == IF p.qos = 0 THEN 0 ELSE (body % MaxMid) + 1
             new == HandlePublish(db, b, mid, Message(p))
  <2>1. /\ Becomes(new)
        /\ \A k \in DOMAIN db.ctx[b].msgs : db.ctx[b].msgs[k].dir = "in" => db.ctx[b].msgs[k].mid # mid
    BY <1>3 DEF Publish, Incoming, ToSet
  <2>2. mid \in Nat
    <3>1. MaxMid \in Nat /\ MaxMid > 0
      BY BrokerAssumption
    <3> QED BY <1>1, <3>1
  <2>3. Message(p) \in Content
    BY ClientsAssumption, MessageTypes
  <2> HIDE DEF mid
  <2>4. Exact(new, NoneHeld) /\ KeepsAll(db, new)
    BY <1>1, <2>1, <2>2, <2>3, ExactHandlePublish
  <2> HIDE DEF new
  <2> QED BY <1>2, <2>1, <2>4
<1>4. ASSUME NEW m \in Incoming(b), PublishAgain(b, m.mid)
      PROVE  MessagesStay(c)
  <2> DEFINE msgs == db.ctx[b].msgs
             new == HandlePublish(db, b, m.mid, [qos |-> 2, retain |-> FALSE])
  <2>1. PICK k \in DOMAIN msgs : msgs[k] = m /\ m.dir = "in"
    BY DEF Incoming, ToSet
  <2>2. Exact(new, NoneHeld) /\ KeepsAll(db, new)
    BY <1>1, <2>1, ExactPublishAgain
  <2>3. Becomes(new)
    BY <1>4 DEF PublishAgain
  <2> HIDE DEF new
  <2> QED BY <1>2, <2>2, <2>3
<1>5. ASSUME NEW mid, Pubrel(b, mid)
      PROVE  MessagesStay(c)
  <2> DEFINE new == HandlePubrel(db, b, mid)
  <2>1. Exact(new, NoneHeld) /\ KeepsAllBut(db, new, b, mid, "in")
    BY <1>1, ExactAnswers
  <2>2. Becomes(new)
    BY <1>5 DEF Pubrel
  <2> HIDE DEF new
  <2>3. db'.ctx = new.ctx
    BY <2>1, <2>2, ExactBecomes
  <2> QED BY <1>5, <2>1, <2>3, AnsweredStay
<1>6. ASSUME NEW mid, Ack(b, mid)
      PROVE  MessagesStay(c)
  <2> DEFINE new == HandlePubackcomp(db, b, mid)
  <2>1. Exact(new, NoneHeld) /\ KeepsAllBut(db, new, b, mid, "out")
    BY <1>1, ExactAnswers
  <2>2. Becomes(new)
    BY <1>6 DEF Ack
  <2> HIDE DEF new
  <2>3. db'.ctx = new.ctx
    BY <2>1, <2>2, ExactBecomes
  <2> QED BY <1>6, <2>1, <2>3, AnsweredStay
<1>7. ASSUME NEW mid, Pubrec(b, mid)
      PROVE  MessagesStay(c)
  <2> DEFINE new == HandlePubrec(db, b, mid)
  <2>1. Exact(new, NoneHeld) /\ KeepsAll(db, new)
    BY <1>1, ExactAnswers
  <2>2. Becomes(new)
    BY <1>7 DEF Pubrec
  <2> HIDE DEF new
  <2> QED BY <1>2, <2>1, <2>2
<1>8. ASSUME NEW topic \in Names, Unsubscribe(b, topic)
      PROVE  MessagesStay(c)
  <2> DEFINE new == HandleUnsubscribe(db, b, 1, topic)
  <2>1. Exact(new, NoneHeld) /\ KeepsAll(db, new)
    BY <1>1, ExactHandleUnsubscribe
  <2>2. Becomes(new)
    BY <1>8 DEF Unsubscribe
  <2> HIDE DEF new
  <2> QED BY <1>2, <2>1, <2>2
<1>9. ASSUME NEW topic \in Names, NEW qos \in 1 .. 2, Subscribe(b, topic, qos)
      PROVE  MessagesStay(c)
  <2> DEFINE new == HandleSubscribe(db, b, 1, topic, qos)
  <2>1. qos \in 0 .. 2
    OBVIOUS
  <2>2. Exact(new, NoneHeld) /\ KeepsAll(db, new)
    BY <1>1, <2>1, ExactHandleSubscribe
  <2>3. Becomes(new)
    BY <1>9 DEF Subscribe
  <2> HIDE DEF new
  <2> QED BY <1>2, <2>2, <2>3
<1> QED
  BY <1>3, <1>4, <1>5, <1>6, <1>7, <1>8, <1>9 DEF PacketHandle

\* A broker that ends in order and is started again has the queues of all persistent sessions.
LEMMA StopStays ==
  ASSUME BrokerIInv, Stop, NEW c \in Clients
  PROVE  MessagesStay(c)
<1> DEFINE d == Left(db)
           new == Restore(File(d))
<1>1. Exact(d, NoneHeld) /\ KeepsAll(db, d)
  BY ExactLeft DEF BrokerIInv
<1> HIDE DEF d
<1>2. /\ \A x \in Durable(d) : new.ctx[x].msgs = d.ctx[x].msgs
      /\ \A x \in Clients : new.ctx[x].sock = FALSE
  BY <1>1, ExactRestore
<1>3. db' = new
  BY DEF Stop, d
<1> HIDE DEF new
<1>4. CASE c \in Durable(d)
  <2>1. Keeps(db.ctx[c].msgs, d.ctx[c].msgs) /\ db'.ctx[c].msgs = d.ctx[c].msgs
    BY <1>1, <1>2, <1>3, <1>4 DEF KeepsAll
  <2>2. Keeps(db.ctx[c].msgs, db'.ctx[c].msgs)
    BY <2>1
  <2> QED BY <2>2, KeptStay
<1>5. CASE c \notin Durable(d)
  <2>1. d.ctx[c].clean
    <3>1. d.ctx[c] \in Context
      BY <1>1 DEF Exact, Types
    <3> QED BY <1>5, <3>1 DEF Durable, Context
  <2>2. db.ctx[c].clean /\ ~Connected(c)'
    BY <1>1, <1>2, <1>3, <2>1 DEF KeepsAll, SameConnection, Connected
  <2> QED BY <2>2 DEF MayGo, MessagesStay
<1> QED
  BY <1>4, <1>5

\* In no step of the broker does a message go that may not.
LEMMA StepStays ==
  ASSUME BrokerIInv, [Next]_brokerVars, NEW c \in Clients
  PROVE  MessagesStay(c)
<1>1. Exact(db, NoneHeld)
  BY DEF BrokerIInv
<1>2. ASSUME NEW new, Exact(new, NoneHeld), KeepsAll(db, new), Becomes(new)
      PROVE  MessagesStay(c)
  <2>1. db'.ctx = new.ctx
    BY <1>2, ExactBecomes
  <2> QED BY <1>2, <2>1, AllStay
<1>3. ASSUME NEW b \in Clients, Connect(b)
      PROVE  MessagesStay(c)
  BY <1>3, ConnectStays
<1>4. ASSUME NEW b \in Clients, Disconnect(b) \/ ConnectionLost(b)
      PROVE  MessagesStay(c)
  BY <1>4, DisconnectStays
<1>5. ASSUME NEW b \in Clients, Expire(b)
      PROVE  MessagesStay(c)
  <2>1. CASE c = b
    BY <1>5, <2>1 DEF MayGo, MessagesStay
  <2>2. CASE c # b
    <3> DEFINE new == ContextCleanup(db, b)
    <3>1. Exact(new, NoneHeld) /\ new.ctx = [db.ctx EXCEPT ![b] = NewContext]
      BY <1>1, ExactContextCleanup
    <3>2. Becomes(new)
      BY <1>5 DEF Expire
    <3> HIDE DEF new
    <3>3. db'.ctx = new.ctx
      BY <3>1, <3>2, ExactBecomes
    <3>4. db'.ctx[c] = db.ctx[c]
      BY <1>1, <2>2, <3>1, <3>3 DEF Exact, Types
    <3>5. Keeps(db.ctx[c].msgs, db'.ctx[c].msgs)
      BY <3>4, SameKeeps DEF SameMessages
    <3> QED BY <3>5, KeptStay
  <2> QED BY <2>1, <2>2
<1>6. ASSUME NEW b \in Clients, Write(b)
      PROVE  MessagesStay(c)
  <2> DEFINE new == MessageWrite(db, b)
  <2>1. Exact(new, NoneHeld) /\ KeepsAll(db, new)
    BY <1>1, ExactMessageWrite
  <2>2. Becomes(new)
    BY <1>6 DEF Write
  <2> HIDE DEF new
  <2> QED BY <1>2, <2>1, <2>2
<1>7. ASSUME NEW b \in Clients, NEW k \in DOMAIN db.ctx[b].msgs, Retry(b, k)
      PROVE  MessagesStay(c)
  <2> DEFINE new == [db EXCEPT !.ctx[b].msgs[k] = TimedOut(@)]
  <2>1. Exact(new, NoneHeld) /\ KeepsAll(db, new)
    BY <1>1, ExactRetry
  <2>2. Becomes(new)
    BY <1>7 DEF Retry
  <2> HIDE DEF new
  <2> QED BY <1>2, <2>1, <2>2
<1>8. ASSUME NEW b \in Clients, PacketHandle(b)
      PROVE  MessagesStay(c)
  BY <1>8, PacketStays
<1>9. CASE Refuse
  BY <1>1, <1>2, <1>9, KeepsAllSame DEF Refuse
<1>10. CASE Backup \/ UNCHANGED brokerVars
  <2>1. db' = db
    BY <1>10 DEF Backup, brokerVars
  <2>2. Keeps(db.ctx[c].msgs, db'.ctx[c].msgs)
    BY <2>1, SameKeeps DEF SameMessages
  <2> QED BY <2>2, KeptStay
<1>11. CASE Crash
  BY <1>11 DEF MayGo, MessagesStay
<1>12. CASE Stop
  BY <1>12, StopStays
<1> QED
  BY <1>3, <1>4, <1>5, <1>6, <1>7, <1>8, <1>9, <1>10, <1>11, <1>12 DEF Next

\* A message of QoS 1 or 2 leaves the queue of its client only when the client acknowledges it,
\* its session ends or the broker is killed: not by another client's packet, a take-over, a
\* retry, or the orderly end of the broker (mqtt3_db_message_delete, mqtt3_db_messages_delete).
THEOREM QueuesAreKept == Spec => KeptUntilAcknowledged
<1>1. ASSUME BrokerIInv, [Next]_brokerVars, NEW c \in Clients, NEW m \in ToSet(Queue(c))
      PROVE  \/ m.qos = 0
             \/ \E n \in ToSet(Queue(c)') : n.mid = m.mid /\ n.dir = m.dir /\ n.id = m.id
             \/ MayGo(c, m)
  <2>1. PICK k \in DOMAIN db.ctx[c].msgs : m = db.ctx[c].msgs[k]
    BY DEF ToSet, Queue
  <2>2. MessagesStay(c)
    BY <1>1, StepStays
  <2>3. ASSUME NEW j \in DOMAIN db'.ctx[c].msgs, SameMessage(m, db'.ctx[c].msgs[j])
        PROVE  \E n \in ToSet(Queue(c)') : n.mid = m.mid /\ n.dir = m.dir /\ n.id = m.id
    BY <2>3 DEF SameMessage, ToSet, Queue
  <2> QED BY <2>1, <2>2, <2>3 DEF MessagesStay
<1>2. BrokerIInv /\ [Next]_brokerVars =>
        [\A c \in Clients : \A m \in ToSet(Queue(c)) :
           \/ m.qos = 0
           \/ \E n \in ToSet(Queue(c)') : n.mid = m.mid /\ n.dir = m.dir /\ n.id = m.id
           \/ m.dir = "out" /\ Ack(c, m.mid)
           \/ m.dir = "in" /\ Pubrel(c, m.mid)
           \/ db.ctx[c].clean /\ ~Connected(c)'
           \/ Expire(c)
           \/ Connect(c) /\ (db.ctx[c].clean \/ db.ctx[c].clean')
           \/ Crash]_brokerVars
  BY <1>1 DEF MayGo
<1> QED
  BY <1>2, BrokerInvariant, PTL DEF Spec, KeptUntilAcknowledged

-----------------------------------------------------------------------------
\* A broker that is started again, after a kill or in order, has what the last backup has saved, and nothing
\* more: the queues with their states and identifiers, the subscriptions, the last identifiers and the
\* retained messages (mqtt3_db_backup, mqtt3_db_restore).
THEOREM RestartsFromBackup == Spec => RestartIsLastBackup
<1>1. ASSUME BrokerIInv, Crash
      PROVE  Lasting(db') = Lasting(IF disk = <<>> THEN EmptyDb ELSE saved)
  <2>1. CASE disk = <<>>
    BY <1>1, <2>1 DEF Crash
  <2>2. CASE disk # <<>>
    <3>1. Exact(saved, NoneHeld) /\ disk = File(saved)
      BY <1>1, <2>2 DEF BrokerIInv
    <3>2. db' = Restore(File(saved))
      BY <1>1, <2>2, <3>1 DEF Crash
    <3>3. Lasting(Restore(File(saved))) = Lasting(saved)
      BY <3>1, ExactRestore
    <3> QED BY <2>2, <3>2, <3>3
  <2> QED BY <2>1, <2>2
<1>2. ASSUME BrokerIInv, Stop
      PROVE  Lasting(db') = Lasting(Left(db))
  <2> DEFINE d == Left(db)
  <2>1. Exact(d, NoneHeld)
    BY <1>2, ExactLeft DEF BrokerIInv
  <2>2. db' = Restore(File(d))
    BY <1>2 DEF Stop
  <2> HIDE DEF d
  <2>3. Lasting(Restore(File(d))) = Lasting(d)
    BY <2>1, ExactRestore
  <2> QED BY <2>2, <2>3 DEF d
<1>3. BrokerIInv /\ [Next]_brokerVars =>
        [/\ Crash => Lasting(db') = Lasting(IF disk = <<>> THEN EmptyDb ELSE saved)
         /\ Stop => Lasting(db') = Lasting(Left(db))]_brokerVars
  BY <1>1, <1>2
<1> QED
  BY <1>3, BrokerInvariant, PTL DEF Spec, RestartIsLastBackup

-----------------------------------------------------------------------------
(***************************************************************************)
(* The order of the broker's queues, for any number of clients, any limits *)
(* and any order of packets and losses.                                    *)
(*                                                                         *)
(* MidsAreDistinct and SentInOrder are about one queue; what makes them    *)
(* inductive is Ordered, a statement about each queue and the identifier   *)
(* its client was given last: the identifiers of outgoing messages rise    *)
(* along the queue and none is beyond the last one (so a new message has   *)
(* a higher one than all before it), and with one message in flight        *)
(* nothing that was started lies behind something that waits.  A message   *)
(* is queued twice for a client if the client has two leaves that match,   *)
(* so Ordered also says that it has one leaf for each topic.  The same     *)
(* holds of the saved state, from which a restart takes the queues.        *)
(* The types and counts it needs are Exact.                                *)
(***************************************************************************)

\* A message of a queue; last: the identifier that was given last.
Given(m, last) ==
  /\ m.dir = "in" => m.qos = 2
  /\ m.dir = "out" => IF m.qos = 0 THEN m.mid = 0 ELSE m.mid \in 1 .. last
  /\ m.dir = "out" /\ m.dup => m.state # "queued"

\* Two messages of a queue, b behind a
Behind(a, b) ==
  /\ a.dir = "in" /\ b.dir = "in" => a.mid # b.mid
  /\ a.dir = "out" /\ b.dir = "out" /\ a.qos > 0 /\ b.qos > 0 =>
       /\ a.mid < b.mid
       /\ MaxInflight = 1 /\ b.state # "queued" => a.state # "queued"

\* A queue is in order: what holds of each message, and of each two.
InOrder(s, last) ==
  /\ \A k \in DOMAIN s : Given(s[k], last)
  /\ \A i, j \in DOMAIN s : i < j => Behind(s[i], s[j])

\* A client subscribes to a topic once.
OneLeaf(subs) == \A a, b \in subs : a.client = b.client /\ a.topic = b.topic => a = b

\* The invariant: every queue is in order, and a client has one leaf for a topic.
Ordered(d) == (\A c \in Clients : InOrder(d.ctx[c].msgs, d.ctx[c].mid)) /\ OneLeaf(d.subs)

\* Messages go on: none goes back to those that wait, and one that is started has no waiting
\* one ahead of it.
GoesOnAs(m, n) ==
  /\ n.dir = m.dir /\ n.mid = m.mid /\ n.qos = m.qos
  /\ m.state # "queued" => n.state # "queued"
  /\ m.dir = "out" /\ n.dup => m.dup \/ n.state # "queued"

\* A queue whose messages all go on, the first of those that wait before the others.
Advances(s, new) ==
  /\ DOMAIN new = DOMAIN s
  /\ \A k \in DOMAIN s : GoesOnAs(s[k], new[k])
  /\ \A i, j \in DOMAIN s : i < j /\ s[i].dir = "out" /\ s[j].dir = "out" /\ s[j].state = "queued"
                              /\ new[j].state # "queued" => new[i].state # "queued"

-----------------------------------------------------------------------------
\* A queue whose messages go on stays in order.
LEMMA AdvancedInOrder ==
  ASSUME NEW s, NEW last, InOrder(s, last), NEW new, Advances(s, new)
  PROVE  InOrder(new, last)
<1>1. ASSUME NEW k \in DOMAIN new
      PROVE  Given(new[k], last)
  <2>1. Given(s[k], last) /\ GoesOnAs(s[k], new[k])
    BY DEF InOrder, Advances
  <2> QED BY <2>1 DEF Given, GoesOnAs
<1>2. ASSUME NEW i \in DOMAIN new, NEW j \in DOMAIN new, i < j
      PROVE  Behind(new[i], new[j])
  <2>1. Behind(s[i], s[j]) /\ GoesOnAs(s[i], new[i]) /\ GoesOnAs(s[j], new[j])
    BY <1>2 DEF InOrder, Advances
  <2>2. s[i].dir = "out" /\ s[j].dir = "out" /\ s[j].state = "queued" /\ new[j].state # "queued"
          => new[i].state # "queued"
    BY <1>2 DEF Advances
  <2> QED BY <2>1, <2>2 DEF Behind, GoesOnAs
<1> QED
  BY <1>1, <1>2 DEF InOrder

\* What is left of a queue is in order.
LEMMA RemovedInOrder ==
  ASSUME NEW s \in Seq(Msg), NEW last, InOrder(s, last), NEW k \in DOMAIN s
  PROVE  InOrder(RemoveAt(s, k), last)
<1> DEFINE rest == RemoveAt(s, k)
           At(j) == IF j < k THEN j ELSE j + 1
<1>1. DOMAIN rest = 1 .. Len(s) - 1 /\ \A j \in 1 .. Len(s) - 1 : rest[j] = s[At(j)]
  BY RemovedElements
<1>2. \A j \in 1 .. Len(s) - 1 : At(j) \in DOMAIN s
  OBVIOUS
<1>3. \A i, j \in 1 .. Len(s) - 1 : i < j => At(i) < At(j)
  <2>1. k \in Nat
    OBVIOUS
  <2> QED BY <2>1
<1> HIDE DEF rest, At
<1>4. \A j \in DOMAIN rest : Given(rest[j], last)
  BY <1>1, <1>2 DEF InOrder
<1>5. ASSUME NEW i \in DOMAIN rest, NEW j \in DOMAIN rest, i < j
      PROVE  Behind(rest[i], rest[j])
  <2>1. At(i) \in DOMAIN s /\ At(j) \in DOMAIN s /\ At(i) < At(j)
    BY <1>1, <1>2, <1>3, <1>5
  <2>2. Behind(s[At(i)], s[At(j)])
    BY <2>1 DEF InOrder
  <2> QED BY <1>1, <2>2
<1> QED
  BY <1>4, <1>5 DEF InOrder, rest

\* A message at the end that is behind all others
LEMMA AppendedInOrder ==
  ASSUME NEW s \in Seq(Msg), NEW last \in Nat, InOrder(s, last), NEW m \in Msg, NEW next \in Nat, last <= next,
         Given(m, next), \A i \in DOMAIN s : Behind(s[i], m)
  PROVE  InOrder(Append(s, m), next)
<1> DEFINE new == Append(s, m)
           n == Len(s)
<1>1. /\ n \in Nat /\ DOMAIN s = 1 .. n /\ DOMAIN new = 1 .. n + 1
      /\ new[n + 1] = m /\ \A k \in 1 .. n : new[k] = s[k]
  OBVIOUS
<1> HIDE DEF new, n
<1>2. ASSUME NEW k \in DOMAIN new
      PROVE  Given(new[k], next)
  <2>1. CASE k = n + 1
    BY <1>1, <2>1
  <2>2. CASE k # n + 1
    <3>1. k \in 1 .. n
      BY <1>1, <2>2
    <3>2. Given(s[k], last) /\ new[k] = s[k]
      BY <1>1, <3>1 DEF InOrder
    <3>3. \A mid \in 1 .. last : mid \in 1 .. next
      OBVIOUS
    <3> QED BY <3>2, <3>3 DEF Given
  <2> QED BY <2>1, <2>2
<1>3. ASSUME NEW i \in DOMAIN new, NEW j \in DOMAIN new, i < j
      PROVE  Behind(new[i], new[j])
  <2>1. i \in 1 .. n /\ (j \in 1 .. n \/ j = n + 1)
    BY <1>1, <1>3
  <2>2. new[i] = s[i]
    BY <1>1, <2>1
  <2>3. CASE j \in 1 .. n
    BY <1>1, <1>3, <2>1, <2>2, <2>3 DEF InOrder
  <2>4. CASE j = n + 1
    BY <1>1, <2>1, <2>2, <2>4
  <2> QED BY <2>1, <2>3, <2>4
<1> QED
  BY <1>2, <1>3 DEF InOrder, new

\* A queue without messages
LEMMA EmptyInOrder ==
  ASSUME NEW last
  PROVE  InOrder(<<>>, last)
  BY DEF InOrder

\* One queue has changed.
LEMMA OrderedContext ==
  ASSUME NEW d, NEW held, Exact(d, held), Ordered(d), NEW e, OneLeaf(e.subs), NEW c \in Clients, NEW x,
         e.ctx = [d.ctx EXCEPT ![c] = x], InOrder(x.msgs, x.mid)
  PROVE  Ordered(e)
<1>1. DOMAIN d.ctx = Clients
  BY DEF Exact, Types
<1>2. \A b \in Clients : e.ctx[b] = IF b = c THEN x ELSE d.ctx[b]
  BY <1>1
<1> QED
  BY <1>2 DEF Ordered

-----------------------------------------------------------------------------
\* The identifiers that were given last
SameMids(d, e) == \A b \in Clients : e.ctx[b].mid = d.ctx[b].mid

\* One context has changed, in its queue only.
LEMMA OrderedQueue ==
  ASSUME NEW d, NEW held, Exact(d, held), Ordered(d), NEW e, OneLeaf(e.subs), NEW c \in Clients, NEW x,
         e.ctx = [d.ctx EXCEPT ![c] = x], x.mid = d.ctx[c].mid,
         InOrder(d.ctx[c].msgs, d.ctx[c].mid) => InOrder(x.msgs, d.ctx[c].mid)
  PROVE  Ordered(e) /\ SameMids(d, e)
<1>1. DOMAIN d.ctx = Clients
  BY DEF Exact, Types
<1>2. \A b \in Clients : e.ctx[b] = IF b = c THEN x ELSE d.ctx[b]
  BY <1>1
<1>3. SameMids(d, e)
  BY <1>2 DEF SameMids
<1>4. InOrder(x.msgs, x.mid)
  BY DEF Ordered
<1> QED
  BY <1>3, <1>4, OrderedContext

\* A message that is started goes on.
LEMMA StartedGoesOn ==
  ASSUME NEW m \in Msg, NEW incoming, incoming # "queued"
  PROVE  /\ GoesOnAs(m, Started(m, incoming))
         /\ m.dir = "out" => Started(m, incoming).state # "queued"
<1> DEFINE With(state) == [m EXCEPT !.state = state]
<1>1. PublishState[m.qos] # "queued"
  <2>1. m.qos \in {0, 1, 2}
    BY DEF Msg
  <2> QED BY <2>1 DEF PublishState
<1>2. \A state : /\ With(state).dir = m.dir /\ With(state).mid = m.mid /\ With(state).qos = m.qos
                 /\ With(state).dup = m.dup /\ With(state).state = state
  BY DEF Msg
<1>3. GoesOnAs(m, m)
  BY DEF GoesOnAs
<1>4. \A state : state # "queued" => GoesOnAs(m, With(state))
  <2> HIDE DEF With
  <2> QED BY <1>2 DEF GoesOnAs
<1>5. \/ Started(m, incoming) = m /\ (m.dir = "out" => m.state # "queued")
      \/ Started(m, incoming) = With(PublishState[m.qos])
      \/ Started(m, incoming) = With(incoming)
  BY DEF Started
<1> HIDE DEF With
<1> QED
  BY <1>1, <1>2, <1>3, <1>4, <1>5

\* What does not change goes on.
LEMMA SameGoesOn ==
  ASSUME NEW m
  PROVE  GoesOnAs(m, m)
  BY DEF GoesOnAs

\* Starting the first messages of a queue
LEMMA OrderedStartFirst ==
  ASSUME NEW d, NEW held, Exact(d, held), Ordered(d), NEW c \in Clients, NEW n \in Nat
  PROVE  LET e == StartFirst(d, c, n)
         IN  Ordered(e) /\ SameMids(d, e) /\ e.subs = d.subs
<1> DEFINE e == StartFirst(d, c, n)
           msgs == d.ctx[c].msgs
           new == [j \in DOMAIN msgs |-> IF j <= n THEN Started(msgs[j], "wait_for_pubrel") ELSE msgs[j]]
           x == [d.ctx[c] EXCEPT !.msgs = new]
<1>1. d.ctx \in [Clients -> Context] /\ d.ctx[c] \in Context /\ msgs \in Seq(Msg)
  BY DEF Exact, Types, Context
<1>2. e.ctx = [d.ctx EXCEPT ![c] = x] /\ e.subs = d.subs
  BY DEF Exact, Types, StartFirst
<1>3. \A j \in DOMAIN msgs : j \in Nat /\ msgs[j] \in Msg
  BY <1>1
<1>4. x.msgs = new /\ x.mid = d.ctx[c].mid
  BY <1>1 DEF Context
<1>5. Advances(msgs, new)
  <2> HIDE DEF msgs
  <2>1. DOMAIN new = DOMAIN msgs
    OBVIOUS
  <2>2. ASSUME NEW j \in DOMAIN msgs
        PROVE  /\ GoesOnAs(msgs[j], new[j])
               /\ new[j] = msgs[j] \/ j <= n
               /\ j <= n /\ msgs[j].dir = "out" => new[j].state # "queued"
    <3>1. new[j] = IF j <= n THEN Started(msgs[j], "wait_for_pubrel") ELSE msgs[j]
      OBVIOUS
    <3> QED BY <1>3, <3>1, StartedGoesOn, SameGoesOn
  <2> HIDE DEF new
  <2>3. ASSUME NEW i \in DOMAIN msgs, NEW j \in DOMAIN msgs, i < j, msgs[i].dir = "out",
               msgs[j].state = "queued", new[j].state # "queued"
        PROVE  new[i].state # "queued"
    <3>1. j <= n
      BY <2>2, <2>3
    <3>2. i <= n
      BY <1>3, <2>3, <3>1
    <3> QED BY <2>2, <2>3, <3>2
  <2> QED BY <2>1, <2>2, <2>3 DEF Advances
<1>6. InOrder(msgs, d.ctx[c].mid) => InOrder(x.msgs, d.ctx[c].mid)
  <2> HIDE DEF msgs, new
  <2> QED BY <1>4, <1>5, AdvancedInOrder
<1> HIDE DEF e, x, new
<1>7. Ordered(e) /\ SameMids(d, e)
  <2>1. OneLeaf(e.subs)
    BY <1>2 DEF Ordered
  <2> QED BY <1>2, <1>4, <1>6, <2>1, OrderedQueue
<1> QED
  BY <1>2, <1>7 DEF e

\* A message leaves a queue, and those that are now at the head are started.
LEMMA OrderedMessageRemove ==
  ASSUME NEW d, NEW held, Exact(d, held), Ordered(d), NEW c \in Clients, NEW k \in DOMAIN d.ctx[c].msgs
  PROVE  LET e == MessageRemove(d, c, k)
         IN  Ordered(e) /\ SameMids(d, e) /\ e.subs = d.subs
<1> DEFINE msgs == d.ctx[c].msgs
           rest == RemoveAt(msgs, k)
           AtHead(j) == MaxInflight > 0 /\ \A i \in 1 .. j : rest[i].state = "queued"
           new == [j \in DOMAIN rest |-> IF AtHead(j) THEN Started(rest[j], "send_pubrec") ELSE rest[j]]
           count == IF msgs[k].qos > 0 THEN d.ctx[c].n12 - 1 ELSE d.ctx[c].n12
           x == [d.ctx[c] EXCEPT !.msgs = new, !.n12 = count]
           e == MessageRemove(d, c, k)
<1>1. /\ d.ctx \in [Clients -> Context] /\ d.ctx[c] \in Context /\ msgs \in Seq(Msg) /\ k \in DOMAIN msgs
      /\ d = [store |-> d.store, last |-> d.last, kept |-> d.kept, subs |-> d.subs, ctx |-> d.ctx, out |-> d.out]
  BY DEF Exact, Types, Context
<1>2. e.ctx = [d.ctx EXCEPT ![c] = x] /\ e.subs = d.subs
  <2> DEFINE id == msgs[k].id
  <2>1. Deref(d, id) = [store |-> Deref(d, id).store, last |-> d.last, kept |-> d.kept, subs |-> d.subs,
                        ctx |-> d.ctx, out |-> d.out]
    BY <1>1, DerefFields
  <2>2. e = [Deref(d, id) EXCEPT !.ctx[c] = x]
    BY DEF MessageRemove
  <2> HIDE DEF x, id, e
  <2> QED BY <2>1, <2>2
<1>3. x.msgs = new /\ x.mid = d.ctx[c].mid
  <2> HIDE DEF new, count
  <2> QED BY <1>1 DEF Context
<1>4. rest \in Seq(Msg) /\ \A j \in DOMAIN rest : j \in Nat /\ rest[j] \in Msg
  <2>1. rest \in Seq(Msg)
    BY <1>1, RemovedElements
  <2> HIDE DEF rest
  <2> QED BY <2>1
<1>5. Advances(rest, new)
  <2> HIDE DEF rest
  <2>1. DOMAIN new = DOMAIN rest
    OBVIOUS
  <2>2. ASSUME NEW j \in DOMAIN rest
        PROVE  /\ GoesOnAs(rest[j], new[j])
               /\ new[j] = rest[j] \/ AtHead(j)
               /\ AtHead(j) /\ rest[j].dir = "out" => new[j].state # "queued"
    <3>1. new[j] = IF AtHead(j) THEN Started(rest[j], "send_pubrec") ELSE rest[j]
      OBVIOUS
    <3> HIDE DEF AtHead, new
    <3> QED BY <1>4, <3>1, StartedGoesOn, SameGoesOn
  <2> HIDE DEF new
  <2>3. ASSUME NEW i \in DOMAIN rest, NEW j \in DOMAIN rest, i < j, rest[i].dir = "out",
               rest[j].state = "queued", new[j].state # "queued"
        PROVE  new[i].state # "queued"
    <3>1. AtHead(j)
      BY <2>2, <2>3
    <3>2. AtHead(i)
      BY <1>4, <2>3, <3>1
    <3> QED BY <2>2, <2>3, <3>2
  <2> QED BY <2>1, <2>2, <2>3 DEF Advances
<1>6. InOrder(msgs, d.ctx[c].mid) => InOrder(x.msgs, d.ctx[c].mid)
  <2>1. InOrder(msgs, d.ctx[c].mid) => InOrder(rest, d.ctx[c].mid)
    <3> HIDE DEF msgs
    <3> QED BY <1>1, RemovedInOrder
  <2> HIDE DEF rest, new
  <2> QED BY <1>3, <1>5, <2>1, AdvancedInOrder
<1> HIDE DEF e, x
<1>7. Ordered(e) /\ SameMids(d, e)
  <2>1. OneLeaf(e.subs)
    BY <1>2 DEF Ordered
  <2> QED BY <1>2, <1>3, <1>6, <2>1, OrderedQueue
<1> QED
  BY <1>2, <1>7 DEF e

-----------------------------------------------------------------------------
\* Where none of QoS 1 or 2 is counted there is none.
LEMMA NoneCounted ==
  ASSUME NEW s \in Seq(Msg), Count12(s) < 1
  PROVE  \A k \in DOMAIN s : ~(s[k].qos > 0)
<1> DEFINE S == {k \in DOMAIN s : s[k].qos > 0}
<1>1. IsFiniteSet(S) /\ Cardinality(S) \in Nat /\ Cardinality(S) < 1
  BY CountFinite DEF Count12
<1>2. S = {}
  <2> HIDE DEF S
  <2> QED BY <1>1, FS_EmptySet
<1> QED
  BY <1>2

\* A message that may follow those of a queue
Follows(s, dir, qos, mid) ==
  /\ dir = "in" => qos = 2 /\ \A k \in DOMAIN s : s[k].dir = "in" => s[k].mid # mid
  /\ dir = "out" /\ qos > 0 => \A k \in DOMAIN s : s[k].dir = "out" /\ s[k].qos > 0 => s[k].mid < mid

\* It is linked at the end; started only if none of QoS 1 or 2 waits.
LEMMA OrderedLinked ==
  ASSUME NEW d, NEW held, Exact(d, held), Ordered(d), NEW c \in Clients, NEW m \in Msg, NEW fresh \in BOOLEAN,
         Given(m, d.ctx[c].mid), Follows(d.ctx[c].msgs, m.dir, m.qos, m.mid),
         MaxInflight = 1 /\ m.state # "queued" /\ m.qos > 0
           => \A k \in DOMAIN d.ctx[c].msgs : ~(d.ctx[c].msgs[k].qos > 0)
  PROVE  LET e == Linked(d, c, m, fresh)
         IN  Ordered(e) /\ SameMids(d, e) /\ e.subs = d.subs
<1> DEFINE msgs == d.ctx[c].msgs
           new == Append(msgs, m)
           count == IF m.qos > 0 THEN d.ctx[c].n12 + 1 ELSE d.ctx[c].n12
           x == [d.ctx[c] EXCEPT !.msgs = new, !.n12 = count]
           e == Linked(d, c, m, fresh)
<1>1. /\ d.ctx \in [Clients -> Context] /\ d.ctx[c] \in Context /\ msgs \in Seq(Msg)
      /\ d.ctx[c].mid \in Nat
      /\ d = [store |-> d.store, last |-> d.last, kept |-> d.kept, subs |-> d.subs, ctx |-> d.ctx, out |-> d.out]
  BY DEF Exact, Types, Context
<1>2. e.ctx = [d.ctx EXCEPT ![c] = x] /\ e.subs = d.subs
  <2> DEFINE r == Ref(d, m.id)
             dests == IF fresh THEN d.store[m.id].dests \cup {c} ELSE d.store[m.id].dests
  <2>1. r = [store |-> r.store, last |-> d.last, kept |-> d.kept, subs |-> d.subs, ctx |-> d.ctx, out |-> d.out]
    BY <1>1 DEF Ref
  <2>2. e = [r EXCEPT !.ctx[c] = x, !.store[m.id].dests = dests]
    BY DEF Linked
  <2> HIDE DEF r, x, dests, e
  <2> QED BY <2>1, <2>2
<1>3. x.msgs = new /\ x.mid = d.ctx[c].mid
  <2> HIDE DEF new, count
  <2> QED BY <1>1 DEF Context
<1>4. InOrder(msgs, d.ctx[c].mid) => InOrder(x.msgs, d.ctx[c].mid)
  <2>1. \A i \in DOMAIN msgs : Behind(msgs[i], m)
    BY DEF Follows, Behind
  <2> HIDE DEF msgs
  <2> QED BY <1>1, <1>3, <2>1, AppendedInOrder
<1> HIDE DEF e, x
<1>5. Ordered(e) /\ SameMids(d, e)
  <2>1. OneLeaf(e.subs)
    BY <1>2 DEF Ordered
  <2> QED BY <1>2, <1>3, <1>4, <2>1, OrderedQueue
<1> QED
  BY <1>2, <1>5 DEF e

\* What changes nothing
LEMMA OrderedSame ==
  ASSUME NEW d, NEW e, Ordered(d), e.ctx = d.ctx, e.subs = d.subs
  PROVE  Ordered(e) /\ SameMids(d, e)
  BY DEF Ordered, SameMids

\* Appending the message to a queue, or dropping it
LEMMA OrderedInsert ==
  ASSUME NEW d, NEW held, Exact(d, held), Ordered(d), NEW c \in Clients, NEW mid \in Nat, NEW dir \in {"in", "out"},
         NEW qos \in 0 .. 2, NEW retain \in BOOLEAN, NEW id \in DOMAIN d.store,
         dir = "out" => (qos = 0 => mid = 0) /\ (qos # 0 => mid \in 1 .. d.ctx[c].mid),
         Follows(d.ctx[c].msgs, dir, qos, mid)
  PROVE  LET e == Insert(d, c, mid, dir, qos, retain, id).db
         IN  Ordered(e) /\ SameMids(d, e) /\ e.subs = d.subs
<1> DEFINE fresh == dir = "out" /\ ~retain
           M(state) == [mid |-> mid, dir |-> dir, state |-> state, qos |-> qos,
                        dup |-> FALSE, retain |-> retain, id |-> id]
           L(state) == Linked(d, c, M(state), fresh)
           msgs == d.ctx[c].msgs
           room == d.ctx[c].sock /\ (qos = 0 \/ MaxInflight = 0 \/ d.ctx[c].n12 < MaxInflight)
           e == Insert(d, c, mid, dir, qos, retain, id).db
<1>1. e = d \/ \E state \in States : e = L(state) /\ (qos > 0 => state \in Staying) /\ (state # "queued" => room)
  <2>1. /\ PublishState[qos] \in States /\ (qos > 0 => PublishState[qos] \in Staying)
        /\ "queued" \in States /\ "queued" \in Staying
        /\ "wait_for_pubrel" \in States /\ "wait_for_pubrel" \in Staying
    BY PublishStates DEF States, Staying
  <2>2. e = d \/ e = L("queued") \/ (room /\ (e = L("wait_for_pubrel") \/ e = L(PublishState[qos])))
    BY DEF Insert
  <2> HIDE DEF e, L, room
  <2> QED BY <2>1, <2>2
<1>2. Ordered(d) /\ SameMids(d, d)
  BY DEF SameMids
<1>3. ASSUME NEW state \in States, qos > 0 => state \in Staying, state # "queued" => room
      PROVE  Ordered(L(state)) /\ SameMids(d, L(state)) /\ L(state).subs = d.subs
  <2>1. id \in Nat
    BY DEF Exact, Types
  <2>2. /\ M(state) \in Msg /\ fresh \in BOOLEAN
        /\ M(state).dir = dir /\ M(state).mid = mid /\ M(state).qos = qos /\ M(state).state = state
        /\ M(state).dup = FALSE
    BY <1>3, <2>1 DEF Msg
  <2>3. ASSUME MaxInflight = 1, state # "queued", qos > 0
        PROVE  \A k \in DOMAIN msgs : ~(msgs[k].qos > 0)
    <3>1. d.ctx[c].sock /\ d.ctx[c].n12 < 1
      BY <1>3, <2>3
    <3>2. Count12(msgs) < 1
      BY <3>1 DEF Exact, QueuesCounted
    <3>3. msgs \in Seq(Msg)
      BY DEF Exact, Types, Context
    <3> HIDE DEF msgs
    <3> QED BY <3>2, <3>3, NoneCounted
  <2> HIDE DEF M, fresh
  <2>4. Given(M(state), d.ctx[c].mid) /\ Follows(msgs, M(state).dir, M(state).qos, M(state).mid)
    BY <2>2 DEF Given, Follows
  <2> QED BY <2>2, <2>3, <2>4, OrderedLinked
<1> HIDE DEF L, e, room
<1> QED
  BY <1>1, <1>2, <1>3 DEF e

\* The context c has given one more identifier, and the others none.
OneMid(d, e, c) ==
  /\ \A b \in Clients \ {c} : e.ctx[b].mid = d.ctx[b].mid
  /\ e.ctx[c].mid \in {d.ctx[c].mid, d.ctx[c].mid + 1}

\* The message for one receiver, which has an identifier left
LEMMA OrderedInsertOut ==
  ASSUME NEW d, NEW held, Exact(d, held), Ordered(d), NEW c \in Clients, d.ctx[c].mid < MaxMid,
         NEW qos \in 0 .. 2, NEW retain \in BOOLEAN, NEW id \in DOMAIN d.store
  PROVE  LET e == InsertOut(d, c, qos, retain, id)
         IN  Ordered(e) /\ OneMid(d, e, c) /\ e.subs = d.subs
<1> DEFINE mid == IF qos > 0 THEN MidGenerate(d.ctx[c].mid) ELSE 0
           counted == IF qos > 0 THEN [d EXCEPT !.ctx[c].mid = mid] ELSE d
           msgs == d.ctx[c].msgs
           e == Insert(counted, c, mid, "out", qos, retain, id).db
<1>1. InsertOut(d, c, qos, retain, id) = e
  BY DEF InsertOut
<1>2. d.ctx \in [Clients -> Context] /\ d.ctx[c] \in Context /\ msgs \in Seq(Msg) /\ d.ctx[c].mid \in Nat
  BY DEF Exact, Types, Context
<1>3. mid = IF qos > 0 THEN d.ctx[c].mid + 1 ELSE 0
  BY <1>2 DEF MidGenerate
<1>4. mid \in Nat
  BY <1>2, <1>3
<1> HIDE DEF mid
<1>5. /\ Exact(counted, held) /\ Ordered(counted) /\ counted.store = d.store /\ counted.subs = d.subs
      /\ counted.ctx[c].msgs = msgs
      /\ counted.ctx[c].mid = (IF qos > 0 THEN mid ELSE d.ctx[c].mid)
      /\ \A b \in Clients \ {c} : counted.ctx[b].mid = d.ctx[b].mid
  <2>1. CASE qos > 0
    <3> DEFINE x == [d.ctx[c] EXCEPT !.mid = mid]
    <3>1. x \in Context /\ x.msgs = msgs /\ x.mid = mid /\ x.sock = d.ctx[c].sock /\ x.n12 = d.ctx[c].n12
      BY <1>2, <1>4 DEF Context
    <3>2. counted = [store |-> d.store, last |-> d.last, kept |-> d.kept, subs |-> d.subs,
                     ctx |-> [d.ctx EXCEPT ![c] = x], out |-> d.out]
      BY <2>1 DEF Exact, Types
    <3> HIDE DEF counted, x
    <3>3. /\ OnlyContexts(d, counted) /\ counted.ctx = [d.ctx EXCEPT ![c] = x] /\ counted.store = d.store
          /\ counted.subs = d.subs
      BY <3>2 DEF OnlyContexts
    <3>4. counted.ctx[c] = x /\ \A b \in Clients \ {c} : counted.ctx[b] = d.ctx[b]
      BY <1>2, <3>3
    <3>5. Exact(counted, held)
      <4>1. SameMessages(d.ctx[c].msgs, x.msgs) /\ CountGoesOn(d.ctx[c], x)
        BY <3>1 DEF SameMessages, CountGoesOn
      <4> QED BY <3>1, <3>3, <4>1, ExactContext
    <3>6. InOrder(x.msgs, x.mid)
      <4>1. InOrder(msgs, d.ctx[c].mid)
        BY DEF Ordered
      <4>2. \A k \in 1 .. d.ctx[c].mid : k \in 1 .. mid
        BY <1>2, <1>3, <2>1
      <4> QED BY <3>1, <4>1, <4>2 DEF InOrder, Given
    <3>7. Ordered(counted)
      <4>1. OneLeaf(counted.subs)
        BY <3>3 DEF Ordered
      <4> QED BY <3>3, <3>6, <4>1, OrderedContext
    <3> QED BY <2>1, <3>1, <3>3, <3>4, <3>5, <3>7
  <2>2. CASE ~(qos > 0)
    BY <2>2
  <2> QED BY <2>1, <2>2
<1> HIDE DEF counted, e
<1>6. Ordered(e) /\ SameMids(counted, e) /\ e.subs = counted.subs
  <2>2. \A k \in DOMAIN msgs : msgs[k].dir = "out" /\ msgs[k].qos > 0 => msgs[k].mid \in 1 .. d.ctx[c].mid
    <3>1. \A k \in DOMAIN msgs : Given(msgs[k], d.ctx[c].mid)
      BY DEF Ordered, InOrder
    <3> QED BY <3>1 DEF Given
  <2>3. Follows(counted.ctx[c].msgs, "out", qos, mid)
    <3>1. qos > 0 => \A k \in DOMAIN msgs : msgs[k].dir = "out" /\ msgs[k].qos > 0 => msgs[k].mid < mid
      BY <1>2, <1>3, <2>2
    <3> QED BY <1>5, <3>1 DEF Follows
  <2>4. (qos = 0 => mid = 0) /\ (qos # 0 => mid \in 1 .. counted.ctx[c].mid)
    BY <1>2, <1>3, <1>5
  <2>5. id \in DOMAIN counted.store /\ "out" \in {"in", "out"}
    BY <1>5
  <2> QED BY <1>4, <1>5, <2>3, <2>4, <2>5, OrderedInsert DEF e
<1>7. OneMid(d, e, c)
  BY <1>2, <1>3, <1>5, <1>6 DEF SameMids, OneMid
<1> QED
  BY <1>1, <1>5, <1>6, <1>7

-----------------------------------------------------------------------------
\* No client has been given the last identifier.
OneLeft(d) == \A b \in Clients : d.ctx[b].mid < MaxMid
\* Between d and e each client has been given at most one.
Gave(d, e) == \A b \in Clients : e.ctx[b].mid \in {d.ctx[b].mid, d.ctx[b].mid + 1}

\* A round of _subs_process: the receivers of those that follow have been given no identifier.
OrderedSubsInv(p, i, d) ==
  /\ SubsInv(p, i, d) /\ Ordered(d) /\ Gave(p.start, d)
  /\ \A j \in i + 1 .. Len(p.leaves) :
       d.ctx[p.leaves[j].client].mid = p.start.ctx[p.leaves[j].client].mid
\* The loop over the leaves that match.
OfOrderedSubs == INSTANCE Passes WITH Step <- SubsStep, Inv <- OrderedSubsInv

\* The message for all receivers of a list in which each is once
LEMMA OrderedSubsProcess ==
  ASSUME NEW d, NEW held, Exact(d, held), Ordered(d), OneLeft(d), NEW id \in DOMAIN d.store, NEW qos \in 0 .. 2,
         NEW leaves \in Seq(Leaf),
         \A i, j \in 1 .. Len(leaves) : leaves[i].client = leaves[j].client => i = j
  PROVE  LET e == SubsProcess(d, id, qos, leaves)
         IN  Ordered(e) /\ Gave(d, e) /\ e.subs = d.subs
<1> DEFINE p == [leaves |-> leaves, qos |-> qos, id |-> id, held |-> held, start |-> d]
           n == Len(leaves)
<1>1. SubsProcess(d, id, qos, leaves) = OfOrderedSubs!Pass(p, d, n)
  BY DEF SubsProcess, OfOrderedSubs!Pass, SubsStep
<1>2. n \in Nat /\ OrderedSubsInv(p, 0, d)
  <2>1. SubsInv(p, 0, d)
    BY GrowsReflexive DEF SubsInv
  <2> QED BY <2>1 DEF OrderedSubsInv, Gave
<1>3. ASSUME NEW i \in 1 .. n, NEW e, OrderedSubsInv(p, i - 1, e)
      PROVE  OrderedSubsInv(p, i, SubsStep(p, e, i))
  <2> DEFINE c == leaves[i].client
             lower == Lower(qos, leaves[i].qos)
             new == InsertOut(e, c, lower, FALSE, id)
  <2>1. Exact(e, held) /\ Grows(d, e) /\ id \in DOMAIN e.store /\ Ordered(e) /\ Gave(d, e)
    BY <1>3 DEF OrderedSubsInv, SubsInv, Grows
  <2>2. c \in Clients /\ lower \in 0 .. 2
    <3>1. leaves[i] \in Leaf
      OBVIOUS
    <3> QED BY <3>1 DEF Leaf, Lower
  <2>3. /\ e.ctx[c].mid = d.ctx[c].mid
        /\ \A j \in i + 1 .. n : /\ e.ctx[leaves[j].client].mid = d.ctx[leaves[j].client].mid
                                 /\ leaves[j].client \in Clients \ {c}
    <3>1. \A j \in i .. n : e.ctx[leaves[j].client].mid = d.ctx[leaves[j].client].mid
      BY <1>3 DEF OrderedSubsInv
    <3>2. \A j \in i + 1 .. n : leaves[j] \in Leaf /\ leaves[j].client # leaves[i].client
      OBVIOUS
    <3>3. i \in i .. n /\ \A j \in i + 1 .. n : j \in i .. n
      OBVIOUS
    <3> HIDE DEF n
    <3> QED BY <3>1, <3>2, <3>3 DEF Leaf
  <2>4. SubsStep(p, e, i) = new
    BY DEF SubsStep
  <2> HIDE DEF lower, c
  <2>5. /\ Exact(new, held) /\ Grows(e, new) /\ Ordered(new) /\ OneMid(e, new, c)
    <3>1. e.ctx[c].mid < MaxMid
      BY <2>2, <2>3 DEF OneLeft
    <3> QED BY <2>1, <2>2, <3>1, ExactInsertOut, OrderedInsertOut
  <2> HIDE DEF new
  <2>6. SubsInv(p, i, new)
    <3>1. Grows(d, new)
      BY <2>1, <2>5, GrowsOn
    <3> QED BY <2>5, <3>1 DEF SubsInv
  <2>7. Gave(d, new)
    BY <2>1, <2>2, <2>3, <2>5 DEF Gave, OneMid
  <2>8. \A j \in i + 1 .. n : new.ctx[leaves[j].client].mid = d.ctx[leaves[j].client].mid
    BY <2>3, <2>5 DEF OneMid
  <2> QED BY <2>4, <2>5, <2>6, <2>7, <2>8 DEF OrderedSubsInv
<1> HIDE DEF p, n
<1>4. OrderedSubsInv(p, n, OfOrderedSubs!Pass(p, d, n))
  BY <1>2, <1>3, OfOrderedSubs!PassKeeps
<1> QED
  BY <1>1, <1>4 DEF OrderedSubsInv, SubsInv, Grows, p, n

\* A message is passed on.
LEMMA OrderedMessagesQueue ==
  ASSUME NEW d, NEW held, Exact(d, held), Ordered(d), OneLeft(d), NEW id \in DOMAIN d.store, NEW qos \in 0 .. 2,
         NEW retain \in BOOLEAN, retain => d.store[id].m.retain = TRUE
  PROVE  LET e == MessagesQueue(d, id, qos, retain, d.subs)
         IN  Ordered(e) /\ Gave(d, e) /\ e.subs = d.subs
<1> DEFINE e == MessagesQueue(d, id, qos, retain, d.subs)
           leaves == d.subs
           topic == d.store[id].m.topic
           asked == {leaf \in leaves : leaf.topic = topic}
           order == SetToSeq(asked)
<1>1. leaves \subseteq Leaf /\ OneLeaf(leaves)
  BY DEF Exact, Types, Ordered
<1> HIDE DEF e, topic
<1>2. Passed(d, e, id, retain) /\ Routed(d, e, held, id, qos, leaves)
  <2> HIDE DEF leaves
  <2> QED BY <1>1, ExactMessagesQueue DEF e, leaves
<1>3. PICK kept : /\ Exact(kept, Holding(held, id)) /\ kept.ctx = d.ctx /\ kept.subs = d.subs
                  /\ id \in DOMAIN kept.store
                  /\ e.ctx = SubsProcess(kept, id, qos, order).ctx
  BY <1>2 DEF Routed, topic
<1>4. order \in Seq(Leaf) /\ \A i, j \in 1 .. Len(order) : order[i].client = order[j].client => i = j
  <2>1. asked \in SUBSET Leaf /\ \A a, b \in asked : a.client = b.client => a = b
    BY <1>1 DEF OneLeaf
  <2> HIDE DEF asked
  <2>2. IsFiniteSet(asked)
    BY <2>1, LeafFinite, FS_Subset
  <2>3. order \in Seq(asked) /\ \A i, j \in 1 .. Len(order) : order[i] = order[j] => i = j
    BY <2>2, SetToSeqLists
  <2> HIDE DEF order
  <2>4. \A i \in 1 .. Len(order) : order[i] \in asked
    BY <2>3
  <2> QED BY <2>1, <2>3, <2>4
<1> HIDE DEF asked, order
<1> DEFINE f == SubsProcess(kept, id, qos, order)
<1>5. Ordered(f) /\ Gave(kept, f) /\ f.subs = kept.subs
  <2>1. Ordered(kept) /\ OneLeft(kept)
    BY <1>3, OrderedSame DEF OneLeft
  <2> QED BY <1>3, <1>4, <2>1, OrderedSubsProcess
<1> HIDE DEF f
<1>6. e.ctx = f.ctx /\ e.subs = d.subs
  BY <1>2, <1>3 DEF f, Passed
<1>7. Ordered(e)
  BY <1>3, <1>5, <1>6, OrderedSame
<1>8. Gave(d, e)
  BY <1>3, <1>5, <1>6 DEF Gave
<1> QED
  BY <1>6, <1>7, <1>8 DEF e

\* A message of the broker itself, such as a will
LEMMA OrderedEasyQueue ==
  ASSUME NEW d, NEW held, Exact(d, held), Ordered(d), OneLeft(d), NEW source \in Clients, NEW m \in Content
  PROVE  LET e == EasyQueue(d, source, m)
         IN  Ordered(e) /\ Gave(d, e) /\ e.subs = d.subs
<1> DEFINE stored == MessageStore(d, source, 0, m)
           e == EasyQueue(d, source, m)
<1>1. /\ Exact(stored, held) /\ stored.last \in DOMAIN stored.store /\ stored.ctx = d.ctx /\ stored.subs = d.subs
      /\ stored.store[stored.last].m = m
  BY ExactStored
<1>2. e = MessagesQueue(stored, stored.last, m.qos, m.retain, stored.subs)
  BY <1>1 DEF EasyQueue
<1> HIDE DEF stored, e
<1>3. Ordered(stored) /\ OneLeft(stored)
  BY <1>1, OrderedSame DEF OneLeft
<1>4. Ordered(e) /\ Gave(stored, e) /\ e.subs = stored.subs
  <2> DEFINE qos == m.qos
             retain == m.retain
             id == stored.last
  <2>1. qos \in 0 .. 2 /\ retain \in BOOLEAN /\ id \in DOMAIN stored.store
        /\ (retain => stored.store[id].m.retain = TRUE)
    BY <1>1 DEF Content
  <2>2. e = MessagesQueue(stored, id, qos, retain, stored.subs)
    BY <1>2
  <2> HIDE DEF qos, retain, id
  <2> QED BY <1>1, <1>3, <2>1, <2>2, OrderedMessagesQueue
<1>5. Gave(d, e)
  BY <1>1, <1>4 DEF Gave
<1> QED
  BY <1>1, <1>4, <1>5 DEF e

-----------------------------------------------------------------------------
\* Starting messages of a queue, with what is sent for them
LEMMA OrderedPubrecs ==
  ASSUME NEW d, NEW held, Exact(d, held), Ordered(d), NEW c \in Clients, NEW n \in Nat
  PROVE  LET e == Pubrecs(d, c, n)
         IN  Ordered(e) /\ SameMids(d, e) /\ e.subs = d.subs
<1> DEFINE e == Pubrecs(d, c, n)
           start == StartFirst(d, c, n)
<1>1. e.ctx = start.ctx /\ e.subs = d.subs
  BY ExactPubrecs
<1>2. Ordered(start) /\ SameMids(d, start) /\ start.subs = d.subs
  BY OrderedStartFirst
<1> HIDE DEF e, start
<1> QED
  BY <1>1, <1>2, OrderedSame DEF SameMids, e

\* A PUBREL: the message is passed on and leaves the queue of its publisher.
LEMMA OrderedMessageRelease ==
  ASSUME NEW d, NEW held, Exact(d, held), Ordered(d), OneLeft(d), NEW c \in Clients, NEW mid
  PROVE  Ordered(MessageRelease(d, c, mid))
<1> DEFINE found == Places(d, c, mid, "in")
           k == Min(found)
           first == IF found = {} THEN MaxInflight ELSE Lower(k, MaxInflight)
           before == Pubrecs(d, c, first)
           msg == before.ctx[c].msgs[k]
           routed == MessagesQueue(before, msg.id, d.store[msg.id].m.qos, msg.retain, d.subs)
<1>1. MessageRelease(d, c, mid) =
        IF found = {} THEN before ELSE Pubrecs(MessageRemove(routed, c, k), c, MaxInflight)
  BY DEF MessageRelease
<1>2. found # {} => k \in DOMAIN d.ctx[c].msgs /\ k \in Nat /\ d.ctx[c].msgs[k].dir = "in"
  BY PlaceIsThere
<1>3. first \in Nat
  <2> HIDE DEF k
  <2> QED BY <1>2, Limits DEF Lower
<1> HIDE DEF first, k, found
<1>4. /\ Exact(before, held) /\ before.store = d.store
      /\ \A b \in Clients : SameMessages(d.ctx[b].msgs, before.ctx[b].msgs)
      /\ Ordered(before) /\ SameMids(d, before) /\ before.subs = d.subs
  BY <1>3, ExactPubrecs, OrderedPubrecs
<1> DEFINE after == Pubrecs(MessageRemove(routed, c, k), c, MaxInflight)
<1> HIDE DEF before
<1>5. ASSUME found # {}
      PROVE  Ordered(after)
  <2>1. k \in DOMAIN before.ctx[c].msgs /\ msg.dir = "in"
    BY <1>2, <1>4, <1>5 DEF SameMessages
  <2>2. msg.id \in DOMAIN before.store
    BY <1>4, <2>1 DEF Exact, NothingDangles
  <2>3. d.store[msg.id].m.qos \in 0 .. 2 /\ before.subs \subseteq Leaf
    <3>1. d.store[msg.id] \in Stored
      BY <1>4, <2>2 DEF Exact, Types
    <3> QED BY <1>4, <3>1 DEF Stored, Content, Exact, Types
  <2>4. msg.retain \in BOOLEAN /\ (msg.retain => before.store[msg.id].m.retain = TRUE)
    <3>1. before.ctx[c].msgs \in Seq(Msg)
      BY <1>4 DEF Exact, Types, Context
    <3>2. msg \in Msg
      BY <2>1, <3>1
    <3>3. AsPublished(before.store[msg.id], msg)
      BY <1>4, <2>1 DEF Exact, IncomingIsStored
    <3> QED BY <3>2, <3>3 DEF Msg, AsPublished
  <2>5. /\ Exact(routed, held) /\ Passed(before, routed, msg.id, msg.retain)
        /\ Ordered(routed)
    <3>1. OneLeft(before)
      BY <1>4 DEF OneLeft, SameMids
    <3>2. routed = MessagesQueue(before, msg.id, d.store[msg.id].m.qos, msg.retain, before.subs)
      BY <1>4
    <3> HIDE DEF msg, routed
    <3> QED BY <1>4, <2>2, <2>3, <2>4, <3>1, <3>2, ExactMessagesQueue, OrderedMessagesQueue
  <2>6. k \in DOMAIN routed.ctx[c].msgs
    BY <2>1, <2>5 DEF Passed, Longer
  <2> DEFINE left == MessageRemove(routed, c, k)
  <2> HIDE DEF routed, msg
  <2>7. Exact(left, held) /\ Ordered(left)
    BY <2>5, <2>6, ExactMessageRemove, OrderedMessageRemove
  <2> HIDE DEF left
  <2> QED BY <2>7, Limits, OrderedPubrecs DEF left
<1> HIDE DEF routed, after
<1> QED
  BY <1>1, <1>4, <1>5 DEF after

\* An acknowledgement: the message leaves the queue.
LEMMA OrderedMessageDelete ==
  ASSUME NEW d, NEW held, Exact(d, held), Ordered(d), NEW c \in Clients, NEW mid, NEW dir
  PROVE  Ordered(MessageDelete(d, c, mid, dir))
<1> DEFINE found == Places(d, c, mid, dir)
           k == Min(found)
           first == Lower(k, MaxInflight)
           before == StartFirst(d, c, first)
           left == MessageRemove(before, c, k)
<1>1. MessageDelete(d, c, mid, dir) =
        IF found = {} THEN StartFirst(d, c, MaxInflight) ELSE StartFirst(left, c, MaxInflight)
  BY DEF MessageDelete
<1>2. found # {} => k \in DOMAIN d.ctx[c].msgs /\ k \in Nat
  BY PlaceIsThere
<1> HIDE DEF k, found
<1>3. ASSUME found # {}
      PROVE  Ordered(StartFirst(left, c, MaxInflight))
  <2>1. first \in Nat
    BY <1>2, <1>3, Limits DEF Lower
  <2> HIDE DEF first
  <2>2. Exact(before, held) /\ SameMessages(d.ctx[c].msgs, before.ctx[c].msgs) /\ Ordered(before)
    BY <2>1, ExactStartFirst, OrderedStartFirst
  <2> HIDE DEF before
  <2>3. k \in DOMAIN before.ctx[c].msgs
    BY <1>2, <1>3, <2>2 DEF SameMessages
  <2>4. Exact(left, held) /\ Ordered(left)
    BY <2>2, <2>3, ExactMessageRemove, OrderedMessageRemove
  <2> HIDE DEF left
  <2> QED BY <2>4, Limits, OrderedStartFirst
<1>4. Ordered(StartFirst(d, c, MaxInflight))
  BY Limits, OrderedStartFirst
<1> HIDE DEF left
<1> QED
  BY <1>1, <1>3, <1>4

\* A PUBREC, for a message that has been sent
LEMMA OrderedMessageUpdate ==
  ASSUME NEW d, NEW held, Exact(d, held), Ordered(d), NEW c \in Clients, NEW mid, NEW state, state # "queued",
         NEW sent \in DOMAIN d.ctx[c].msgs,
         d.ctx[c].msgs[sent].mid = mid, d.ctx[c].msgs[sent].dir = "out", d.ctx[c].msgs[sent].qos > 0,
         d.ctx[c].msgs[sent].dup
  PROVE  LET e == MessageUpdate(d, c, mid, state)
         IN  Ordered(e) /\ SameMids(d, e)
<1> DEFINE e == MessageUpdate(d, c, mid, state)
           msgs == d.ctx[c].msgs
           With(m) == [m EXCEPT !.state = state]
           new == [k \in DOMAIN msgs |-> IF k \in Places(d, c, mid, "out") THEN With(msgs[k]) ELSE msgs[k]]
           x == [d.ctx[c] EXCEPT !.msgs = new]
<1>1. d.ctx \in [Clients -> Context] /\ d.ctx[c] \in Context /\ msgs \in Seq(Msg) /\ d.ctx[c].mid \in Nat
  BY DEF Exact, Types, Context
<1>2. e.ctx = [d.ctx EXCEPT ![c] = x] /\ e.subs = d.subs
  BY DEF Exact, Types, MessageUpdate
<1>3. \A k \in DOMAIN msgs : msgs[k].dir = "out" /\ msgs[k].mid = mid => k = sent
  <2>1. InOrder(msgs, d.ctx[c].mid)
    BY DEF Ordered
  <2> DEFINE last == d.ctx[c].mid
  <2>2. last \in Nat
    BY <1>1
  <2> HIDE DEF msgs, last
  <2>3. \A k \in DOMAIN msgs : k \in Nat /\ msgs[k] \in Msg
    BY <1>1
  <2>4. mid \in Nat /\ mid # 0
    <3>1. Given(msgs[sent], last)
      BY <2>1 DEF InOrder, last, msgs
    <3>2. mid \in 1 .. last
      BY <3>1 DEF Given, msgs
    <3> QED BY <2>2, <3>2
  <2>5. ASSUME NEW k \in DOMAIN msgs, msgs[k].dir = "out", msgs[k].mid = mid
        PROVE  msgs[k].qos > 0
    <3>1. Given(msgs[k], last) /\ msgs[k].qos \in 0 .. 2
      BY <2>1, <2>3 DEF InOrder, last, Msg
    <3> QED BY <2>4, <2>5, <3>1 DEF Given
  <2>6. ASSUME NEW i \in DOMAIN msgs, NEW j \in DOMAIN msgs, i < j, msgs[i].dir = "out", msgs[j].dir = "out",
               msgs[i].qos > 0, msgs[j].qos > 0
        PROVE  msgs[i].mid < msgs[j].mid
    BY <2>1, <2>6 DEF InOrder, Behind, last
  <2> TAKE k \in DOMAIN msgs
  <2> HAVE msgs[k].dir = "out" /\ msgs[k].mid = mid
  <2>7. sent \in DOMAIN msgs /\ msgs[sent].dir = "out" /\ msgs[sent].mid = mid /\ msgs[sent].qos > 0
    BY DEF msgs
  <2>8. ~(k < sent) /\ ~(sent < k)
    BY <2>4, <2>5, <2>6, <2>7
  <2> QED BY <2>3, <2>7, <2>8
<1>4. msgs[sent].state # "queued"
  <2>1. Given(msgs[sent], d.ctx[c].mid)
    BY DEF Ordered, InOrder
  <2> QED BY <2>1 DEF Given
<1>5. x.msgs = new /\ x.mid = d.ctx[c].mid
  <2> HIDE DEF new
  <2> QED BY <1>1 DEF Context
<1>6. Advances(msgs, new)
  <2>1. \A k \in Places(d, c, mid, "out") : k = sent
    BY <1>3 DEF Places
  <2>2. \A k \in DOMAIN msgs : msgs[k] \in Msg
    BY <1>1
  <2> HIDE DEF msgs
  <2>3. DOMAIN new = DOMAIN msgs /\ \A k \in DOMAIN msgs \ {sent} : new[k] = msgs[k]
    BY <2>1
  <2>4. new[sent] = msgs[sent] \/ new[sent] = With(msgs[sent])
    BY DEF msgs
  <2> HIDE DEF new
  <2>5. GoesOnAs(msgs[sent], With(msgs[sent]))
    <3>1. msgs[sent] \in Msg
      BY <2>2 DEF msgs
    <3> QED BY <1>4, <3>1 DEF GoesOnAs, Msg
  <2> HIDE DEF With
  <2>6. \A k \in DOMAIN msgs : GoesOnAs(msgs[k], new[k])
    BY <2>3, <2>4, <2>5, SameGoesOn
  <2> QED BY <1>4, <2>3, <2>6 DEF Advances
<1>7. InOrder(msgs, d.ctx[c].mid) => InOrder(x.msgs, d.ctx[c].mid)
  <2> HIDE DEF msgs, new
  <2> QED BY <1>5, <1>6, AdvancedInOrder
<1> HIDE DEF e, x
<1>8. OneLeaf(e.subs)
  BY <1>2 DEF Ordered
<1> QED
  BY <1>2, <1>5, <1>7, <1>8, OrderedQueue DEF e

\* One message of a queue goes on.
LEMMA OrderedMarked ==
  ASSUME NEW d, NEW held, Exact(d, held), Ordered(d), NEW c \in Clients, NEW k \in DOMAIN d.ctx[c].msgs, NEW m,
         GoesOnAs(d.ctx[c].msgs[k], m),
         d.ctx[c].msgs[k].state # "queued" \/ m.state = "queued" \/ m.dir = "in",
         NEW e, e.subs = d.subs,
         e.ctx = [d.ctx EXCEPT ![c] = [d.ctx[c] EXCEPT !.msgs = [d.ctx[c].msgs EXCEPT ![k] = m]]]
  PROVE  Ordered(e) /\ SameMids(d, e)
<1> DEFINE msgs == d.ctx[c].msgs
           new == [msgs EXCEPT ![k] = m]
           x == [d.ctx[c] EXCEPT !.msgs = new]
<1>1. d.ctx \in [Clients -> Context] /\ d.ctx[c] \in Context /\ msgs \in Seq(Msg)
  BY DEF Exact, Types, Context
<1>2. DOMAIN new = DOMAIN msgs /\ new[k] = m /\ \A j \in DOMAIN msgs \ {k} : new[j] = msgs[j]
  <2> HIDE DEF msgs
  <2> QED BY <1>1 DEF msgs
<1> HIDE DEF new
<1>3. x.msgs = new /\ x.mid = d.ctx[c].mid
  BY <1>1 DEF Context
<1>4. Advances(msgs, new)
  <2>1. \A j \in DOMAIN msgs : GoesOnAs(msgs[j], new[j])
    BY <1>2, SameGoesOn
  <2>2. msgs[k].state # "queued" \/ m.state = "queued" \/ msgs[k].dir = "in"
    BY DEF GoesOnAs
  <2> QED BY <1>2, <2>1, <2>2 DEF Advances
<1>5. InOrder(msgs, d.ctx[c].mid) => InOrder(x.msgs, d.ctx[c].mid)
  <2> HIDE DEF msgs
  <2> QED BY <1>3, <1>4, AdvancedInOrder
<1>6. e.ctx = [d.ctx EXCEPT ![c] = x] /\ OneLeaf(e.subs)
  BY DEF Ordered, new
<1> HIDE DEF x
<1> QED
  BY <1>3, <1>5, <1>6, OrderedQueue

\* A message that is tried again
LEMMA OrderedRetry ==
  ASSUME NEW d, NEW held, Exact(d, held), Ordered(d), NEW c \in Clients, NEW k \in DOMAIN d.ctx[c].msgs
  PROVE  Ordered([d EXCEPT !.ctx[c].msgs[k] = TimedOut(@)])
<1> DEFINE msgs == d.ctx[c].msgs
           m == TimedOut(msgs[k])
           e == [d EXCEPT !.ctx[c].msgs[k] = TimedOut(@)]
           again == [wait_for_puback |-> "publish_qos1", wait_for_pubrec |-> "publish_qos2",
                     wait_for_pubrel |-> "send_pubrec", wait_for_pubcomp |-> "resend_pubrel"]
<1>1. d.ctx \in [Clients -> Context] /\ d.ctx[c] \in Context /\ msgs \in Seq(Msg)
  BY DEF Exact, Types, Context
<1>2. GoesOnAs(msgs[k], m) /\ (msgs[k].state # "queued" \/ m.state = "queued")
  <2> DEFINE old == msgs[k]
             new == [old EXCEPT !.state = again[old.state], !.dup = TRUE]
  <2>1. old \in Msg
    BY <1>1
  <2>2. \A s \in DOMAIN again : s # "queued" /\ again[s] # "queued"
    OBVIOUS
  <2>3. m = IF old.state \in DOMAIN again THEN new ELSE old
    BY DEF TimedOut
  <2> HIDE DEF m, again, msgs, old
  <2>4. /\ new.dir = old.dir /\ new.mid = old.mid /\ new.qos = old.qos /\ new.dup = TRUE
        /\ new.state = again[old.state]
    BY <2>1 DEF Msg
  <2> HIDE DEF new
  <2>5. CASE old.state \in DOMAIN again
    BY <2>2, <2>3, <2>4, <2>5 DEF GoesOnAs, old
  <2>6. CASE old.state \notin DOMAIN again
    BY <2>3, <2>6, SameGoesOn DEF old
  <2> QED BY <2>5, <2>6
<1>3. e.subs = d.subs /\ e.ctx = [d.ctx EXCEPT ![c] = [d.ctx[c] EXCEPT !.msgs = [msgs EXCEPT ![k] = m]]]
  <2> HIDE DEF m
  <2> QED BY DEF Exact, Types, m
<1> HIDE DEF m, e
<1>4. Ordered(e)
  BY <1>2, <1>3, OrderedMarked
<1> QED
  BY <1>4 DEF e

-----------------------------------------------------------------------------
\* Sending changes neither a queue nor a subscription.
LEMMA OrderedSend ==
  ASSUME NEW d, Ordered(d), NEW c, NEW packet,
         d = [store |-> d.store, last |-> d.last, kept |-> d.kept, subs |-> d.subs, ctx |-> d.ctx, out |-> d.out]
  PROVE  Ordered(Send(d, c, packet))
<1> DEFINE out == [d.out EXCEPT ![c] = Append(@, packet)]
           e == [d EXCEPT !.out = out]
<1>1. Send(d, c, packet) = IF d.ctx[c].sock THEN e ELSE d
  BY DEF Send
<1> HIDE DEF out
<1>2. e.ctx = d.ctx /\ e.subs = d.subs
  OBVIOUS
<1> HIDE DEF e
<1> QED
  BY <1>1, <1>2, OrderedSame

\* Some of the subscriptions
LEMMA FewerLeaves ==
  ASSUME NEW subs, OneLeaf(subs), NEW fewer, fewer \subseteq subs
  PROVE  OneLeaf(fewer)
  BY DEF OneLeaf

\* A session ends.
LEMMA OrderedContextCleanup ==
  ASSUME NEW d, NEW held, Exact(d, held), Ordered(d), NEW c \in Clients
  PROVE  Ordered(ContextCleanup(d, c))
<1> DEFINE e == ContextCleanup(d, c)
           x == NewContext
<1>1. e.ctx = [d.ctx EXCEPT ![c] = x] /\ e.subs \subseteq d.subs
  BY ExactContextCleanup
<1>2. InOrder(x.msgs, x.mid)
  BY NewContextTypes, EmptyInOrder
<1> HIDE DEF e, x
<1>3. OneLeaf(e.subs)
  BY <1>1, FewerLeaves DEF Ordered
<1>4. Ordered(e)
  BY <1>1, <1>2, <1>3, OrderedContext
<1> QED
  BY <1>4 DEF e

\* The will of a client, which needs an identifier for each receiver
LEMMA OrderedContextSendWill ==
  ASSUME NEW d, NEW held, Exact(d, held), Ordered(d), NEW c \in Clients, d.ctx[c].will # <<>> => OneLeft(d)
  PROVE  LET e == ContextSendWill(d, c)
         IN  /\ Ordered(e) /\ Gave(d, e)
             /\ d.ctx[c].will = <<>> => SameMids(d, e)
<1> DEFINE will == d.ctx[c].will
           sent == IF will = <<>> THEN d ELSE EasyQueue(d, c, Head(will))
           x == [sent.ctx[c] EXCEPT !.will = <<>>]
           e == ContextSendWill(d, c)
<1>1. e = [sent EXCEPT !.ctx[c].will = <<>>]
  BY DEF ContextSendWill
<1>2. Exact(sent, held) /\ Ordered(sent) /\ Gave(d, sent) /\ (will = <<>> => SameMids(d, sent))
  <2>1. CASE will = <<>>
    BY <2>1 DEF Gave, SameMids
  <2>2. CASE will # <<>>
    <3>1. \E m \in Content : will = <<m>>
      <4>1. d.ctx[c] \in Context
        BY DEF Exact, Types
      <4> QED BY <2>2, <4>1 DEF Context
    <3>2. Head(will) \in Content /\ OneLeft(d)
      BY <2>2, <3>1
    <3> HIDE DEF will
    <3> QED BY <2>2, <3>2, ExactEasyQueue, OrderedEasyQueue
  <2> QED BY <2>1, <2>2
<1> HIDE DEF sent
<1>3. sent.ctx \in [Clients -> Context] /\ sent.ctx[c] \in Context
  BY <1>2 DEF Exact, Types
<1>4. e.subs = sent.subs /\ e.ctx = [sent.ctx EXCEPT ![c] = x]
  BY <1>1, <1>2 DEF Exact, Types
<1>5. x.msgs = sent.ctx[c].msgs /\ x.mid = sent.ctx[c].mid
  BY <1>3 DEF Context
<1> HIDE DEF x, e
<1>6. InOrder(sent.ctx[c].msgs, sent.ctx[c].mid) => InOrder(x.msgs, sent.ctx[c].mid)
  BY <1>5
<1>7. Ordered(e) /\ SameMids(sent, e)
  <2>1. OneLeaf(e.subs)
    BY <1>2, <1>4 DEF Ordered
  <2> QED BY <1>2, <1>4, <1>5, <1>6, <2>1, OrderedQueue
<1> QED
  BY <1>2, <1>7 DEF Gave, SameMids, e, will

\* A connection ends.
LEMMA OrderedDoDisconnect ==
  ASSUME NEW d, NEW held, Exact(d, held), Ordered(d), NEW c \in Clients, d.ctx[c].will # <<>> => OneLeft(d)
  PROVE  Ordered(DoDisconnect(d, c))
<1> DEFINE sent == ContextSendWill(d, c)
           x == [sent.ctx[c] EXCEPT !.sock = FALSE]
           closed == [sent EXCEPT !.ctx[c].sock = FALSE]
<1>1. Exact(sent, held) /\ Ordered(sent)
  BY ExactContextSendWill, OrderedContextSendWill
<1>2. DoDisconnect(d, c) = IF d.ctx[c].clean THEN ContextCleanup(closed, c) ELSE closed
  BY DEF DoDisconnect
<1> HIDE DEF sent
<1>3. sent.ctx \in [Clients -> Context] /\ sent.ctx[c] \in Context
  BY <1>1 DEF Exact, Types
<1>4. closed = [store |-> sent.store, last |-> sent.last, kept |-> sent.kept, subs |-> sent.subs,
                ctx |-> [sent.ctx EXCEPT ![c] = x], out |-> sent.out]
  <2>1. sent = [store |-> sent.store, last |-> sent.last, kept |-> sent.kept, subs |-> sent.subs,
                ctx |-> sent.ctx, out |-> sent.out]
    BY <1>1 DEF Exact, Types
  <2>2. \A b : [sent EXCEPT !.ctx[c].sock = b]
                 = [store |-> sent.store, last |-> sent.last, kept |-> sent.kept, subs |-> sent.subs,
                    ctx |-> [sent.ctx EXCEPT ![c] = [sent.ctx[c] EXCEPT !.sock = b]], out |-> sent.out]
    BY <2>1
  <2> QED BY <2>2
<1>5. x \in Context /\ x.msgs = sent.ctx[c].msgs /\ x.mid = sent.ctx[c].mid /\ x.sock = FALSE
  BY <1>3 DEF Context
<1> HIDE DEF x, closed
<1>6. OnlyContexts(sent, closed) /\ closed.ctx = [sent.ctx EXCEPT ![c] = x] /\ closed.subs = sent.subs
  BY <1>4 DEF OnlyContexts
<1>7. SameMessages(sent.ctx[c].msgs, x.msgs) /\ CountGoesOn(sent.ctx[c], x)
  BY <1>5 DEF SameMessages, CountGoesOn
<1>8. Exact(closed, held)
  BY <1>1, <1>5, <1>6, <1>7, ExactContext
<1>9. Ordered(closed)
  <2>1. OneLeaf(closed.subs) /\ InOrder(x.msgs, x.mid)
    BY <1>1, <1>5, <1>6 DEF Ordered
  <2> QED BY <1>1, <1>6, <2>1, OrderedContext
<1>10. Ordered(ContextCleanup(closed, c))
  BY <1>8, <1>9, OrderedContextCleanup
<1> QED
  BY <1>2, <1>9, <1>10

\* A DISCONNECT drops the will first.
LEMMA OrderedHandleDisconnect ==
  ASSUME NEW d, NEW held, Exact(d, held), Ordered(d), NEW c \in Clients
  PROVE  Ordered(HandleDisconnect(d, c))
<1> DEFINE e == [d EXCEPT !.ctx[c].will = <<>>]
           With(w) == [d.ctx[c] EXCEPT !.will = w]
           x == With(<<>>)
<1>1. d.ctx \in [Clients -> Context] /\ d.ctx[c] \in Context
  BY DEF Exact, Types
<1>2. e = [store |-> d.store, last |-> d.last, kept |-> d.kept, subs |-> d.subs,
           ctx |-> [d.ctx EXCEPT ![c] = x], out |-> d.out]
  <2>1. d = [store |-> d.store, last |-> d.last, kept |-> d.kept, subs |-> d.subs, ctx |-> d.ctx, out |-> d.out]
    BY DEF Exact, Types
  <2> QED BY ONLY <2>1, SMT DEF e, x, With
<1>3. \A w \in {<<>>} \cup {<<m>> : m \in Content} :
          /\ With(w) \in Context /\ With(w).msgs = d.ctx[c].msgs /\ With(w).sock = d.ctx[c].sock
          /\ With(w).n12 = d.ctx[c].n12 /\ With(w).mid = d.ctx[c].mid /\ With(w).will = w
  BY <1>1 DEF Context
<1> HIDE DEF With, e
<1>4. /\ SameMessages(d.ctx[c].msgs, x.msgs) /\ CountGoesOn(d.ctx[c], x) /\ x \in Context
      /\ x.msgs = d.ctx[c].msgs /\ x.mid = d.ctx[c].mid /\ x.will = <<>>
  BY <1>3 DEF SameMessages, CountGoesOn
<1>5. OnlyContexts(d, e) /\ e.ctx = [d.ctx EXCEPT ![c] = x] /\ e.subs = d.subs
  BY <1>2 DEF OnlyContexts
<1> HIDE DEF x
<1>6. Exact(e, held)
  BY <1>4, <1>5, ExactContext
<1>7. Ordered(e)
  <2>1. OneLeaf(e.subs) /\ InOrder(x.msgs, x.mid)
    BY <1>4, <1>5 DEF Ordered
  <2> QED BY <1>5, <2>1, OrderedContext
<1>8. e.ctx[c].will = <<>>
  BY <1>1, <1>4, <1>5
<1>9. Ordered(DoDisconnect(e, c))
  BY <1>6, <1>7, <1>8, OrderedDoDisconnect
<1> QED
  BY <1>9 DEF HandleDisconnect, e

\* A session that goes on: those among the first go on, and the others that wait go on waiting.
LEMMA ResetAdvances ==
  ASSUME NEW msgs \in Seq(Msg)
  PROVE  Advances(msgs, ReconnectReset(msgs))
<1> DEFINE With(m, state) == [m EXCEPT !.state = state]
           Again(m) ==
             IF m.dir = "in" \/ m.state = "queued" THEN m
             ELSE IF m.state = "wait_for_pubcomp" THEN [m EXCEPT !.state = "resend_pubrel"]
             ELSE [m EXCEPT !.state = PublishState[m.qos]]
           first(k) == MaxInflight = 0 \/ k <= MaxInflight
           new == ReconnectReset(msgs)
<1>1. new = [k \in DOMAIN msgs |->
               IF msgs[k].state = "queued" /\ first(k)
               THEN [msgs[k] EXCEPT !.state = PublishState[msgs[k].qos]] ELSE Again(msgs[k])]
  BY DEF ReconnectReset
<1>2. \A m \in Msg : PublishState[m.qos] # "queued"
  <2> TAKE m \in Msg
  <2>1. m.qos \in {0, 1, 2}
    BY DEF Msg
  <2> QED BY <2>1 DEF PublishState
<1>3. \A m \in Msg : \A state : state # "queued" =>
        GoesOnAs(m, With(m, state)) /\ With(m, state).state = state
  BY DEF Msg, GoesOnAs
<1>4. \A m : \/ Again(m) = m /\ (m.dir = "in" \/ m.state = "queued")
             \/ m.state # "queued" /\ Again(m) = With(m, "resend_pubrel")
             \/ m.state # "queued" /\ Again(m) = With(m, PublishState[m.qos])
  OBVIOUS
<1> HIDE DEF With, Again
<1>5. \A m \in Msg : /\ GoesOnAs(m, Again(m))
                     /\ m.dir = "out" => (m.state = "queued" <=> Again(m).state = "queued")
  BY <1>2, <1>3, <1>4, SameGoesOn
<1>6. \A m \in Msg : LET n == [m EXCEPT !.state = PublishState[m.qos]]
                     IN  GoesOnAs(m, n) /\ n.state # "queued"
  BY <1>2, <1>3 DEF With
<1> HIDE DEF first
<1>7. ASSUME NEW k \in DOMAIN msgs
      PROVE  /\ GoesOnAs(msgs[k], new[k])
             /\ msgs[k].dir = "out" /\ msgs[k].state = "queued" => (new[k].state # "queued" <=> first(k))
             /\ msgs[k].dir = "out" /\ msgs[k].state # "queued" => new[k].state # "queued"
  <2> DEFINE m == msgs[k]
             started == [m EXCEPT !.state = PublishState[m.qos]]
  <2>1. m \in Msg
    OBVIOUS
  <2>2. new[k] = IF m.state = "queued" /\ first(k) THEN started ELSE Again(m)
    BY <1>1
  <2>3. GoesOnAs(m, started) /\ started.state # "queued"
    BY <1>6, <2>1
  <2>4. GoesOnAs(m, Again(m)) /\ (m.dir = "out" => (m.state = "queued" <=> Again(m).state = "queued"))
    BY <1>5, <2>1
  <2> HIDE DEF m, started, new
  <2>5. /\ GoesOnAs(m, new[k])
        /\ m.dir = "out" /\ m.state = "queued" => (new[k].state # "queued" <=> first(k))
        /\ m.dir = "out" /\ m.state # "queued" => new[k].state # "queued"
    BY <2>2, <2>3, <2>4
  <2> QED BY <2>5 DEF m
<1>8. \A i, j \in DOMAIN msgs : i < j /\ first(j) => first(i)
  <2>1. MaxInflight \in Nat /\ \A k \in DOMAIN msgs : k \in Nat
    BY Limits
  <2> QED BY <2>1 DEF first
<1>9. DOMAIN new = DOMAIN msgs
  BY <1>1
<1> HIDE DEF new
<1> QED
  BY <1>7, <1>8, <1>9 DEF Advances, new

\* A CONNECT: a session goes on, or a new one begins.
LEMMA OrderedHandleConnect ==
  ASSUME NEW d, NEW held, Exact(d, held), Ordered(d), NEW c \in Clients, NEW clean \in BOOLEAN,
         NEW will \in {<<>>} \cup {<<m>> : m \in Content}
  PROVE  Ordered(HandleConnect(d, c, clean, will))
<1> DEFINE found == d.ctx[c]
           fresh == [NewContext EXCEPT !.known = TRUE, !.sock = TRUE, !.clean = clean, !.will = will]
           old == IF GoesOn(found, clean) THEN d ELSE ContextCleanup(d, c)
           x == IF GoesOn(found, clean) THEN TakeOver(found, fresh) ELSE fresh
           new == [old EXCEPT !.ctx[c] = x]
<1>1. d.ctx \in [Clients -> Context] /\ found \in Context /\ found.msgs \in Seq(Msg) /\ found.mid \in Nat
  BY DEF Exact, Types, Context
<1>2. Exact(old, held) /\ Ordered(old)
  BY ExactContextCleanup, OrderedContextCleanup
<1>3. InOrder(x.msgs, x.mid)
  <2>1. CASE GoesOn(found, clean)
    <3> DEFINE msgs == ReconnectReset(found.msgs)
    <3>1. x.msgs = msgs /\ x.mid = found.mid
      <4>1. x = TakeOver(found, fresh)
        BY <2>1
      <4> HIDE DEF x, msgs
      <4> QED BY <4>1 DEF TakeOver, msgs, NewContext
    <3>2. InOrder(found.msgs, found.mid)
      BY DEF Ordered
    <3> HIDE DEF found, x
    <3> QED BY <1>1, <3>1, <3>2, ResetAdvances, AdvancedInOrder
  <2>2. CASE ~GoesOn(found, clean)
    <3>1. x.msgs = <<>>
      BY <2>2 DEF NewContext
    <3> QED BY <3>1, EmptyInOrder
  <2> QED BY <2>1, <2>2
<1> HIDE DEF x, old
<1>4. new.ctx = [old.ctx EXCEPT ![c] = x] /\ new.subs = old.subs
  BY <1>2 DEF Exact, Types
<1>5. Ordered(new)
  <2>1. OneLeaf(new.subs)
    BY <1>2, <1>4 DEF Ordered
  <2> HIDE DEF new
  <2> QED BY <1>2, <1>3, <1>4, <2>1, OrderedContext
<1> DEFINE packet == [type |-> "connack", present |-> found.known /\ ~clean /\ c \notin V31]
<1>6. HandleConnect(d, c, clean, will) = Send(new, c, packet)
  BY DEF HandleConnect, old, x
<1>7. new = [store |-> new.store, last |-> new.last, kept |-> new.kept, subs |-> new.subs,
             ctx |-> new.ctx, out |-> new.out]
  <2>1. old = [store |-> old.store, last |-> old.last, kept |-> old.kept, subs |-> old.subs,
               ctx |-> old.ctx, out |-> old.out]
    BY <1>2 DEF Exact, Types
  <2>2. new = [store |-> old.store, last |-> old.last, kept |-> old.kept, subs |-> old.subs,
               ctx |-> [old.ctx EXCEPT ![c] = x], out |-> old.out]
    BY ONLY <2>1, SMT DEF new
  <2> HIDE DEF new
  <2> QED BY <2>2
<1> HIDE DEF new, packet
<1> QED
  BY <1>5, <1>6, <1>7, OrderedSend

-----------------------------------------------------------------------------
\* A PUBLISH with an identifier that is not in use
LEMMA OrderedHandlePublish ==
  ASSUME NEW d, NEW held, Exact(d, held), Ordered(d), OneLeft(d), NEW c \in Clients, NEW mid \in Nat,
         NEW m \in Content,
         \A k \in DOMAIN d.ctx[c].msgs : d.ctx[c].msgs[k].dir = "in" => d.ctx[c].msgs[k].mid # mid
  PROVE  Ordered(HandlePublish(d, c, mid, m))
<1> DEFINE known == IF m.qos = 0 THEN 0 ELSE MessageStoreFind(d, c, mid)
           stored == IF known = 0 THEN MessageStore(d, c, mid, m) ELSE d
           id == IF known = 0 THEN stored.last ELSE known
           queued == MessagesQueue(stored, id, m.qos, m.retain, d.subs)
           inserted == Insert(stored, c, mid, "in", 2, m.retain, id)
           e == HandlePublish(d, c, mid, m)
<1>1. known = 0
  <2>1. MessageStoreFind(d, c, mid) = 0
    BY FoundIsThere
  <2> QED BY <2>1
<1>2. m.qos \in {0, 1, 2} /\ m.qos \in 0 .. 2 /\ m.retain \in BOOLEAN
  BY DEF Content
<1>3. \/ e = queued \/ e = Send(queued, c, Packet("puback", mid))
      \/ e = inserted.db \/ e = Send(inserted.db, c, Packet("pubrec", mid))
      \/ e = Send(d, c, Packet("pubrec", mid))
  <2> DEFINE a == queued
             b == Send(queued, c, Packet("puback", mid))
             f == inserted.db
             g == Send(inserted.db, c, Packet("pubrec", mid))
             h == Send(d, c, Packet("pubrec", mid))
             rc == inserted.rc
             k == known
  <2>1. e = CASE m.qos = 0 -> a
              [] m.qos = 1 -> b
              [] m.qos = 2 /\ k = 0 /\ rc # 0 -> f
              [] m.qos = 2 /\ k = 0 -> g
              [] OTHER -> h
    BY DEF HandlePublish
  <2> HIDE DEF a, b, f, g, h, rc, k, e
  <2>2. e = a \/ e = b \/ e = f \/ e = g \/ e = h
    <3>1. CASE m.qos = 0
      BY <2>1, <3>1
    <3>2. CASE m.qos = 1
      BY <2>1, <3>2
    <3>3. CASE m.qos = 2 /\ k = 0
      BY <2>1, <3>3
    <3>4. CASE m.qos = 2 /\ k # 0
      BY <2>1, <3>4
    <3> QED BY <1>2, <3>1, <3>2, <3>3, <3>4
  <2> QED BY <2>2 DEF a, b, f, g, h
<1> HIDE DEF known
<1>4. /\ Exact(stored, held) /\ id \in DOMAIN stored.store /\ stored.ctx = d.ctx /\ stored.subs = d.subs
      /\ stored.store[id].smid = mid /\ stored.store[id].m = m
  <2> DEFINE s == MessageStore(d, c, mid, m)
  <2>1. /\ Exact(s, held) /\ s.last \in DOMAIN s.store /\ s.store[s.last].smid = mid
        /\ s.ctx = d.ctx /\ s.subs = d.subs /\ s.store[s.last].m = m
    BY ExactStored
  <2>2. stored = s /\ id = s.last
    BY <1>1
  <2> HIDE DEF s, stored, id
  <2> QED BY <2>1, <2>2
<1> HIDE DEF stored, id
<1>5. Ordered(stored) /\ OneLeft(stored)
  BY <1>4, OrderedSame DEF OneLeft
<1>6. Exact(queued, held) /\ Ordered(queued)
  <2> DEFINE retain == m.retain
             qos == m.qos
             f == MessagesQueue(stored, id, qos, retain, stored.subs)
  <2>1. queued = f
    BY <1>4
  <2>2. qos \in 0 .. 2 /\ retain \in BOOLEAN /\ (retain => stored.store[id].m.retain = TRUE)
    BY <1>2, <1>4
  <2>3. stored.subs \subseteq Leaf
    BY <1>4 DEF Exact, Types
  <2> HIDE DEF retain, qos, queued
  <2>4. Exact(f, held) /\ Ordered(f)
    BY <1>4, <1>5, <2>2, <2>3, ExactMessagesQueue, OrderedMessagesQueue
  <2> QED BY <2>1, <2>4
<1>7. Exact(inserted.db, held) /\ Ordered(inserted.db)
  <2>1. 2 \in 0 .. 2 /\ "in" \in {"in", "out"} /\ "in" # "out"
    OBVIOUS
  <2>2. Follows(stored.ctx[c].msgs, "in", 2, mid)
    BY <1>4 DEF Follows
  <2>3. Exact(inserted.db, held)
    BY <1>2, <1>4, <2>1, ExactInsert
  <2>4. Ordered(inserted.db)
    BY <1>2, <1>4, <1>5, <2>1, <2>2, OrderedInsert
  <2> QED BY <2>3, <2>4
<1> HIDE DEF queued, e
<1> DEFINE into == inserted.db
<1> HIDE DEF inserted
<1>8. ASSUME NEW f, Exact(f, held), Ordered(f), NEW packet
      PROVE  Ordered(Send(f, c, packet))
  <2>1. f = [store |-> f.store, last |-> f.last, kept |-> f.kept, subs |-> f.subs, ctx |-> f.ctx, out |-> f.out]
    BY <1>8 DEF Exact, Types
  <2> QED BY <1>8, <2>1, OrderedSend
<1>9. /\ Ordered(Send(queued, c, Packet("puback", mid))) /\ Ordered(Send(into, c, Packet("pubrec", mid)))
      /\ Ordered(Send(d, c, Packet("pubrec", mid)))
  <2>1. Exact(into, held) /\ Ordered(into)
    BY <1>7
  <2> HIDE DEF into
  <2> QED BY <1>6, <1>8, <2>1
<1> QED
  BY <1>3, <1>6, <1>7, <1>9 DEF e

\* A PUBLISH of a message that the broker has already is only answered.
LEMMA OrderedPublishAgain ==
  ASSUME NEW d, NEW held, Exact(d, held), Ordered(d), NEW c \in Clients, NEW k \in DOMAIN d.ctx[c].msgs,
         d.ctx[c].msgs[k].dir = "in"
  PROVE  Ordered(HandlePublish(d, c, d.ctx[c].msgs[k].mid, [qos |-> 2, retain |-> FALSE]))
<1> DEFINE mid == d.ctx[c].msgs[k].mid
           m == [qos |-> 2, retain |-> FALSE]
           packet == Packet("pubrec", mid)
<1>1. MessageStoreFind(d, c, mid) # 0
  BY FoundIsThere
<1>2. m.qos = 2
  OBVIOUS
<1> HIDE DEF m, mid
<1>3. HandlePublish(d, c, mid, m) = Send(d, c, packet)
  BY <1>1, <1>2 DEF HandlePublish
<1>4. d = [store |-> d.store, last |-> d.last, kept |-> d.kept, subs |-> d.subs, ctx |-> d.ctx, out |-> d.out]
  BY DEF Exact, Types
<1> HIDE DEF packet
<1> QED
  BY <1>3, <1>4, OrderedSend DEF mid, m

\* A PUBREL, a PUBACK or PUBCOMP, or a PUBREC for a message that has been sent
LEMMA OrderedAnswers ==
  ASSUME NEW d, NEW held, Exact(d, held), Ordered(d), NEW c \in Clients, NEW mid
  PROVE  /\ OneLeft(d) => Ordered(HandlePubrel(d, c, mid))
         /\ Ordered(HandlePubackcomp(d, c, mid))
         /\ \A k \in DOMAIN d.ctx[c].msgs :
              /\ d.ctx[c].msgs[k].mid = mid /\ d.ctx[c].msgs[k].dir = "out" /\ d.ctx[c].msgs[k].qos > 0
              /\ d.ctx[c].msgs[k].dup
              => Ordered(HandlePubrec(d, c, mid))
<1> DEFINE released == MessageRelease(d, c, mid)
           updated == MessageUpdate(d, c, mid, "wait_for_pubcomp")
           pubcomp == Packet("pubcomp", mid)
           pubrel == Packet("pubrel", mid)
           Record(e) == e = [store |-> e.store, last |-> e.last, kept |-> e.kept, subs |-> e.subs,
                             ctx |-> e.ctx, out |-> e.out]
<1>1. Exact(released, held) /\ Exact(updated, held)
  <2>1. "wait_for_pubcomp" \in Staying
    BY DEF States, Staying
  <2> QED BY <2>1, ExactMessageRelease, ExactMessageUpdate
<1>2. /\ OneLeft(d) => Ordered(released)
      /\ \A k \in DOMAIN d.ctx[c].msgs :
           /\ d.ctx[c].msgs[k].mid = mid /\ d.ctx[c].msgs[k].dir = "out" /\ d.ctx[c].msgs[k].qos > 0
           /\ d.ctx[c].msgs[k].dup
           => Ordered(updated)
  <2>1. "wait_for_pubcomp" # "queued"
    OBVIOUS
  <2> QED BY <2>1, OrderedMessageRelease, OrderedMessageUpdate
<1>3. HandlePubrel(d, c, mid) = Send(released, c, pubcomp) /\ HandlePubrec(d, c, mid) = Send(updated, c, pubrel)
  BY DEF HandlePubrel, HandlePubrec
<1>4. Ordered(HandlePubackcomp(d, c, mid))
  BY OrderedMessageDelete DEF HandlePubackcomp
<1> HIDE DEF released, updated, pubcomp, pubrel
<1>5. Record(released) /\ Record(updated)
  <2>1. \A e : Exact(e, held) => Record(e)
    BY DEF Exact, Types
  <2> HIDE DEF Record
  <2> QED BY <1>1, <2>1
<1>6. /\ Ordered(released) => Ordered(Send(released, c, pubcomp))
      /\ Ordered(updated) => Ordered(Send(updated, c, pubrel))
  BY <1>5, OrderedSend
<1> QED
  BY <1>2, <1>3, <1>4, <1>6

\* A SUBSCRIBE: one leaf for the topic, and an identifier for the message that it keeps
LEMMA OrderedHandleSubscribe ==
  ASSUME NEW d, NEW held, Exact(d, held), Ordered(d), NEW c \in Clients, d.ctx[c].mid < MaxMid, NEW mid,
         NEW topic \in Names, NEW qos \in 0 .. 2
  PROVE  Ordered(HandleSubscribe(d, c, mid, topic, qos))
<1> DEFINE subs == {leaf \in d.subs : leaf.client # c \/ leaf.topic # topic}
                     \cup {[client |-> c, topic |-> topic, qos |-> qos]}
           added == SubAdd(d, c, topic, qos)
           again == c \in V31 /\ \E leaf \in d.subs : leaf.client = c /\ leaf.topic = topic
           kept == IF again THEN 0 ELSE d.kept[topic]
           lower == Lower(d.store[kept].m.qos, qos)
           told == IF kept = 0 THEN added ELSE InsertOut(added, c, lower, TRUE, kept)
<1>1. Exact(added, held) /\ Ordered(added) /\ added.store = d.store /\ added.ctx = d.ctx
  <2>1. subs \subseteq Leaf
    BY DEF Exact, Types, Leaf
  <2>2. added = [d EXCEPT !.subs = subs]
    BY DEF SubAdd
  <2>3. OneLeaf(subs)
    BY DEF Ordered, OneLeaf
  <2> HIDE DEF subs, added
  <2>4. Exact(added, held)
    BY <2>1, <2>2, ExactSubs
  <2>5. added.store = d.store /\ added.ctx = d.ctx /\ added.subs = subs
    BY <2>2 DEF Exact, Types
  <2> QED BY <2>3, <2>4, <2>5 DEF Ordered
<1> HIDE DEF added
<1>2. kept # 0 => kept \in DOMAIN added.store /\ lower \in 0 .. 2
  <2> SUFFICES ASSUME kept # 0
               PROVE  kept \in DOMAIN d.store /\ lower \in 0 .. 2
    BY <1>1
  <2>1. kept \in DOMAIN d.store
    BY DEF Exact, NothingDangles
  <2>2. d.store[kept] \in Stored
    BY <2>1 DEF Exact, Types
  <2>3. d.store[kept].m.qos \in 0 .. 2
    BY <2>2 DEF Stored, Content
  <2> QED BY <2>1, <2>3 DEF Lower
<1> HIDE DEF lower, kept, again
<1>3. Exact(told, held) /\ Ordered(told)
  <2>1. CASE kept = 0
    BY <1>1, <2>1
  <2>2. CASE kept # 0
    <3> DEFINE i == InsertOut(added, c, lower, TRUE, kept)
    <3>1. Exact(i, held) /\ Ordered(i)
      <4>1. added.ctx[c].mid < MaxMid
        BY <1>1
      <4> QED BY <1>1, <1>2, <2>2, <4>1, ExactInsertOut, OrderedInsertOut
    <3>2. told = i
      BY <2>2
    <3> HIDE DEF i, told
    <3> QED BY <3>1, <3>2
  <2> QED BY <2>1, <2>2
<1> DEFINE packet == Packet("suback", mid)
<1>4. HandleSubscribe(d, c, mid, topic, qos) = Send(told, c, packet)
  BY DEF HandleSubscribe, added, again, kept, lower
<1> HIDE DEF told, packet
<1>5. told = [store |-> told.store, last |-> told.last, kept |-> told.kept, subs |-> told.subs,
              ctx |-> told.ctx, out |-> told.out]
  BY <1>3 DEF Exact, Types
<1> QED
  BY <1>3, <1>4, <1>5, OrderedSend

\* An UNSUBSCRIBE
LEMMA OrderedHandleUnsubscribe ==
  ASSUME NEW d, NEW held, Exact(d, held), Ordered(d), NEW c \in Clients, NEW mid, NEW topic
  PROVE  Ordered(HandleUnsubscribe(d, c, mid, topic))
<1> DEFINE subs == {leaf \in d.subs : leaf.client # c \/ leaf.topic # topic}
           e == [d EXCEPT !.subs = subs]
           packet == Packet("unsuback", mid)
<1>1. HandleUnsubscribe(d, c, mid, topic) = Send(e, c, packet)
  BY DEF HandleUnsubscribe
<1>2. OneLeaf(subs)
  BY FewerLeaves DEF Ordered
<1> HIDE DEF subs
<1>3. e = [store |-> d.store, last |-> d.last, kept |-> d.kept, subs |-> subs, ctx |-> d.ctx, out |-> d.out]
  BY DEF Exact, Types
<1> HIDE DEF e, packet
<1>4. e.ctx = d.ctx /\ e.subs = subs /\ e.store = d.store /\ e.last = d.last /\ e.kept = d.kept /\ e.out = d.out
  BY <1>3
<1>5. Ordered(e)
  BY <1>2, <1>4 DEF Ordered
<1> QED
  BY <1>1, <1>3, <1>4, <1>5, OrderedSend

-----------------------------------------------------------------------------
\* A round of mqtt3_db_message_write
OrderedWriteInv(p, i, w) == WriteInv(p, i, w) /\ Ordered(w.db)
\* The loop of mqtt3_db_message_write.
OfOrderedWrite == INSTANCE Passes WITH Step <- WriteStep, Inv <- OrderedWriteInv

\* One message of the queue is written, or passed over.
LEMMA OrderedWriteOne ==
  ASSUME NEW w, NEW held, NEW c \in Clients, Exact(w.db, held), Ordered(w.db), w.at \in Nat \ {0},
         w.at <= Len(w.db.ctx[c].msgs)
  PROVE  Ordered(WriteOne(w, c).db)
<1> DEFINE d == w.db
           msgs == d.ctx[c].msgs
           m == msgs[w.at]
           count == IF m.dir = "in" THEN w.count + 1 ELSE w.count
           On(packet, state, dup) ==
             [db |-> [Send(d, c, packet) EXCEPT !.ctx[c].msgs[w.at] = [m EXCEPT !.state = state, !.dup = dup]],
              at |-> w.at + 1, count |-> count]
           publish == [type |-> "publish", mid |-> m.mid, qos |-> m.qos, dup |-> m.dup,
                       retain |-> m.retain, body |-> d.store[m.id].m.body]
           removed == [db |-> MessageRemove(Send(d, c, publish), c, w.at), at |-> w.at, count |-> count]
           started == [db |-> [d EXCEPT !.ctx[c].msgs[w.at].state = "send_pubrec"], at |-> w.at, count |-> count]
           over == [db |-> d, at |-> w.at + 1, count |-> count]
           free == MaxInflight = 0 \/ count < MaxInflight
           one == WriteOne(w, c)
<1>1. d.ctx \in [Clients -> Context] /\ d.ctx[c] \in Context /\ msgs \in Seq(Msg)
  BY DEF Exact, Types, Context
<1>2. w.at \in DOMAIN msgs
  BY <1>1
<1>3. m \in Msg
  BY <1>1, <1>2
<1>5. one =
        CASE m.state = "publish_qos0" -> removed
          [] m.state = "publish_qos1" -> On(publish, "wait_for_puback", TRUE)
          [] m.state = "publish_qos2" -> On(publish, "wait_for_pubrec", TRUE)
          [] m.state = "send_pubrec" -> On(Packet("pubrec", m.mid), "wait_for_pubrel", m.dup)
          [] m.state = "resend_pubrel" -> On(Packet("pubrel", m.mid), "wait_for_pubcomp", m.dup)
          [] m.state = "queued" /\ m.dir = "in" /\ free -> started
          [] OTHER -> over
  BY DEF WriteOne
<1> HIDE DEF one, count
<1>6. Ordered(removed.db)
  <2> DEFINE sent == Send(d, c, publish)
             left == MessageRemove(sent, c, w.at)
  <2>1. Exact(sent, held) /\ sent.ctx = d.ctx /\ sent.subs = d.subs
    <3> HIDE DEF publish, d
    <3>1. /\ Exact(sent, held) /\ sent.ctx = d.ctx
          /\ sent = [store |-> d.store, last |-> d.last, kept |-> d.kept, subs |-> d.subs,
                     ctx |-> d.ctx, out |-> sent.out]
      BY ExactSend DEF d
    <3> HIDE DEF sent
    <3> QED BY <3>1
  <2> HIDE DEF sent
  <2>2. w.at \in DOMAIN sent.ctx[c].msgs
    BY <1>2, <2>1
  <2>3. Ordered(sent)
    BY <2>1, OrderedSame
  <2>4. Ordered(left)
    BY <2>1, <2>2, <2>3, OrderedMessageRemove
  <2>5. removed.db = left
    BY DEF left, sent
  <2> QED BY <2>4, <2>5
<1>4. ASSUME NEW new, GoesOnAs(m, new), m.state # "queued" \/ new.dir = "in", NEW e, e.subs = d.subs,
             e.ctx = [d.ctx EXCEPT ![c] = [d.ctx[c] EXCEPT !.msgs = [d.ctx[c].msgs EXCEPT ![w.at] = new]]]
      PROVE  Ordered(e)
  <2> DEFINE k == w.at
  <2>1. k \in DOMAIN d.ctx[c].msgs /\ GoesOnAs(d.ctx[c].msgs[k], new)
    BY <1>2, <1>4
  <2>2. d.ctx[c].msgs[k].state # "queued" \/ new.state = "queued" \/ new.dir = "in"
    BY <1>4
  <2>3. e.ctx = [d.ctx EXCEPT ![c] = [d.ctx[c] EXCEPT !.msgs = [d.ctx[c].msgs EXCEPT ![k] = new]]]
    BY <1>4
  <2> HIDE DEF k
  <2>4. Ordered(d) /\ Exact(d, held) /\ e.subs = d.subs
    BY <1>4
  <2> HIDE DEF d
  <2> QED BY <2>1, <2>2, <2>3, <2>4, OrderedMarked, SMTT(30)
<1>7. ASSUME NEW packet, NEW state, state # "queued", NEW dup, dup = TRUE \/ dup = m.dup, m.state # "queued"
      PROVE  Ordered(On(packet, state, dup).db)
  <2> DEFINE sent == Send(d, c, packet)
             new == [m EXCEPT !.state = state, !.dup = dup]
             e == [sent EXCEPT !.ctx[c].msgs[w.at] = new]
  <2>1. /\ Exact(sent, held)
        /\ sent = [store |-> d.store, last |-> d.last, kept |-> d.kept, subs |-> d.subs,
                   ctx |-> d.ctx, out |-> sent.out]
    BY ExactSend
  <2> HIDE DEF sent
  <2>2. GoesOnAs(m, new)
    <3> HIDE DEF m
    <3> QED BY <1>3, <1>7 DEF Msg, GoesOnAs
  <2> HIDE DEF new
  <2>3. e.subs = d.subs /\ e.ctx = [d.ctx EXCEPT ![c] = [d.ctx[c] EXCEPT !.msgs = [d.ctx[c].msgs EXCEPT ![w.at] = new]]]
    BY <2>1
  <2> HIDE DEF e
  <2>4. Ordered(e)
    BY <1>4, <1>7, <2>2, <2>3
  <2>5. On(packet, state, dup).db = e
    BY DEF e, sent, new
  <2> QED BY <2>4, <2>5
<1>8. m.dir = "in" => Ordered(started.db)
  <2> DEFINE With(state) == [d EXCEPT !.ctx[c].msgs[w.at].state = state]
  <2>1. ASSUME NEW state, state # "queued", m.dir = "in"
        PROVE  Ordered(With(state))
    <3> DEFINE new == [m EXCEPT !.state = state]
               e == With(state)
    <3>1. GoesOnAs(m, new) /\ new.dir = "in"
      <4> HIDE DEF m
      <4> QED BY <1>3, <2>1 DEF Msg, GoesOnAs
    <3>2. e = [store |-> d.store, last |-> d.last, kept |-> d.kept, subs |-> d.subs,
               ctx |-> [d.ctx EXCEPT ![c] = [d.ctx[c] EXCEPT !.msgs = [d.ctx[c].msgs EXCEPT ![w.at] = new]]],
               out |-> d.out]
      <4>1. d = [store |-> d.store, last |-> d.last, kept |-> d.kept, subs |-> d.subs,
                 ctx |-> d.ctx, out |-> d.out]
        BY DEF Exact, Types
      <4> QED BY ONLY <4>1, SMT
    <3> HIDE DEF new, e
    <3>3. e.subs = d.subs
          /\ e.ctx = [d.ctx EXCEPT ![c] = [d.ctx[c] EXCEPT !.msgs = [d.ctx[c].msgs EXCEPT ![w.at] = new]]]
      BY <3>2
    <3>4. Ordered(e)
      BY <1>4, <3>1, <3>3
    <3> QED BY <3>4 DEF e
  <2>2. m.dir = "in" => Ordered(With("send_pubrec"))
    <3> HIDE DEF With
    <3> QED BY <2>1
  <2> QED BY <2>2
<1>9. Ordered(over.db)
  OBVIOUS
<1>10. /\ m.state = "publish_qos1" => Ordered(On(publish, "wait_for_puback", TRUE).db)
       /\ m.state = "publish_qos2" => Ordered(On(publish, "wait_for_pubrec", TRUE).db)
       /\ m.state = "send_pubrec" => Ordered(On(Packet("pubrec", m.mid), "wait_for_pubrel", m.dup).db)
       /\ m.state = "resend_pubrel" => Ordered(On(Packet("pubrel", m.mid), "wait_for_pubcomp", m.dup).db)
  <2> HIDE DEF On, publish, m
  <2> QED BY <1>7
<1> HIDE DEF removed, On, started, over, publish, m, free
<1>11. Ordered(one.db)
  BY <1>5, <1>6, <1>8, <1>9, <1>10
<1> QED
  BY <1>11 DEF one

\* mqtt3_db_message_write keeps the order.
LEMMA OrderedMessageWrite ==
  ASSUME NEW d, NEW held, Exact(d, held), Ordered(d), NEW c \in Clients
  PROVE  Ordered(MessageWrite(d, c))
<1> DEFINE p == [c |-> c, held |-> held, start |-> d]
           start == [db |-> d, at |-> 1, count |-> 0]
           n == 2 * Len(d.ctx[c].msgs)
           last == OfOrderedWrite!Pass(p, start, n)
<1>1. MessageWrite(d, c) = last.db
  BY DEF MessageWrite, OfOrderedWrite!Pass, WriteStep
<1>2. n \in Nat
  <2>1. d.ctx[c].msgs \in Seq(Msg)
    BY DEF Exact, Types, Context
  <2> QED BY <2>1
<1>3. OrderedWriteInv(p, 0, start)
  BY KeepsAllSame DEF OrderedWriteInv, WriteInv
<1>4. ASSUME NEW i \in 1 .. n, NEW w, OrderedWriteInv(p, i - 1, w)
      PROVE  OrderedWriteInv(p, i, WriteStep(p, w, i))
  <2>1. Exact(w.db, held) /\ KeepsAll(d, w.db) /\ w.at \in Nat \ {0} /\ w.count \in Nat /\ Ordered(w.db)
    BY <1>4 DEF OrderedWriteInv, WriteInv
  <2>2. w.db.ctx[c].msgs \in Seq(Msg)
    BY <2>1 DEF Exact, Types, Context
  <2>3. CASE w.at > Len(w.db.ctx[c].msgs)
    BY <1>4, <2>3 DEF OrderedWriteInv, WriteInv, WriteStep
  <2>4. CASE w.at <= Len(w.db.ctx[c].msgs)
    <3>1. /\ Exact(WriteOne(w, c).db, held) /\ KeepsAll(w.db, WriteOne(w, c).db)
          /\ WriteOne(w, c).at \in Nat \ {0} /\ WriteOne(w, c).count \in Nat
          /\ Ordered(WriteOne(w, c).db)
      BY <2>1, <2>4, ExactWriteOne, OrderedWriteOne
    <3>2. WriteStep(p, w, i) = WriteOne(w, c)
      BY <2>1, <2>2, <2>4 DEF WriteStep
    <3>3. KeepsAll(d, WriteOne(w, c).db)
      BY <2>1, <3>1, KeepsAllOn
    <3> QED BY <3>1, <3>2, <3>3 DEF OrderedWriteInv, WriteInv
  <2> QED BY <2>1, <2>2, <2>3, <2>4
<1> HIDE DEF p, n, start
<1>5. OrderedWriteInv(p, n, last)
  BY <1>2, <1>3, <1>4, OfOrderedWrite!PassKeeps
<1> QED
  BY <1>1, <1>5 DEF OrderedWriteInv

-----------------------------------------------------------------------------
\* A broker that is started again has the queues and the last identifiers of its file.
LEMMA OrderedRestore ==
  ASSUME NEW d, Exact(d, NoneHeld), Ordered(d)
  PROVE  Ordered(Restore(File(d)))
<1> DEFINE e == Restore(File(d))
<1>1. /\ \A c \in Durable(d) : e.ctx[c].msgs = d.ctx[c].msgs /\ e.ctx[c].mid = d.ctx[c].mid
      /\ \A c \in Clients \ Durable(d) : e.ctx[c] = NewContext
      /\ e.subs = SubsWrite(d)
  BY ExactRestore
<1> HIDE DEF e
<1>2. \A c \in Clients : InOrder(e.ctx[c].msgs, e.ctx[c].mid)
  <2> TAKE c \in Clients
  <2>1. CASE c \in Durable(d)
    BY <1>1, <2>1 DEF Ordered
  <2>2. CASE c \notin Durable(d)
    BY <1>1, <2>2, NewContextTypes, EmptyInOrder
  <2> QED BY <2>1, <2>2
<1>3. OneLeaf(e.subs)
  BY <1>1, FewerLeaves DEF Ordered, SubsWrite
<1> QED
  BY <1>2, <1>3 DEF Ordered, e

\* A broker without a file has no queues.
LEMMA OrderedEmpty == Ordered(EmptyDb)
<1> DEFINE e == EmptyDb
           ctx == [c \in Clients |-> NewContext]
<1>1. e.subs = {} /\ e.ctx = ctx
  BY DEF EmptyDb
<1>2. \A c \in Clients : ctx[c].msgs = <<>>
  BY NewContextTypes
<1> HIDE DEF e, ctx
<1> QED
  BY <1>1, <1>2, EmptyInOrder DEF Ordered, OneLeaf, e

\* The clients that are connected with a will, of some contexts, and those whose will has been
\* sent after some rounds of the loop at the end of main.
WillsOf(d) == {c \in Clients : d.ctx[c].will # <<>>}
DoneAfter(p, i) == {c \in WillsOf(p.start) : \E j \in 1 .. i : p.order[j] = c}
\* The wills of the clients passed are sent; the others still have theirs.
OrderedLeftInv(p, i, d) ==
  /\ LeftInv(p, i, d) /\ Ordered(d)
  /\ \A b \in Clients : d.ctx[b].mid <= p.start.ctx[b].mid + Cardinality(DoneAfter(p, i))
  /\ \A j \in i + 1 .. Len(p.order) : d.ctx[p.order[j]].will = p.start.ctx[p.order[j]].will
\* The loop that disconnects everybody.
OfOrderedLeft == INSTANCE Passes WITH Step <- LeftStep, Inv <- OrderedLeftInv

\* The wills that a broker sends when it ends, with enough identifiers for them
LEMMA OrderedLeft ==
  ASSUME NEW d, Exact(d, NoneHeld), Ordered(d),
         \A b \in Clients : d.ctx[b].mid + Cardinality(WillsOf(d)) <= MaxMid
  PROVE  Ordered(Left(d))
<1> DEFINE order == SetToSeq(Clients)
           p == [order |-> order, start |-> d]
           n == Len(order)
           Done(i) == DoneAfter(p, i)
<1>1. Left(d) = OfOrderedLeft!Pass(p, d, n)
  BY DEF Left, OfOrderedLeft!Pass, LeftStep
<1>2. /\ order \in Seq(Clients) /\ n \in Nat /\ DOMAIN order = 1 .. n
      /\ \A i, j \in 1 .. n : order[i] = order[j] => i = j
  BY SetToSeqLists, BrokerAssumption
<1>3. \A i \in Nat : IsFiniteSet(Done(i)) /\ Cardinality(Done(i)) \in Nat
  <2> TAKE i \in Nat
  <2>1. Done(i) \subseteq Clients
    BY DEF DoneAfter, WillsOf
  <2> HIDE DEF Done
  <2> QED BY <2>1, BrokerAssumption, FS_Subset, FS_CardinalityType
<1>4. \A b \in Clients : d.ctx[b].mid \in Nat
  BY DEF Exact, Types, Context
<1>5. OrderedLeftInv(p, 0, d)
  <2>1. LeftInv(p, 0, d)
    BY KeepsAllSame DEF LeftInv
  <2>2. \A b \in Clients : d.ctx[b].mid <= d.ctx[b].mid + Cardinality(Done(0))
    <3> HIDE DEF Done
    <3> QED BY <1>3, <1>4
  <2> QED BY <2>1, <2>2 DEF OrderedLeftInv
<1>6. ASSUME NEW i \in 1 .. n, NEW e, OrderedLeftInv(p, i - 1, e)
      PROVE  OrderedLeftInv(p, i, LeftStep(p, e, i))
  <2> DEFINE c == order[i]
             f == ContextSendWill(e, c)
  <2>1. /\ c \in Clients /\ i - 1 \in Nat /\ i \in Nat
        /\ Exact(e, NoneHeld) /\ KeepsAll(d, e) /\ Ordered(e)
        /\ \A b \in Clients : e.ctx[b].mid <= d.ctx[b].mid + Cardinality(Done(i - 1))
    BY <1>2, <1>6 DEF OrderedLeftInv, LeftInv
  <2>2. \A j \in i .. n : e.ctx[order[j]].will = d.ctx[order[j]].will
    <3>1. \A j \in (i - 1) + 1 .. n : e.ctx[order[j]].will = d.ctx[order[j]].will
      BY <1>6 DEF OrderedLeftInv
    <3> HIDE DEF order, n
    <3> QED BY <3>1
  <2>3. e.ctx[c].will = d.ctx[c].will
    <3>1. i \in i .. n
      BY <1>2
    <3> QED BY <2>2, <3>1
  <2>4. \A b \in Clients : e.ctx[b].mid \in Nat
    BY <2>1 DEF Exact, Types, Context
  <2>5. Done(i) = IF d.ctx[c].will # <<>> THEN Done(i - 1) \cup {c} ELSE Done(i - 1)
    <3>1. \A j : j \in 1 .. i <=> j \in 1 .. i - 1 \/ j = i
      BY <1>2
    <3> QED BY <2>1, <3>1 DEF DoneAfter, WillsOf
  <2>6. c \notin Done(i - 1)
    <3>1. \A j \in 1 .. i - 1 : j \in 1 .. n /\ j # i
      BY <1>2
    <3> QED BY <1>2, <3>1 DEF DoneAfter
  <2>7. d.ctx[c].will # <<>> => Cardinality(Done(i)) = Cardinality(Done(i - 1)) + 1
    <3> HIDE DEF Done, c
    <3> QED BY <1>3, <2>1, <2>5, <2>6, FS_AddElement
  <2>8. d.ctx[c].will # <<>> => OneLeft(e)
    <3> SUFFICES ASSUME d.ctx[c].will # <<>>, NEW b \in Clients
                 PROVE  e.ctx[b].mid < MaxMid
      BY DEF OneLeft
    <3>1. Done(i) \subseteq WillsOf(d)
      BY DEF DoneAfter
    <3>2. IsFiniteSet(WillsOf(d))
      BY BrokerAssumption, FS_Subset DEF WillsOf
    <3> DEFINE all == Cardinality(WillsOf(d))
               before == Cardinality(Done(i - 1))
    <3>3. Cardinality(Done(i)) <= all /\ all \in Nat
      BY <3>1, <3>2, FS_Subset, FS_CardinalityType
    <3>4. d.ctx[b].mid + all <= MaxMid /\ d.ctx[b].mid \in Nat /\ MaxMid \in Nat
      BY <1>4, Limits
    <3>5. e.ctx[b].mid <= d.ctx[b].mid + before /\ e.ctx[b].mid \in Nat /\ before \in Nat /\ before + 1 <= all
      BY <1>3, <2>1, <2>4, <2>7, <3>3
    <3> DEFINE x == e.ctx[b].mid
               y == d.ctx[b].mid
    <3>6. x \in Nat /\ y \in Nat /\ x <= y + before /\ y + all <= MaxMid
      BY <3>4, <3>5
    <3> HIDE DEF all, before, x, y
    <3>7. x < MaxMid
      BY <3>3, <3>4, <3>5, <3>6
    <3> QED BY <3>7 DEF x
  <2> HIDE DEF c, Done
  <2>9. /\ Exact(f, NoneHeld) /\ KeepsAll(e, f) /\ Ordered(f) /\ Gave(e, f)
        /\ d.ctx[c].will = <<>> => SameMids(e, f)
        /\ \A b \in Clients \ {c} : f.ctx[b].will = e.ctx[b].will
    BY <2>1, <2>3, <2>8, ExactContextSendWill, OrderedContextSendWill
  <2>10. LeftStep(p, e, i) = f
    BY DEF LeftStep, c
  <2> HIDE DEF f
  <2>11. LeftInv(p, i, f)
    <3>1. KeepsAll(d, f)
      BY <2>1, <2>9, KeepsAllOn
    <3> QED BY <2>9, <3>1 DEF LeftInv
  <2>12. \A b \in Clients : f.ctx[b].mid <= d.ctx[b].mid + Cardinality(Done(i))
    <3> TAKE b \in Clients
    <3>1. f.ctx[b].mid \in {e.ctx[b].mid, e.ctx[b].mid + 1} /\ (d.ctx[c].will = <<>> => f.ctx[b].mid = e.ctx[b].mid)
      BY <2>9 DEF Gave, SameMids
    <3>2. /\ e.ctx[b].mid <= d.ctx[b].mid + Cardinality(Done(i - 1)) /\ e.ctx[b].mid \in Nat
          /\ d.ctx[b].mid \in Nat /\ Cardinality(Done(i - 1)) \in Nat
      BY <1>3, <1>4, <2>1, <2>4
    <3>3. Cardinality(Done(i)) = IF d.ctx[c].will # <<>> THEN Cardinality(Done(i - 1)) + 1 ELSE Cardinality(Done(i - 1))
      BY <2>5, <2>7
    <3> QED BY <3>1, <3>2, <3>3
  <2>13. \A j \in i + 1 .. n : f.ctx[order[j]].will = d.ctx[order[j]].will
    <3> TAKE j \in i + 1 .. n
    <3>1. j \in i .. n /\ j \in 1 .. n /\ j # i
      BY <1>2
    <3>2. order[j] \in Clients \ {c}
      BY <1>2, <3>1 DEF c
    <3> QED BY <2>2, <2>9, <3>1, <3>2
  <2> QED BY <2>9, <2>10, <2>11, <2>12, <2>13 DEF OrderedLeftInv, Done
<1> HIDE DEF p, n, order
<1>7. OrderedLeftInv(p, n, OfOrderedLeft!Pass(p, d, n))
  BY <1>2, <1>5, <1>6, OfOrderedLeft!PassKeeps
<1> QED
  BY <1>1, <1>7 DEF OrderedLeftInv

-----------------------------------------------------------------------------
\* The order of the queues that there are, and of those that the file has saved
OrderIInv == Ordered(db) /\ (disk # <<>> => Ordered(saved))

\* A step whose handler keeps the order keeps the invariant.
LEMMA OrderedBecomes ==
  ASSUME OrderIInv, NEW new, Exact(new, NoneHeld), Ordered(new), Becomes(new)
  PROVE  OrderIInv'
<1> DEFINE e == [new EXCEPT !.out = [c \in Clients |-> <<>>]]
<1>1. e.ctx = new.ctx /\ e.subs = new.subs
  BY DEF Exact, Types
<1>2. db' = e /\ disk' = disk /\ saved' = saved
  BY DEF Becomes
<1> HIDE DEF e
<1>3. Ordered(e)
  BY <1>1, OrderedSame
<1> QED
  BY <1>2, <1>3 DEF OrderIInv

\* A guard of the bound leaves an identifier for each client.
LEMMA LeftIsOneLeft ==
  ASSUME BrokerIInv, IdentifiersLeft(1)
  PROVE  OneLeft(db)
<1> SUFFICES ASSUME NEW b \in Clients
             PROVE  db.ctx[b].mid < MaxMid
  BY DEF OneLeft
<1> DEFINE mid == db.ctx[b].mid
<1>1. mid \in Nat
  BY DEF BrokerIInv, Exact, Types, Context
<1>2. mid + 1 <= MaxMid
  BY DEF IdentifiersLeft
<1> HIDE DEF mid
<1>3. mid < MaxMid
  BY <1>1, <1>2, Limits
<1> QED
  BY <1>3 DEF mid

\* Each packet of a client that keeps to the protocol keeps the order.
LEMMA PacketKeepsOrder ==
  ASSUME BrokerIInv, OrderIInv, NEW c \in Clients, PacketHandle(c)
  PROVE  OrderIInv'
<1> DEFINE msgs == db.ctx[c].msgs
<1>1. Exact(db, NoneHeld) /\ body \in Nat /\ Ordered(db)
  BY DEF BrokerIInv, OrderIInv
<1>2. ASSUME NEW p \in Publications, Publish(c, p)
      PROVE  OrderIInv'
  <2> DEFINE mid == IF p.qos = 0 THEN 0 ELSE (body % MaxMid) + 1
  <2>1. /\ Becomes(HandlePublish(db, c, mid, Message(p))) /\ IdentifiersLeft(1)
        /\ \A k \in DOMAIN msgs : msgs[k].dir = "in" => msgs[k].mid # mid
    BY <1>2 DEF Publish, Incoming, ToSet
  <2>2. mid \in Nat
    <3>1. MaxMid \in Nat /\ MaxMid > 0
      BY BrokerAssumption
    <3> QED BY <1>1, <3>1
  <2>3. Message(p) \in Content
    BY ClientsAssumption, MessageTypes
  <2>4. OneLeft(db)
    BY <2>1, LeftIsOneLeft
  <2> HIDE DEF mid
  <2> DEFINE m == Message(p)
  <2> HIDE DEF m
  <2>5. Exact(HandlePublish(db, c, mid, m), NoneHeld) /\ Ordered(HandlePublish(db, c, mid, m))
    BY <1>1, <2>1, <2>2, <2>3, <2>4, ExactHandlePublish, OrderedHandlePublish DEF m
  <2> QED BY <2>1, <2>5, OrderedBecomes DEF m
<1>3. ASSUME NEW m \in Incoming(c), PublishAgain(c, m.mid) \/ Pubrel(c, m.mid)
      PROVE  OrderIInv'
  <2>1. PICK k \in DOMAIN msgs : msgs[k] = m /\ m.dir = "in"
    BY DEF Incoming, ToSet
  <2>2. CASE PublishAgain(c, m.mid)
    <3> DEFINE new == HandlePublish(db, c, m.mid, [qos |-> 2, retain |-> FALSE])
    <3>1. Exact(new, NoneHeld) /\ Ordered(new)
      BY <1>1, <2>1, ExactPublishAgain, OrderedPublishAgain
    <3>2. Becomes(new)
      BY <2>2 DEF PublishAgain
    <3> HIDE DEF new
    <3> QED BY <3>1, <3>2, OrderedBecomes
  <2>3. CASE Pubrel(c, m.mid)
    <3>1. OneLeft(db) /\ Becomes(HandlePubrel(db, c, m.mid))
      BY <2>3, LeftIsOneLeft DEF Pubrel
    <3>2. Exact(HandlePubrel(db, c, m.mid), NoneHeld) /\ Ordered(HandlePubrel(db, c, m.mid))
      BY <1>1, <3>1, ExactAnswers, OrderedAnswers
    <3> QED BY <3>1, <3>2, OrderedBecomes
  <2> QED BY <1>3, <2>2, <2>3
<1>4. ASSUME NEW mid, Ack(c, mid)
      PROVE  OrderIInv'
  <2>1. Exact(HandlePubackcomp(db, c, mid), NoneHeld) /\ Ordered(HandlePubackcomp(db, c, mid))
    BY <1>1, ExactAnswers, OrderedAnswers
  <2> QED BY <1>4, <2>1, OrderedBecomes DEF Ack
<1>5. ASSUME NEW m \in Sent(c, 2), Pubrec(c, m.mid)
      PROVE  OrderIInv'
  <2>1. PICK k \in DOMAIN msgs : msgs[k] = m /\ m.dir = "out" /\ m.qos = 2 /\ m.dup
    BY DEF Sent, ToSet
  <2>2. msgs[k].mid = m.mid /\ msgs[k].dir = "out" /\ msgs[k].qos > 0 /\ msgs[k].dup
    BY <2>1
  <2>3. Exact(HandlePubrec(db, c, m.mid), NoneHeld) /\ Ordered(HandlePubrec(db, c, m.mid))
    BY <1>1, <2>2, ExactAnswers, OrderedAnswers
  <2> QED BY <1>5, <2>3, OrderedBecomes DEF Pubrec
<1>6. ASSUME NEW topic \in Names, Unsubscribe(c, topic)
      PROVE  OrderIInv'
  <2>1. Exact(HandleUnsubscribe(db, c, 1, topic), NoneHeld) /\ Ordered(HandleUnsubscribe(db, c, 1, topic))
    BY <1>1, ExactHandleUnsubscribe, OrderedHandleUnsubscribe
  <2> QED BY <1>6, <2>1, OrderedBecomes DEF Unsubscribe
<1>7. ASSUME NEW topic \in Names, NEW qos \in 1 .. 2, Subscribe(c, topic, qos)
      PROVE  OrderIInv'
  <2>1. db.ctx[c].mid < MaxMid
    <3> DEFINE mid == db.ctx[c].mid
    <3>1. mid \in Nat
      BY <1>1 DEF Exact, Types, Context
    <3>2. mid + MaxBody < MaxMid
      BY <1>7 DEF Subscribe
    <3> HIDE DEF mid
    <3>3. MaxBody \in Nat
      BY ClientsAssumption
    <3>4. mid < MaxMid
      BY <3>1, <3>2, <3>3, Limits
    <3> QED BY <3>4 DEF mid
  <2>2. qos \in 0 .. 2
    OBVIOUS
  <2>3. Exact(HandleSubscribe(db, c, 1, topic, qos), NoneHeld) /\ Ordered(HandleSubscribe(db, c, 1, topic, qos))
    BY <1>1, <2>1, <2>2, ExactHandleSubscribe, OrderedHandleSubscribe
  <2> QED BY <1>7, <2>3, OrderedBecomes DEF Subscribe
<1> QED
  BY <1>2, <1>3, <1>4, <1>5, <1>6, <1>7 DEF PacketHandle

\* Every step of the broker keeps the order of the queues, and of those it has saved.
LEMMA StepKeepsOrder ==
  ASSUME BrokerIInv, OrderIInv, [Next]_brokerVars
  PROVE  OrderIInv'
<1>1. Exact(db, NoneHeld) /\ SavedIsExact /\ Ordered(db) /\ (disk # <<>> => Ordered(saved))
  BY DEF BrokerIInv, SavedIsExact, OrderIInv
<1>2. ASSUME NEW c \in Clients, Connect(c)
      PROVE  OrderIInv'
  <2>1. PICK p \in Accepted :
          Becomes(HandleConnect(db, c, p.clean, IF p.will = <<>> THEN <<>> ELSE <<Message(Head(p.will))>>))
    BY <1>2 DEF Connect
  <2> DEFINE will == IF p.will = <<>> THEN <<>> ELSE <<Message(Head(p.will))>>
  <2>2. p.clean \in BOOLEAN /\ will \in {<<>>} \cup {<<m>> : m \in Content}
    BY WillTypes
  <2> HIDE DEF will
  <2>3. Exact(HandleConnect(db, c, p.clean, will), NoneHeld) /\ Ordered(HandleConnect(db, c, p.clean, will))
    BY <1>1, <2>2, ExactHandleConnect, OrderedHandleConnect
  <2> QED BY <2>1, <2>3, OrderedBecomes DEF will
<1>3. ASSUME NEW c \in Clients, Disconnect(c)
      PROVE  OrderIInv'
  <2>1. Exact(HandleDisconnect(db, c), NoneHeld) /\ Ordered(HandleDisconnect(db, c))
    BY <1>1, ExactHandleDisconnect, OrderedHandleDisconnect
  <2> QED BY <1>3, <2>1, OrderedBecomes DEF Disconnect
<1>4. ASSUME NEW c \in Clients, ConnectionLost(c)
      PROVE  OrderIInv'
  <2>1. db.ctx[c].will # <<>> => OneLeft(db)
    BY <1>4, LeftIsOneLeft DEF ConnectionLost, Wills
  <2>2. Exact(DoDisconnect(db, c), NoneHeld) /\ Ordered(DoDisconnect(db, c))
    BY <1>1, <2>1, ExactDoDisconnect, OrderedDoDisconnect
  <2> QED BY <1>4, <2>2, OrderedBecomes DEF ConnectionLost
<1>5. ASSUME NEW c \in Clients, Expire(c)
      PROVE  OrderIInv'
  <2>1. Exact(ContextCleanup(db, c), NoneHeld) /\ Ordered(ContextCleanup(db, c))
    BY <1>1, ExactContextCleanup, OrderedContextCleanup
  <2> QED BY <1>5, <2>1, OrderedBecomes DEF Expire
<1>6. ASSUME NEW c \in Clients, Write(c)
      PROVE  OrderIInv'
  <2>1. Exact(MessageWrite(db, c), NoneHeld) /\ Ordered(MessageWrite(db, c))
    BY <1>1, ExactMessageWrite, OrderedMessageWrite
  <2> QED BY <1>6, <2>1, OrderedBecomes DEF Write
<1>7. ASSUME NEW c \in Clients, NEW k \in DOMAIN db.ctx[c].msgs, Retry(c, k)
      PROVE  OrderIInv'
  <2> DEFINE new == [db EXCEPT !.ctx[c].msgs[k] = TimedOut(@)]
  <2>1. Exact(new, NoneHeld) /\ Ordered(new)
    BY <1>1, ExactRetry, OrderedRetry
  <2>2. Becomes(new)
    BY <1>7 DEF Retry
  <2> HIDE DEF new
  <2> QED BY <2>1, <2>2, OrderedBecomes
<1>8. ASSUME NEW c \in Clients, PacketHandle(c)
      PROVE  OrderIInv'
  BY <1>8, PacketKeepsOrder
<1>9. CASE Refuse
  BY <1>1, <1>9, OrderedBecomes DEF Refuse
<1>10. CASE Backup
  BY <1>1, <1>10 DEF Backup, OrderIInv
<1>11. CASE Crash
  <2>1. Ordered(db')
    <3>1. CASE disk = <<>>
      BY <1>11, <3>1, OrderedEmpty DEF Crash
    <3>2. CASE disk # <<>>
      <4>1. Exact(saved, NoneHeld) /\ disk = File(saved) /\ Ordered(saved)
        BY <1>1, <3>2 DEF SavedIsExact
      <4>2. Ordered(Restore(File(saved)))
        BY <4>1, OrderedRestore
      <4> QED BY <1>11, <3>2, <4>1, <4>2 DEF Crash
    <3> QED BY <3>1, <3>2
  <2> QED BY <1>11, <2>1 DEF Crash, OrderIInv
<1>12. CASE Stop
  <2>1. \A b \in Clients : db.ctx[b].mid + Cardinality(WillsOf(db)) <= MaxMid
    BY <1>12 DEF Stop, IdentifiersLeft, Wills, WillsOf
  <2>2. Exact(Left(db), NoneHeld) /\ Ordered(Left(db))
    BY <1>1, <2>1, ExactLeft, OrderedLeft
  <2>3. Ordered(Restore(File(Left(db))))
    BY <2>2, OrderedRestore
  <2> QED BY <1>12, <2>3 DEF Stop, OrderIInv
<1>13. CASE UNCHANGED brokerVars
  BY <1>13 DEF brokerVars, OrderIInv, Ordered
<1> QED
  BY <1>2, <1>3, <1>4, <1>5, <1>6, <1>7, <1>8, <1>9, <1>10, <1>11, <1>12, <1>13 DEF Next

\* The queues are in order in every state, and so are those of the file: the identifiers of what
\* goes to a client rise towards the end of its queue, those of what comes from it differ, and
\* with one message in flight none is on its way ahead of one that waits.
THEOREM OrderInvariant == Spec => []OrderIInv
<1>1. Init => OrderIInv
  BY OrderedEmpty DEF Init, OrderIInv
<1>2. BrokerIInv /\ OrderIInv /\ [Next]_brokerVars => OrderIInv'
  BY StepKeepsOrder
<1> QED
  BY <1>1, <1>2, BrokerInvariant, PTL DEF Spec

\* No two messages on the way to a client, or from it, have one identifier, through take-overs,
\* retries, crashes and restarts (last_mid, mqtt3_db_message_store_find).
THEOREM IdentifiersAlwaysDistinct == Spec => []MidsAreDistinct
<1>1. BrokerIInv /\ OrderIInv => MidsAreDistinct
  <2> SUFFICES ASSUME BrokerIInv, OrderIInv, NEW c \in Clients,
                      NEW i \in DOMAIN Queue(c), NEW j \in DOMAIN Queue(c), i # j,
                      Queue(c)[i].mid = Queue(c)[j].mid, Queue(c)[i].dir = Queue(c)[j].dir
               PROVE  Queue(c)[i].qos = 0
    BY DEF MidsAreDistinct
  <2> DEFINE s == db.ctx[c].msgs
             last == db.ctx[c].mid
  <2>1. s \in Seq(Msg) /\ last \in Nat /\ InOrder(s, last) /\ Queue(c) = s
    BY DEF BrokerIInv, Exact, Types, Context, OrderIInv, Ordered, Queue
  <2> HIDE DEF s, last
  <2>2. /\ s[i] \in Msg /\ s[j] \in Msg /\ i \in DOMAIN s /\ j \in DOMAIN s /\ (i < j \/ j < i)
        /\ s[i].mid = s[j].mid /\ s[i].dir = s[j].dir
    BY <2>1
  <2>3. /\ Given(s[i], last) /\ Given(s[j], last)
        /\ Behind(s[i], s[j]) \/ Behind(s[j], s[i])
    BY <2>1, <2>2 DEF InOrder
  <2>4. s[i].dir = "out"
    <3>1. s[i].dir \in {"in", "out"}
      BY <2>2 DEF Msg
    <3> QED BY <2>2, <2>3, <3>1 DEF Behind
  <2>5. s[i].mid \in Nat /\ s[i].qos \in 0 .. 2 /\ s[j].qos \in 0 .. 2
    BY <2>2 DEF Msg
  <2>6. ~(s[i].qos > 0 /\ s[j].qos > 0)
    BY <2>2, <2>3, <2>4, <2>5 DEF Behind
  <2>7. s[i].qos = 0 <=> s[j].qos = 0
    <3>1. \A m \in {s[i], s[j]} : m.mid \in 1 .. last => m.mid # 0
      OBVIOUS
    <3> QED BY <2>2, <2>3, <2>4, <2>5, <3>1 DEF Given
  <2>8. s[i].qos = 0
    BY <2>5, <2>6, <2>7
  <2> QED BY <2>1, <2>8
<1> QED
  BY <1>1, BrokerInvariant, OrderInvariant, PTL

\* With one message in flight, none of QoS 1 or 2 is sent before those ahead of it in the queue:
\* what mosquitto.conf promises of max_inflight_messages (mqtt3_db_message_write, _message_remove).
THEOREM OneInFlightKeepsOrder ==
  ASSUME MaxInflight = 1
  PROVE  Spec => []SentInOrder
<1>1. BrokerIInv /\ OrderIInv => SentInOrder
  <2> SUFFICES ASSUME BrokerIInv, OrderIInv, NEW c \in Clients,
                      NEW i \in DOMAIN Queue(c), NEW j \in DOMAIN Queue(c), i < j,
                      Queue(c)[i].dir = "out", Queue(c)[j].dir = "out",
                      Queue(c)[i].qos = Queue(c)[j].qos, Queue(c)[j].qos > 0,
                      Queue(c)[j].state \in {"wait_for_puback", "wait_for_pubrec"}
               PROVE  Queue(c)[i].state # "queued"
    BY DEF SentInOrder
  <2>1. Behind(Queue(c)[i], Queue(c)[j])
    BY DEF OrderIInv, Ordered, InOrder, Queue
  <2> QED BY <2>1 DEF Behind
<1> QED
  BY <1>1, BrokerInvariant, OrderInvariant, PTL

=============================================================================
