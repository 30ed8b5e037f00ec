------------------------ MODULE TopicRouting_proofs ------------------------
(***************************************************************************)
(* Proofs about the broker's tree of subscriptions, for any clients,       *)
(* filters, topics, access rules and any number of leaves.                 *)
(*                                                                         *)
(* TreeOK needs the types and that the children of the root that           *)
(* mqtt3_db_open makes are never pruned: a new path hangs on the longest   *)
(* known part of it, and where nothing is known behind the whole tree.     *)
(***************************************************************************)
EXTENDS TopicRouting, FiniteSetTheorems, SequenceTheorems, TLAPS

\* The levels of the strings that are used.
Strings == Filters \cup {m.topic : m \in Messages}
Level ==
  {<<>>, <<"$", "S", "Y", "S">>} \cup UNION {{PathOf(s)[k] : k \in DOMAIN PathOf(s)} : s \in Strings}

\* A leaf of the tree, and a node
Leaf == [client : Clients, qos : {0, 2}]
NodeType == [path : Seq(Level) \ {<<>>}, subs : Seq(Leaf), retained : Messages \cup {None}]

\* The three parts of TreeOK, of some tree.
Distinct(t) == \A i, j \in DOMAIN t : t[i].path = t[j].path => i = j
Attached(t) == \A i \in DOMAIN t : Len(t[i].path) > 1 => Front(t[i].path) \in Paths(t)
Single(leaves) == \A k, l \in DOMAIN leaves : leaves[k].client = leaves[l].client => k = l

\* What mqtt3_db_open makes
Roots == {<<(<<>>)>>, <<(<<"$", "S", "Y", "S">>)>>}

\* The invariant.
Grown(t) ==
  /\ t \in Seq(NodeType)
  /\ Distinct(t) /\ Attached(t) /\ \A i \in DOMAIN t : Single(t[i].subs)
  /\ Roots \subseteq Paths(t)

TreeIInv == Grown(tree)

-----------------------------------------------------------------------------
(* Strings and their levels.                                               *)

\* A string has at least one level.
LEMMA LevelsAreSeq ==
  ASSUME NEW str \in Seq(STRING)
  PROVE  \E n \in Nat \ {0} : /\ DOMAIN Levels(str) = 1 .. n
                              /\ Levels(str) = [k \in 1 .. n |-> Levels(str)[k]]
<1> DEFINE cuts == {0, Len(str) + 1} \cup {i \in DOMAIN str : str[i] = "/"}
           n == Cardinality(cuts) - 1
           at(k) == CHOOSE i \in cuts : Cardinality({j \in cuts : j < i}) = k - 1
<1>1. IsFiniteSet(cuts)
  <2>1. cuts \subseteq 0 .. Len(str) + 1
    OBVIOUS
  <2>2. IsFiniteSet(0 .. Len(str) + 1)
    BY FS_Interval
  <2> HIDE DEF cuts
  <2> QED BY <2>1, <2>2, FS_Subset
<1>2. n \in Nat \ {0}
  <2> DEFINE more == cuts \ {0}
  <2>1. 0 \in cuts /\ Len(str) + 1 \in more
    OBVIOUS
  <2> HIDE DEF cuts
  <2>2. IsFiniteSet(more) /\ Cardinality(more) = Cardinality(cuts) - 1
    BY <1>1, <2>1, FS_RemoveElement
  <2>3. Cardinality(more) \in Nat /\ Cardinality(more) # 0 /\ Cardinality(cuts) \in Nat
    BY <1>1, <2>1, <2>2, FS_EmptySet, FS_CardinalityType
  <2> QED BY <2>2, <2>3
<1>3. Levels(str) = [k \in 1 .. n |-> SubSeq(str, at(k) + 1, at(k + 1) - 1)]
  BY DEF Levels
<1> HIDE DEF n, at
<1> QED
  BY <1>2, <1>3

\* A path has a level at least, and is made of levels.
LEMMA PathIsSeq ==
  ASSUME NEW str \in Strings
  PROVE  PathOf(str) \in Seq(Level) \ {<<>>}
<1>1. str \in Seq(STRING)
  BY TopicsAssumption DEF Strings
<1> DEFINE levels == Levels(str)
           T == {levels[k] : k \in DOMAIN levels} \cup {<<>>}
<1>2. PICK n \in Nat \ {0} : DOMAIN levels = 1 .. n /\ levels = [k \in 1 .. n |-> levels[k]]
  BY <1>1, LevelsAreSeq
<1>3. levels \in Seq(T) /\ Len(levels) = n
  <2>1. \A k \in 1 .. n : levels[k] \in T
    BY <1>2
  <2> HIDE DEF levels, T
  <2>2. \A U, l : (l = [k \in 1 .. n |-> l[k]] /\ \A k \in 1 .. n : l[k] \in U)
                    => l \in Seq(U) /\ Len(l) = n
    BY ONLY n \in Nat \ {0}
  <2> QED BY <1>2, <2>1, <2>2
<1>4. Tokens(str) \in Seq(T) /\ Tokens(str) # <<>>
  <2>1. <<>> \in T
    OBVIOUS
  <2> HIDE DEF T
  <2>2. <<(<<>>)>> \in Seq(T)
    BY <2>1
  <2>3. Tokens(str) \in {levels, <<(<<>>)>> \o levels}
    BY DEF Tokens
  <2> HIDE DEF levels
  <2>4. levels # <<>>
    BY <1>3
  <2>5. \A a, b \in Seq(T) : b # <<>> => a \o b \in Seq(T) /\ a \o b # <<>>
    OBVIOUS
  <2> QED BY ONLY <1>3, <2>2, <2>3, <2>4, <2>5
<1>5. PathOf(str) \in Seq(T) /\ Len(PathOf(str)) > 0
  <2> HIDE DEF T
  <2>1. <<Head(Tokens(str))>> \in Seq(T)
    BY <1>4
  <2> QED BY <1>4, <2>1 DEF PathOf
<1>6. PathOf(str) \in Seq(Level)
  <2>1. \A k \in DOMAIN PathOf(str) : PathOf(str)[k] \in Level
    BY DEF Level
  <2> HIDE DEF T
  <2> QED BY <1>5, <2>1
<1> QED
  BY <1>5, <1>6

-----------------------------------------------------------------------------
(* Selected, and the greatest of some numbers.                             *)

\* At which places of s the elements of r are.
Places(f, r, s, places) ==
  /\ f \in [DOMAIN r -> places]
  /\ \A k \in DOMAIN r : r[k] = s[f[k]]
  /\ \A k, l \in DOMAIN r : f[k] = f[l] => k = l
  /\ \A i \in places : \E k \in DOMAIN r : f[k] = i

\* The loop of Selected, and what each of its rounds keeps.
SelectedStep(p, d, i) == IF i \in p.places THEN Append(d, p.seq[i]) ELSE d
SelectedInv(p, i, d) ==
  /\ d \in Seq(p.elements)
  /\ \E f : Places(f, d, p.seq, p.places \cap 1 .. i)
OfSelected == INSTANCE Passes WITH Step <- SelectedStep, Inv <- SelectedInv

\* What is selected is what there is at the places, each once.
LEMMA SelectedPlaces ==
  ASSUME NEW S, NEW seq \in Seq(S), NEW places, places \subseteq DOMAIN seq
  PROVE  /\ Selected(seq, places) \in Seq(S)
         /\ \E f : Places(f, Selected(seq, places), seq, places)
<1> DEFINE p == [elements |-> S, seq |-> seq, places |-> places]
           n == Len(seq)
<1>1. Selected(seq, places) = OfSelected!Pass(p, <<>>, n)
  BY DEF Selected, OfSelected!Pass, SelectedStep
<1>2. SelectedInv(p, 0, <<>>)
  <2>1. Places([k \in {} |-> k], <<>>, seq, places \cap 1 .. 0)
    BY DEF Places
  <2> QED BY <2>1 DEF SelectedInv
<1>3. ASSUME NEW i \in 1 .. n, NEW d, SelectedInv(p, i - 1, d)
      PROVE  SelectedInv(p, i, SelectedStep(p, d, i))
  <2>1. d \in Seq(S)
    BY <1>3 DEF SelectedInv
  <2>2. PICK f : Places(f, d, seq, places \cap 1 .. i - 1)
    BY <1>3 DEF SelectedInv
  <2>3. CASE i \notin places
    <3>1. places \cap 1 .. i = places \cap 1 .. i - 1
      BY <2>3
    <3> QED BY <2>1, <2>2, <2>3, <3>1 DEF SelectedInv, SelectedStep
  <2>4. CASE i \in places
    <3> DEFINE e == Append(d, seq[i])
               m == Len(d) + 1
               g == [k \in DOMAIN e |-> IF k = m THEN i ELSE f[k]]
    <3>1. e \in Seq(S) /\ DOMAIN e = 1 .. m /\ e[m] = seq[i] /\ m \in Nat
          /\ \A k \in DOMAIN d : k \in DOMAIN e /\ e[k] = d[k] /\ k # m
      BY <2>1
    <3>2. DOMAIN e = DOMAIN d \cup {m}
      BY <2>1, <3>1
    <3> HIDE DEF e, m
    <3>3. \A k \in DOMAIN d : f[k] \in places /\ f[k] \in 1 .. i - 1 /\ f[k] # i
      BY <2>2 DEF Places
    <3>4. g \in [DOMAIN e -> places \cap 1 .. i]
      BY <2>4, <3>2, <3>3
    <3>5. \A k \in DOMAIN e : e[k] = seq[g[k]]
      BY <2>2, <3>1, <3>2 DEF Places
    <3>6. \A k, l \in DOMAIN e : g[k] = g[l] => k = l
      BY <2>2, <3>1, <3>2, <3>3 DEF Places
    <3>7. ASSUME NEW j \in places \cap 1 .. i
          PROVE  \E k \in DOMAIN e : g[k] = j
      <4>1. CASE j = i
        BY <3>1, <3>2, <4>1
      <4>2. CASE j # i
        <5>1. j \in places \cap 1 .. i - 1
          BY <4>2
        <5>2. PICK k \in DOMAIN d : f[k] = j
          BY <2>2, <5>1 DEF Places
        <5> QED BY <3>1, <5>2
      <4> QED BY <4>1, <4>2
    <3> HIDE DEF g
    <3>8. Places(g, e, seq, places \cap 1 .. i)
      BY <3>4, <3>5, <3>6, <3>7 DEF Places
    <3> QED BY <2>4, <3>1, <3>8 DEF SelectedInv, SelectedStep, e
  <2> QED BY <2>3, <2>4
<1> HIDE DEF p, n
<1>4. SelectedInv(p, n, OfSelected!Pass(p, <<>>, n))
  <2>1. n \in Nat
    BY DEF n
  <2> QED BY <1>2, <1>3, <2>1, OfSelected!PassKeeps
<1>5. places \cap 1 .. n = places
  BY DEF n
<1> QED
  BY <1>1, <1>4, <1>5 DEF SelectedInv, p

\* Numbers that have a bound have a greatest one.
LEMMA MaxIsThere ==
  ASSUME NEW T, T \subseteq Nat, T # {}, NEW n \in Nat, \A i \in T : i <= n
  PROVE  Max(T) \in T /\ \A i \in T : i <= Max(T)
<1> DEFINE U == {n - i : i \in T}
<1>1. U \subseteq Nat /\ U # {}
  <2>1. \A i \in T : n - i \in Nat
    OBVIOUS
  <2>2. PICK i \in T : TRUE
    OBVIOUS
  <2>3. n - i \in U
    OBVIOUS
  <2> QED BY <2>1, <2>3
<1>2. PICK u \in U : \A v \in U : ~(v < u)
  <2> HIDE DEF U
  <2> QED BY <1>1, OfSelected!Least
<1>3. PICK k \in T : u = n - k
  OBVIOUS
<1>4. ASSUME NEW i \in T
      PROVE  k >= i
  <2>1. n - i \in U
    OBVIOUS
  <2>2. ~(n - i < n - k)
    BY <1>2, <1>3, <2>1
  <2>3. i \in Nat /\ k \in Nat
    OBVIOUS
  <2> QED BY <2>2, <2>3
<1> QED
  BY <1>4 DEF Max

-----------------------------------------------------------------------------
(* Prefixes                                                                *)

\* A prefix, element by element.
LEMMA PrefixPoints ==
  ASSUME NEW S, NEW a \in Seq(S), NEW b \in Seq(S)
  PROVE  IsPrefix(a, b) <=> Len(a) <= Len(b) /\ \A i \in 1 .. Len(a) : a[i] = b[i]
<1>1. SubSeq(a, 1, Len(a)) = a
  OBVIOUS
<1>2. ASSUME Len(a) <= Len(b)
      PROVE  SubSeq(b, 1, Len(a)) = a <=> \A i \in 1 .. Len(a) : a[i] = b[i]
  <2> DEFINE s == SubSeq(b, 1, Len(a))
  <2>1. s \in Seq(S) /\ Len(s) = Len(a) /\ \A i \in 1 .. Len(a) : s[i] = b[i]
    BY <1>2
  <2> HIDE DEF s
  <2>2. s = a <=> \A i \in 1 .. Len(a) : s[i] = a[i]
    BY <2>1
  <2> QED BY <2>1, <2>2 DEF s
<1> QED
  BY <1>1, <1>2 DEF IsPrefix

\* A prefix of a prefix
LEMMA PrefixTrans ==
  ASSUME NEW S, NEW a \in Seq(S), NEW b \in Seq(S), NEW c \in Seq(S), IsPrefix(a, b), IsPrefix(b, c)
  PROVE  IsPrefix(a, c)
<1>1. Len(a) <= Len(b) /\ \A i \in 1 .. Len(a) : a[i] = b[i]
  BY PrefixPoints
<1>2. Len(b) <= Len(c) /\ \A i \in 1 .. Len(b) : b[i] = c[i]
  BY PrefixPoints
<1>3. Len(a) <= Len(c) /\ \A i \in 1 .. Len(a) : a[i] = c[i]
  BY <1>1, <1>2
<1> QED
  BY <1>3, PrefixPoints

\* The first elements of a sequence.
LEMMA Beginning ==
  ASSUME NEW S, NEW s \in Seq(S), NEW n \in 0 .. Len(s)
  PROVE  LET r == SubSeq(s, 1, n)
         IN  /\ r \in Seq(S) /\ Len(r) = n /\ \A i \in 1 .. n : r[i] = s[i]
             /\ IsPrefix(r, s)
             /\ n > 0 => Front(r) = SubSeq(s, 1, n - 1)
<1> DEFINE r == SubSeq(s, 1, n)
<1>1. r \in Seq(S) /\ Len(r) = n /\ \A i \in 1 .. n : r[i] = s[i]
  OBVIOUS
<1> HIDE DEF r
<1>2. IsPrefix(r, s)
  BY <1>1, PrefixPoints
<1>3. ASSUME n > 0
      PROVE  Front(r) = SubSeq(s, 1, n - 1)
  <2> DEFINE a == SubSeq(r, 1, n - 1)
             b == SubSeq(s, 1, n - 1)
  <2>1. a \in Seq(S) /\ Len(a) = n - 1 /\ \A i \in 1 .. n - 1 : a[i] = r[i]
    BY <1>1, <1>3
  <2>2. b \in Seq(S) /\ Len(b) = n - 1 /\ \A i \in 1 .. n - 1 : b[i] = s[i]
    BY <1>3
  <2>3. Front(r) = a
    BY <1>1 DEF Front
  <2> HIDE DEF a, b
  <2>4. a = b
    BY <1>1, <2>1, <2>2
  <2> QED BY <2>3, <2>4 DEF b
<1> QED
  BY <1>1, <1>2, <1>3 DEF r

\* e is s with new behind a place.
IsInserted(e, s, new, place) ==
  /\ Len(e) = Len(s) + Len(new)
  /\ \A i \in 1 .. place : e[i] = s[i]
  /\ \A i \in 1 .. Len(new) : e[place + i] = new[i]
  /\ \A i \in place + 1 .. Len(s) : e[Len(new) + i] = s[i]

\* Another sequence put into a sequence
LEMMA Inserted ==
  ASSUME NEW S, NEW s \in Seq(S), NEW new \in Seq(S), NEW place \in 0 .. Len(s),
         NEW e, e = SubSeq(s, 1, place) \o new \o SubSeq(s, place + 1, Len(s))
  PROVE  e \in Seq(S) /\ IsInserted(e, s, new, place)
<1> DEFINE a == SubSeq(s, 1, place)
           b == SubSeq(s, place + 1, Len(s))
           c == a \o new
<1>1. a \in Seq(S) /\ Len(a) = place /\ \A i \in 1 .. place : a[i] = s[i]
  OBVIOUS
<1>2. b \in Seq(S) /\ Len(b) = Len(s) - place /\ \A i \in 1 .. Len(s) - place : b[i] = s[place + i]
  OBVIOUS
<1>3. /\ c \in Seq(S) /\ Len(c) = place + Len(new)
      /\ \A i \in 1 .. place : c[i] = s[i]
      /\ \A i \in 1 .. Len(new) : c[place + i] = new[i]
  <2> HIDE DEF a
  <2> QED BY <1>1
<1>4. Len(s) \in Nat /\ Len(new) \in Nat /\ place \in Nat /\ place <= Len(s)
  OBVIOUS
<1>5. e = c \o b
  OBVIOUS
<1> HIDE DEF a, b, c
<1>6. /\ e \in Seq(S) /\ Len(e) = Len(c) + Len(b)
      /\ \A i \in 1 .. Len(c) : e[i] = c[i]
      /\ \A i \in 1 .. Len(b) : e[Len(c) + i] = b[i]
  <2>1. c \in Seq(S) /\ b \in Seq(S)
    BY ONLY <1>2, <1>3
  <2> QED BY ONLY <1>5, <2>1
<1>7. Len(e) = Len(s) + Len(new)
  BY ONLY <1>2, <1>3, <1>4, <1>6
<1>8. ASSUME NEW i \in 1 .. place
      PROVE  e[i] = s[i]
  <2>1. i \in 1 .. Len(c)
    BY ONLY <1>2, <1>3, <1>4, i \in 1 .. place
  <2> QED BY ONLY <1>3, <1>6, <2>1, i \in 1 .. place
<1>9. ASSUME NEW i \in 1 .. Len(new)
      PROVE  e[place + i] = new[i]
  <2>1. place + i \in 1 .. Len(c)
    BY ONLY <1>2, <1>3, <1>4, i \in 1 .. Len(new)
  <2> QED BY ONLY <1>3, <1>6, <2>1, i \in 1 .. Len(new)
<1>10. ASSUME NEW i \in place + 1 .. Len(s)
       PROVE  e[Len(new) + i] = s[i]
  <2>1. i - place \in 1 .. Len(s) - place /\ place + (i - place) = i
    BY ONLY <1>4, i \in place + 1 .. Len(s)
  <2>2. Len(c) + (i - place) = Len(new) + i
    BY ONLY <1>3, <1>4, i \in place + 1 .. Len(s)
  <2>3. e[Len(c) + (i - place)] = b[i - place]
    BY ONLY <1>2, <1>6, <2>1
  <2>4. b[i - place] = s[place + (i - place)]
    BY ONLY <1>2, <2>1
  <2> QED BY ONLY <2>1, <2>2, <2>3, <2>4
<1> QED
  BY ONLY <1>6, <1>7, <1>8, <1>9, <1>10 DEF IsInserted

-----------------------------------------------------------------------------
(* The operations of subs.c                                                *)

\* A function of the first numbers is a sequence.
LEMMA MadeSeq ==
  ASSUME NEW S, NEW n \in Nat, NEW e, e = [i \in 1 .. n |-> e[i]], \A i \in 1 .. n : e[i] \in S
  PROVE  e \in Seq(S) /\ DOMAIN e = 1 .. n
OBVIOUS

\* Other leaves and other retained messages at the nodes.
LEMMA Marked ==
  ASSUME NEW t, Grown(t), NEW e \in Seq(NodeType), DOMAIN e = DOMAIN t,
         \A i \in DOMAIN t : e[i].path = t[i].path /\ Single(e[i].subs)
  PROVE  Grown(e) /\ Paths(e) = Paths(t)
<1>1. Paths(e) = Paths(t)
  BY DEF Paths
<1>2. Distinct(e)
  BY DEF Distinct, Grown
<1>3. Attached(e)
  BY <1>1 DEF Attached, Grown
<1> QED
  BY <1>1, <1>2, <1>3 DEF Grown

\* _sub_add without a client: what is missing of a path is made once, each node on its parent.
LEMMA WithPathGrown ==
  ASSUME NEW t, Grown(t), NEW path \in Seq(Level) \ {<<>>}
  PROVE  Grown(WithPath(t, path)) /\ path \in Paths(WithPath(t, path))
<1> DEFINE K == {k \in 0 .. Len(path) : k = 0 \/ SubSeq(path, 1, k) \in Paths(t)}
           known == Max(K)
           I == {i \in DOMAIN t : IsPrefix(SubSeq(path, 1, known), t[i].path)}
           place == Max(I)
           m == Len(path) - known
           missing == [k \in 1 .. m |-> Node(SubSeq(path, 1, known + k))]
           e == SubSeq(t, 1, place) \o missing \o SubSeq(t, place + 1, Len(t))
<1>1. t \in Seq(NodeType) /\ path \in Seq(Level) /\ Len(path) \in Nat \ {0}
      /\ \A i \in DOMAIN t : t[i] \in NodeType /\ t[i].path \in Seq(Level) \ {<<>>}
  <2>1. t \in Seq(NodeType)
    BY DEF Grown
  <2>2. \A i \in DOMAIN t : t[i] \in NodeType
    BY <2>1
  <2>3. \A i \in DOMAIN t : t[i].path \in Seq(Level) \ {<<>>}
    BY <2>2 DEF NodeType
  <2> QED BY <2>1, <2>2, <2>3
<1>2. WithPath(t, path) = e
  BY DEF WithPath
<1>3. known \in K /\ \A k \in K : k <= known
  <2>1. K \subseteq Nat /\ 0 \in K /\ \A k \in K : k <= Len(path)
    BY <1>1
  <2> HIDE DEF K
  <2> QED BY <1>1, <2>1, MaxIsThere
<1> HIDE DEF known
<1>4. /\ known \in 0 .. Len(path)
      /\ known > 0 => SubSeq(path, 1, known) \in Paths(t)
      /\ \A k \in known + 1 .. Len(path) : SubSeq(path, 1, k) \notin Paths(t)
  <2>1. known \in 0 .. Len(path) /\ (known = 0 \/ SubSeq(path, 1, known) \in Paths(t))
    BY <1>3
  <2>2. ASSUME NEW k \in known + 1 .. Len(path), SubSeq(path, 1, k) \in Paths(t)
        PROVE  FALSE
    <3>1. k \in 0 .. Len(path) /\ ~(k <= known)
      BY <1>1, <2>1
    <3>2. k \in K
      BY <2>2, <3>1
    <3> QED BY <1>3, <3>1, <3>2
  <2> QED BY <2>1, <2>2
<1> HIDE DEF K
<1>5. place \in DOMAIN t
  <2>1. I \subseteq Nat /\ \A i \in I : i <= Len(t)
    BY <1>1
  <2>2. I # {}
    <3>1. CASE known = 0
      <4>1. PICK i \in DOMAIN t : TRUE
        BY DEF Grown, Roots, Paths
      <4>2. IsPrefix(SubSeq(path, 1, 0), t[i].path)
        <5>1. SubSeq(path, 1, 0) \in Seq(Level) /\ Len(SubSeq(path, 1, 0)) = 0
          BY <1>1
        <5>2. t[i].path \in Seq(Level) /\ Len(t[i].path) \in Nat
          BY <1>1
        <5> HIDE DEF I
        <5> DEFINE none == SubSeq(path, 1, 0)
        <5> HIDE DEF none
        <5>3. none \in Seq(Level) /\ Len(none) = 0
          BY <5>1 DEF none
        <5>4. Len(none) <= Len(t[i].path) /\ \A j \in 1 .. Len(none) : none[j] = t[i].path[j]
          BY <5>2, <5>3
        <5>5. IsPrefix(none, t[i].path)
          BY <5>2, <5>3, <5>4, PrefixPoints
        <5> QED BY <5>5 DEF none
      <4> QED BY <3>1, <4>2
    <3>2. CASE known > 0
      <4>1. PICK i \in DOMAIN t : t[i].path = SubSeq(path, 1, known)
        BY <1>4, <3>2 DEF Paths
      <4>2. IsPrefix(t[i].path, t[i].path)
        BY <1>1, PrefixPoints
      <4> QED BY <4>1, <4>2
    <3> QED BY <1>4, <3>1, <3>2
  <2>3. Len(t) \in Nat
    BY <1>1
  <2> HIDE DEF I
  <2>4. place \in I
    BY <2>1, <2>2, <2>3, MaxIsThere
  <2> QED BY <2>4 DEF I
<1> HIDE DEF I, place
<1>6. \A n \in 0 .. Len(path) : LET r == SubSeq(path, 1, n)
                                IN  /\ r \in Seq(Level) /\ Len(r) = n
                                    /\ n > 0 => Front(r) = SubSeq(path, 1, n - 1)
  BY <1>1, Beginning
<1>7. m \in Nat /\ \A k \in 1 .. m : known + k \in known + 1 .. Len(path)
  BY <1>1, <1>4
<1>8. missing \in Seq(NodeType) /\ Len(missing) = m
  <2>1. \A k \in 1 .. m : Node(SubSeq(path, 1, known + k)) \in NodeType
    <3> TAKE k \in 1 .. m
    <3>1. SubSeq(path, 1, known + k) \in Seq(Level) /\ Len(SubSeq(path, 1, known + k)) = known + k
      BY <1>4, <1>6, <1>7
    <3>2. SubSeq(path, 1, known + k) # <<>>
      BY <1>4, <3>1
    <3> QED BY <3>1, <3>2 DEF Node, NodeType
  <2> HIDE DEF m
  <2> QED BY <1>7, <2>1
<1>9. \A k \in 1 .. m : /\ missing[k].path = SubSeq(path, 1, known + k)
                        /\ missing[k].subs = <<>>
  BY DEF Node
<1> HIDE DEF m, missing
<1>10. /\ e \in Seq(NodeType) /\ Len(e) = Len(t) + m
       /\ \A i \in 1 .. place : e[i] = t[i]
       /\ \A i \in 1 .. m : e[place + i] = missing[i]
       /\ \A i \in place + 1 .. Len(t) : e[m + i] = t[i]
  <2>1. place \in 0 .. Len(t) /\ t \in Seq(NodeType)
    BY <1>1, <1>5
  <2>2. e = SubSeq(t, 1, place) \o missing \o SubSeq(t, place + 1, Len(t))
    OBVIOUS
  <2> HIDE DEF e
  <2>3. missing \in Seq(NodeType)
    BY <1>8
  <2>4. e \in Seq(NodeType) /\ IsInserted(e, t, missing, place)
    BY ONLY <2>1, <2>2, <2>3, Inserted
  <2> QED BY <1>8, <2>4 DEF IsInserted
<1> HIDE DEF e
\* Every node is an old one or a new one.
<1> DEFINE Old(i, j) ==
             /\ j \in DOMAIN t /\ e[i] = t[j]
             /\ \/ i = j /\ j <= place
                \/ i = j + m /\ j > place
           New(i, k) == k \in 1 .. m /\ e[i] = missing[k] /\ i = place + k
<1>11. \A i \in DOMAIN e : (\E j \in DOMAIN t : Old(i, j)) \/ (\E k \in 1 .. m : New(i, k))
  <2> TAKE i \in DOMAIN e
  <2>1. i \in 1 .. Len(t) + m /\ place \in 1 .. Len(t) /\ Len(t) \in Nat /\ DOMAIN t = 1 .. Len(t)
    BY <1>1, <1>5, <1>10
  <2>2. CASE i <= place
    <3>1. i \in 1 .. place /\ i \in DOMAIN t
      BY <2>1, <2>2
    <3>2. e[i] = t[i]
      BY <1>10, <3>1
    <3>3. Old(i, i)
      BY <2>2, <3>1, <3>2
    <3> QED BY <3>1, <3>3
  <2>3. CASE i > place /\ i <= place + m
    <3>1. i - place \in 1 .. m /\ place + (i - place) = i
      BY <1>7, <2>1, <2>3
    <3>2. New(i, i - place)
      BY <1>10, <3>1
    <3> QED BY <3>2
  <2>4. CASE i > place + m
    <3>1. i - m \in place + 1 .. Len(t) /\ m + (i - m) = i /\ i = (i - m) + m
      BY <1>7, <2>1, <2>4
    <3>2. Old(i, i - m)
      BY <1>10, <2>1, <3>1
    <3> QED BY <3>2
  <2> QED BY <1>7, <2>1, <2>2, <2>3, <2>4
<1>12. Paths(t) \subseteq Paths(e) /\ \A k \in 1 .. m : SubSeq(path, 1, known + k) \in Paths(e)
  <2>1. ASSUME NEW j \in DOMAIN t
        PROVE  t[j].path \in Paths(e)
    <3>1. \E i \in DOMAIN e : e[i] = t[j]
      <4>1. j \in 1 .. Len(t) /\ DOMAIN e = 1 .. Len(t) + m /\ place \in Nat
        BY <1>1, <1>5, <1>10
      <4>2. CASE j <= place
        <5>1. j \in DOMAIN e /\ e[j] = t[j]
          BY <1>7, <1>10, <4>1, <4>2
        <5> QED BY <5>1
      <4>3. CASE j > place
        <5>1. m + j \in DOMAIN e /\ e[m + j] = t[j]
          BY <1>7, <1>10, <4>1, <4>3
        <5> QED BY <5>1
      <4> QED BY <4>1, <4>2, <4>3
    <3> QED BY <3>1 DEF Paths
  <2>2. ASSUME NEW k \in 1 .. m
        PROVE  SubSeq(path, 1, known + k) \in Paths(e)
    <3>1. place + k \in DOMAIN e
      BY <1>1, <1>5, <1>7, <1>10
    <3>2. e[place + k].path = SubSeq(path, 1, known + k)
      BY <1>9, <1>10
    <3> QED BY <3>1, <3>2 DEF Paths
  <2> QED BY <2>1, <2>2 DEF Paths
<1>13. Distinct(e)
  <2> SUFFICES ASSUME NEW i \in DOMAIN e, NEW j \in DOMAIN e, e[i].path = e[j].path
               PROVE  i = j
    BY DEF Distinct
  <2>1. ASSUME NEW a \in DOMAIN t, NEW k \in 1 .. m, t[a].path = missing[k].path
        PROVE  FALSE
    BY <1>4, <1>7, <1>9, <2>1 DEF Paths
  <2>2. ASSUME NEW a \in DOMAIN t, NEW b \in DOMAIN t, Old(i, a), Old(j, b)
        PROVE  i = j
    <3>1. a = b
      BY <2>2 DEF Grown, Distinct
    <3>2. i = a \/ i = a + m
      BY <2>2
    <3>3. place \in Nat /\ a \in Nat /\ m \in Nat
      BY <1>1, <1>5, <1>7
    <3> QED BY <2>2, <3>1, <3>3
  <2>3. ASSUME NEW k \in 1 .. m, NEW l \in 1 .. m, New(i, k), New(j, l)
        PROVE  i = j
    <3>1. SubSeq(path, 1, known + k) = SubSeq(path, 1, known + l)
      BY <1>9, <2>3
    <3>2. known + k = known + l
      BY <1>4, <1>6, <1>7, <3>1
    <3>3. k = l
      BY <1>4, <1>7, <3>2
    <3> QED BY <2>3, <3>3
  <2> QED BY <1>11, <2>1, <2>2, <2>3
<1>14. Attached(e)
  <2> SUFFICES ASSUME NEW i \in DOMAIN e, Len(e[i].path) > 1
               PROVE  Front(e[i].path) \in Paths(e)
    BY DEF Attached
  <2>1. ASSUME NEW j \in DOMAIN t, Old(i, j)
        PROVE  Front(e[i].path) \in Paths(e)
    BY <1>12, <2>1 DEF Grown, Attached
  <2>2. ASSUME NEW k \in 1 .. m, New(i, k)
        PROVE  Front(e[i].path) \in Paths(e)
    <3>1. e[i].path = SubSeq(path, 1, known + k) /\ known + k \in 1 .. Len(path)
      <4>1. known + k \in known + 1 .. Len(path) /\ known \in Nat
        BY <1>4, <1>7
      <4>2. known + k \in 1 .. Len(path)
        BY <1>1, <4>1
      <4> QED BY <1>9, <2>2, <4>2
    <3>2. Front(e[i].path) = SubSeq(path, 1, (known + k) - 1) /\ known + k > 1
      <4> DEFINE n == known + k
      <4> HIDE DEF n
      <4>1. e[i].path = SubSeq(path, 1, n) /\ n \in 1 .. Len(path)
        BY <3>1 DEF n
      <4>2. n \in 0 .. Len(path) /\ n > 0
        BY <1>1, <4>1
      <4>3. Len(e[i].path) = n /\ Front(e[i].path) = SubSeq(path, 1, n - 1)
        BY <1>6, <4>1, <4>2
      <4>4. n > 1
        BY <4>3
      <4> QED BY <4>3, <4>4 DEF n
    <3>3. CASE k = 1
      <4>1. known > 0 /\ (known + k) - 1 = known
        BY <1>4, <3>2, <3>3
      <4> QED BY <1>4, <1>12, <3>2, <4>1
    <3>4. CASE k > 1
      <4>1. k - 1 \in 1 .. m /\ (known + k) - 1 = known + (k - 1)
        BY <1>4, <1>7, <3>4
      <4> QED BY <1>12, <3>2, <4>1
    <3> QED BY <3>3, <3>4
  <2> QED BY <1>11, <2>1, <2>2
<1>15. ASSUME NEW i \in DOMAIN e
       PROVE  Single(e[i].subs)
  <2>1. \A j \in DOMAIN t : Single(t[j].subs)
    BY DEF Grown
  <2>2. \A k \in 1 .. m : Single(missing[k].subs)
    BY <1>9 DEF Single
  <2> QED BY <1>11, <2>1, <2>2
<1>16. path \in Paths(e)
  <2>1. SubSeq(path, 1, Len(path)) = path
    <3>1. path \in Seq(Level)
      OBVIOUS
    <3> QED BY <3>1, SubSeqFull
  <2>2. CASE known = Len(path)
    <3>1. SubSeq(path, 1, known) \in Paths(t)
      BY <1>1, <1>4, <2>2
    <3> QED BY ONLY <1>12, <2>1, <2>2, <3>1
  <2>3. CASE known < Len(path)
    <3>1. m \in 1 .. m /\ known + m = Len(path)
      BY <1>1, <1>4, <2>3 DEF m
    <3> QED BY <1>12, <2>1, <3>1
  <2> QED BY <1>1, <1>4, <2>2, <2>3
<1>17. Roots \subseteq Paths(e)
  BY <1>12 DEF Grown
<1> QED
  BY <1>2, <1>10, <1>13, <1>14, <1>15, <1>16, <1>17 DEF Grown

\* mqtt3_sub_add makes one leaf for each client, whatever the tree was.
LEMMA SubAddGrown ==
  ASSUME NEW t, Grown(t), NEW client \in Clients, NEW filter \in Filters, NEW qos \in {0, 2}
  PROVE  Grown(SubAdd(t, client, filter, qos))
<1> DEFINE path == PathOf(filter)
           grown == WithPath(t, path)
           at == At(grown, path)
           leaves == grown[at].subs
           known == {k \in DOMAIN leaves : leaves[k].client = client}
           changed == [k \in DOMAIN leaves |-> IF k \in known THEN [leaves[k] EXCEPT !.qos = qos]
                                               ELSE leaves[k]]
           added == Append(leaves, [client |-> client, qos |-> qos])
           subs == IF known # {} THEN changed ELSE added
           e == [grown EXCEPT ![at].subs = subs]
<1>1. SubAdd(t, client, filter, qos) = e
  BY DEF SubAdd
<1>2. Grown(grown) /\ path \in Paths(grown)
  <2>1. path \in Seq(Level) \ {<<>>}
    BY PathIsSeq DEF Strings
  <2> HIDE DEF path
  <2> QED BY <2>1, WithPathGrown
<1> HIDE DEF path, grown
<1>3. grown \in Seq(NodeType) /\ at \in DOMAIN grown
  BY <1>2 DEF Grown, Paths, At
<1> HIDE DEF at
<1>4. leaves \in Seq(Leaf) /\ Single(leaves)
  <2>1. grown[at] \in NodeType
    BY <1>3
  <2> QED BY <1>2, <1>3, <2>1 DEF Grown, NodeType
<1> HIDE DEF leaves
<1>5. subs \in Seq(Leaf) /\ Single(subs)
  <2>1. CASE known # {}
    <3>1. \A k \in DOMAIN leaves : changed[k] \in Leaf /\ changed[k].client = leaves[k].client
      <4> TAKE k \in DOMAIN leaves
      <4>1. leaves[k] \in Leaf
        BY <1>4
      <4> HIDE DEF known
      <4> QED BY <4>1 DEF Leaf
    <3>2. DOMAIN changed = DOMAIN leaves /\ changed = [k \in 1 .. Len(leaves) |-> changed[k]]
      BY <1>4
    <3> HIDE DEF changed
    <3>3. Len(leaves) \in Nat /\ DOMAIN leaves = 1 .. Len(leaves)
      BY <1>4
    <3>4. changed \in Seq(Leaf)
      BY ONLY <3>1, <3>2, <3>3, MadeSeq
    <3>5. Single(changed)
      BY ONLY <1>4, <3>1, <3>2 DEF Single
    <3> QED BY <2>1, <3>4, <3>5
  <2>2. CASE known = {}
    <3> DEFINE leaf == [client |-> client, qos |-> qos]
    <3>1. leaf \in Leaf /\ leaf.client = client
      BY DEF Leaf
    <3>2. \A k \in DOMAIN leaves : leaves[k].client # client
      BY <2>2
    <3> HIDE DEF leaf, known
    <3>3. added = Append(leaves, leaf)
      BY DEF leaf
    <3>4. /\ added \in Seq(Leaf) /\ DOMAIN added = DOMAIN leaves \cup {Len(leaves) + 1}
          /\ added[Len(leaves) + 1] = leaf /\ \A k \in DOMAIN leaves : added[k] = leaves[k]
      BY <1>4, <3>1, <3>3
    <3> HIDE DEF added
    <3>5. Single(added)
      BY <1>4, <3>1, <3>2, <3>4 DEF Single
    <3> QED BY <2>2, <3>4, <3>5
  <2> QED BY <2>1, <2>2
<1> HIDE DEF subs
<1>6. /\ e \in Seq(NodeType) /\ DOMAIN e = DOMAIN grown
      /\ \A i \in DOMAIN grown : e[i].path = grown[i].path /\ Single(e[i].subs)
  <2>1. \A i \in DOMAIN grown : grown[i] \in NodeType /\ Single(grown[i].subs)
    BY <1>2, <1>3 DEF Grown
  <2>2. DOMAIN e = DOMAIN grown /\ e = [i \in 1 .. Len(grown) |-> e[i]]
    BY <1>3
  <2>3. \A i \in DOMAIN grown : /\ e[i] \in NodeType
                                /\ e[i].path = grown[i].path /\ Single(e[i].subs)
    BY <1>3, <1>5, <2>1 DEF NodeType
  <2> HIDE DEF e
  <2>4. e \in Seq(NodeType)
    <3>1. Len(grown) \in Nat /\ DOMAIN grown = 1 .. Len(grown)
      BY <1>3
    <3> QED BY ONLY <2>2, <2>3, <3>1, MadeSeq
  <2> QED BY <2>2, <2>3, <2>4
<1> HIDE DEF e
<1>7. Grown(e)
  BY <1>2, <1>6, Marked
<1> QED
  BY <1>1, <1>7

\* A retained message is set or cleared at a node that may be new.
LEMMA RetainGrown ==
  ASSUME NEW t, Grown(t), NEW message \in Messages
  PROVE  Grown(Retain(t, message))
<1> DEFINE path == PathOf(message.topic)
           grown == WithPath(t, path)
           at == At(grown, path)
           what == IF message.empty THEN None ELSE message
           e == [grown EXCEPT ![at].retained = what]
<1>1. Retain(t, message) \in {t, e}
  BY DEF Retain
<1>2. Grown(grown) /\ path \in Paths(grown)
  <2>1. path \in Seq(Level) \ {<<>>}
    BY PathIsSeq DEF Strings
  <2> HIDE DEF path
  <2> QED BY <2>1, WithPathGrown
<1> HIDE DEF path, grown
<1>3. grown \in Seq(NodeType) /\ at \in DOMAIN grown
  BY <1>2 DEF Grown, Paths, At
<1>4. what \in Messages \cup {None}
  OBVIOUS
<1> HIDE DEF at, what
<1>5. /\ e \in Seq(NodeType) /\ DOMAIN e = DOMAIN grown
      /\ \A i \in DOMAIN grown : e[i].path = grown[i].path /\ Single(e[i].subs)
  <2>1. \A i \in DOMAIN grown : grown[i] \in NodeType /\ Single(grown[i].subs)
    BY <1>2, <1>3 DEF Grown
  <2>2. DOMAIN e = DOMAIN grown /\ e = [i \in 1 .. Len(grown) |-> e[i]]
    BY <1>3
  <2>3. \A i \in DOMAIN grown : /\ e[i] \in NodeType
                                /\ e[i].path = grown[i].path /\ Single(e[i].subs)
    BY <1>3, <1>4, <2>1 DEF NodeType
  <2> HIDE DEF e
  <2>4. e \in Seq(NodeType)
    <3>1. Len(grown) \in Nat /\ DOMAIN grown = 1 .. Len(grown)
      BY <1>3
    <3> QED BY ONLY <2>2, <2>3, <3>1, MadeSeq
  <2> QED BY <2>2, <2>3, <2>4
<1> HIDE DEF e
<1>6. Grown(e)
  BY <1>2, <1>5, Marked
<1> QED
  BY <1>1, <1>6

\* The leaves of the other clients
LEMMA WithoutClientSingle ==
  ASSUME NEW leaves \in Seq(Leaf), Single(leaves), NEW client
  PROVE  WithoutClient(leaves, client) \in Seq(Leaf) /\ Single(WithoutClient(leaves, client))
<1> DEFINE places == {k \in DOMAIN leaves : leaves[k].client # client}
           r == Selected(leaves, places)
<1>1. WithoutClient(leaves, client) = r
  BY DEF WithoutClient
<1>2. places \subseteq DOMAIN leaves
  OBVIOUS
<1> HIDE DEF places
<1>3. r \in Seq(Leaf) /\ \E f : Places(f, r, leaves, places)
  BY <1>2, SelectedPlaces
<1>4. PICK f : Places(f, r, leaves, places)
  BY <1>3
<1> HIDE DEF r
<1>5. Single(r)
  BY <1>2, <1>4 DEF Places, Single
<1> QED
  BY <1>1, <1>3, <1>5

\* A node without the leaf of a client
Off(node, client) == [node EXCEPT !.subs = WithoutClient(node.subs, client)]

\* Some leaves of a client are gone, wherever they were.
LEMMA LeavesGone ==
  ASSUME NEW t, Grown(t), NEW client, NEW e, DOMAIN e = DOMAIN t, e = [i \in DOMAIN t |-> e[i]],
         \A i \in DOMAIN t : e[i] = t[i] \/ e[i] = Off(t[i], client)
  PROVE  Grown(e)
<1>1. t \in Seq(NodeType) /\ \A i \in DOMAIN t : t[i] \in NodeType /\ Single(t[i].subs)
  <2>1. t \in Seq(NodeType)
    BY DEF Grown
  <2>2. \A i \in DOMAIN t : t[i] \in NodeType
    BY <2>1
  <2> QED BY <2>1, <2>2 DEF Grown
<1>2. ASSUME NEW i \in DOMAIN t
      PROVE  e[i] \in NodeType /\ e[i].path = t[i].path /\ Single(e[i].subs)
  <2>1. CASE e[i] = t[i]
    BY <1>1, <2>1
  <2>2. CASE e[i] = Off(t[i], client)
    <3> DEFINE subs == WithoutClient(t[i].subs, client)
    <3>1. t[i] \in NodeType /\ t[i].subs \in Seq(Leaf) /\ Single(t[i].subs)
      BY <1>1 DEF NodeType
    <3>2. subs \in Seq(Leaf) /\ Single(subs)
      BY <3>1, WithoutClientSingle
    <3> HIDE DEF subs
    <3>3. e[i] = [t[i] EXCEPT !.subs = subs]
      BY <2>2 DEF subs, Off
    <3> QED BY <3>1, <3>2, <3>3 DEF NodeType
  <2> QED BY <2>1, <2>2
<1>3. e \in Seq(NodeType)
  <2>1. DOMAIN t = 1 .. Len(t) /\ Len(t) \in Nat
    BY <1>1
  <2>2. \A i \in 1 .. Len(t) : e[i] \in NodeType
    BY <1>2, <2>1
  <2>3. e = [i \in 1 .. Len(t) |-> e[i]]
    BY <2>1
  <2> QED BY ONLY <2>1, <2>2, <2>3
<1> QED
  BY <1>2, <1>3, Marked

\* What is pruned is bare down to its last node, so no node that stays loses its parent; and
\* nothing is pruned above the given level.
LEMMA PrunedGrown ==
  ASSUME NEW t, Grown(t), NEW path \in Seq(Level), NEW top \in Nat,
         \A r \in Roots : Len(r) >= top => ~IsPrefix(r, path)
  PROVE  Grown(Pruned(t, path, top))
<1> DEFINE Spare(n) == /\ Len(n.path) >= top
                       /\ IsPrefix(n.path, path)
                       /\ \A k \in DOMAIN t : IsPrefix(n.path, t[k].path)
                                                => Bare(t[k]) /\ IsPrefix(t[k].path, path)
           places == {i \in DOMAIN t : ~Spare(t[i])}
           e == Selected(t, places)
<1>1. Pruned(t, path, top) = e
  BY DEF Pruned
<1>2. t \in Seq(NodeType) /\ \A i \in DOMAIN t : t[i] \in NodeType /\ t[i].path \in Seq(Level) \ {<<>>}
  <2>1. t \in Seq(NodeType)
    BY DEF Grown
  <2>2. \A i \in DOMAIN t : t[i] \in NodeType
    BY <2>1
  <2> QED BY <2>1, <2>2 DEF NodeType
<1>3. places \subseteq DOMAIN t
  OBVIOUS
<1>4. e \in Seq(NodeType) /\ \E f : Places(f, e, t, places)
  <2> HIDE DEF places
  <2> QED BY <1>2, <1>3, SelectedPlaces
<1>5. PICK f : Places(f, e, t, places)
  BY <1>4
<1>6. \A k \in DOMAIN e : f[k] \in DOMAIN t /\ f[k] \in places /\ e[k] = t[f[k]]
  <2> HIDE DEF places, e
  <2> QED BY <1>3, <1>5 DEF Places
<1>7. \A i \in places : t[i].path \in Paths(e)
  <2> HIDE DEF places, e
  <2> QED BY <1>5, <1>6 DEF Places, Paths
<1>8. Distinct(e)
  <2> HIDE DEF places, e
  <2> QED BY <1>5, <1>6 DEF Places, Distinct, Grown
<1>9. \A k \in DOMAIN e : Single(e[k].subs)
  <2> HIDE DEF places, e
  <2> QED BY <1>6 DEF Grown
<1>10. Attached(e)
  <2> SUFFICES ASSUME NEW k \in DOMAIN e, Len(e[k].path) > 1
               PROVE  Front(e[k].path) \in Paths(e)
    BY DEF Attached
  <2> DEFINE i == f[k]
             own == t[i].path
             front == Front(own)
  <2>1. i \in DOMAIN t /\ ~Spare(t[i]) /\ e[k].path = own /\ own \in Seq(Level) /\ Len(own) > 1
    BY <1>2, <1>6
  <2> HIDE DEF e, i
  <2>2. front \in Seq(Level) /\ Len(front) = Len(own) - 1 /\ IsPrefix(front, own)
    <3>1. Len(own) - 1 \in 0 .. Len(own)
      BY <2>1
    <3>2. front = SubSeq(own, 1, Len(own) - 1)
      BY DEF Front
    <3>3. own \in Seq(Level)
      BY <2>1
    <3> HIDE DEF front, own
    <3> DEFINE n == Len(own) - 1
               r == SubSeq(own, 1, n)
    <3>4. n \in 0 .. Len(own)
      BY <3>1
    <3> HIDE DEF n
    <3>5. r \in Seq(Level) /\ Len(r) = n /\ IsPrefix(r, own)
      BY ONLY <3>3, <3>4, Beginning
    <3> QED BY <3>2, <3>5 DEF n
  <2>3. PICK j \in DOMAIN t : t[j].path = front
    <3>1. front \in Paths(t)
      BY <2>1 DEF Grown, Attached
    <3> HIDE DEF front
    <3> QED BY <3>1 DEF Paths
  <2>4. ASSUME Spare(t[j])
        PROVE  FALSE
    <3> HIDE DEF front
    <3>1. /\ Len(front) >= top
          /\ \A l \in DOMAIN t : IsPrefix(front, t[l].path) => Bare(t[l]) /\ IsPrefix(t[l].path, path)
      BY <2>3, <2>4
    <3>2. Len(own) >= top
      BY <2>1, <2>2, <3>1
    <3>3. IsPrefix(own, path)
      BY <2>1, <2>2, <3>1
    <3>4. ASSUME NEW l \in DOMAIN t, IsPrefix(own, t[l].path)
          PROVE  Bare(t[l]) /\ IsPrefix(t[l].path, path)
      <4>1. t[l].path \in Seq(Level)
        BY <1>2
      <4> HIDE DEF own
      <4>2. IsPrefix(front, t[l].path)
        BY <2>1, <2>2, <3>4, <4>1, PrefixTrans
      <4> QED BY <3>1, <4>2
    <3>5. Spare(t[i])
      BY <3>2, <3>3, <3>4
    <3> QED BY <2>1, <3>5
  <2>5. j \in places
    BY <2>3, <2>4
  <2> QED BY <1>7, <2>1, <2>3, <2>5
<1>11. Roots \subseteq Paths(e)
  <2> SUFFICES ASSUME NEW r \in Roots
               PROVE  r \in Paths(e)
    OBVIOUS
  <2>1. PICK i \in DOMAIN t : t[i].path = r
    BY DEF Grown, Paths
  <2>2. ~Spare(t[i])
    BY <2>1
  <2> QED BY <1>7, <2>1, <2>2
<1> HIDE DEF e
<1> QED
  BY <1>1, <1>4, <1>8, <1>9, <1>10, <1>11 DEF Grown

\* The children of the root that mqtt3_db_open makes
LEMMA EmptyGrown == Grown(EmptyTree) /\ Paths(EmptyTree) = Roots
<1> DEFINE a == <<(<<>>)>>
           b == <<(<<"$", "S", "Y", "S">>)>>
<1>1. a \in Seq(Level) /\ b \in Seq(Level) /\ Len(a) = 1 /\ Len(b) = 1 /\ a # b /\ a # <<>> /\ b # <<>>
  <2>1. <<>> \in Level /\ <<"$", "S", "Y", "S">> \in Level
    BY DEF Level
  <2> HIDE DEF Level
  <2>2. a[1] # b[1]
    <3>1. Len(<<"$", "S", "Y", "S">>) = 4 /\ Len(<<>>) = 0
      OBVIOUS
    <3> QED BY <3>1
  <2> QED BY <2>1, <2>2
<1>2. EmptyTree = <<Node(a), Node(b)>>
  BY DEF EmptyTree
<1>3. Roots = {a, b}
  BY DEF Roots
<1> HIDE DEF a, b
<1>4. Node(a) \in NodeType /\ Node(b) \in NodeType
  BY <1>1 DEF Node, NodeType
<1>5. /\ EmptyTree \in Seq(NodeType) /\ DOMAIN EmptyTree = {1, 2}
      /\ EmptyTree[1] = Node(a) /\ EmptyTree[2] = Node(b)
  BY <1>2, <1>4
<1>6. EmptyTree[1].path = a /\ EmptyTree[2].path = b /\ \A i \in {1, 2} : EmptyTree[i].subs = <<>>
  BY <1>5 DEF Node
<1>7. Paths(EmptyTree) = Roots
  BY <1>3, <1>5, <1>6 DEF Paths
<1>8. Distinct(EmptyTree)
  <2>1. \A i, j \in {1, 2} : EmptyTree[i].path = EmptyTree[j].path => i = j
    BY ONLY <1>1, <1>6
  <2> QED BY <1>5, <2>1 DEF Distinct
<1>9. Attached(EmptyTree)
  <2>1. \A i \in {1, 2} : Len(EmptyTree[i].path) = 1
    BY ONLY <1>1, <1>6
  <2>2. ~(1 > 1)
    OBVIOUS
  <2>3. \A i \in {1, 2} : ~(Len(EmptyTree[i].path) > 1)
    BY ONLY <2>1, <2>2, Zenon
  <2> QED BY ONLY <1>5, <2>3 DEF Attached
<1>10. \A i \in DOMAIN EmptyTree : Single(EmptyTree[i].subs)
  BY <1>5, <1>6 DEF Single
<1> QED
  BY <1>5, <1>7, <1>8, <1>9, <1>10 DEF Grown

\* The paths of the nodes that mqtt3_db_open makes have one level.
LEMMA RootsAreShort == \A r \in Roots : r \in Seq(Level) /\ Len(r) = 1 /\ r = <<r[1]>>
<1>1. <<>> \in Level /\ <<"$", "S", "Y", "S">> \in Level
  BY DEF Level
<1> HIDE DEF Level
<1>2. \A level \in Level : <<level>> \in Seq(Level) /\ Len(<<level>>) = 1 /\ <<level>>[1] = level
  OBVIOUS
<1> QED
  BY <1>1, <1>2 DEF Roots

\* mqtt3_sub_remove
LEMMA SubRemoveGrown ==
  ASSUME NEW t, Grown(t), NEW client, NEW filter \in Filters
  PROVE  Grown(SubRemove(t, client, filter))
<1> DEFINE path == PathOf(filter)
           left == [i \in DOMAIN t |-> IF t[i].path = path
                                       THEN [t[i] EXCEPT !.subs = WithoutClient(@, client)] ELSE t[i]]
<1>1. SubRemove(t, client, filter) = Pruned(left, path, 2)
  BY DEF SubRemove
<1>2. path \in Seq(Level)
  BY PathIsSeq DEF Strings
<1> HIDE DEF path
<1>3. DOMAIN left = DOMAIN t /\ left = [i \in DOMAIN t |-> left[i]]
  OBVIOUS
<1>4. \A i \in DOMAIN t : left[i] = t[i] \/ left[i] = Off(t[i], client)
  BY DEF Off
<1> HIDE DEF left
<1>5. Grown(left)
  BY <1>3, <1>4, LeavesGone
<1>6. ASSUME NEW r \in Roots, Len(r) >= 2
      PROVE  ~IsPrefix(r, path)
  <2>1. Len(r) = 1
    BY RootsAreShort
  <2> QED BY <1>6, <2>1
<1>7. Grown(Pruned(left, path, 2))
  BY <1>2, <1>5, <1>6, PrunedGrown
<1> QED
  BY <1>1, <1>7

\* The level above which CleanSession prunes nothing, its loop, and what each round keeps
TopOf(path) == IF Len(path) > 0 /\ <<Head(path)>> \in Paths(EmptyTree) THEN 2 ELSE 1
CleanStep(p, d, i) ==
  IF p.left[i] # p.tree[i] THEN Pruned(d, p.tree[i].path, TopOf(p.tree[i].path)) ELSE d
CleanInv(p, i, d) == Grown(d)
OfClean == INSTANCE Passes WITH Step <- CleanStep, Inv <- CleanInv

\* mqtt3_subs_clean_session
LEMMA CleanSessionGrown ==
  ASSUME NEW t, Grown(t), NEW client
  PROVE  Grown(CleanSession(t, client))
<1> DEFINE left == [i \in DOMAIN t |-> [t[i] EXCEPT !.subs = WithoutClient(@, client)]]
           p == [left |-> left, tree |-> t]
           n == Len(t)
<1>1. CleanSession(t, client) = OfClean!Pass(p, left, n)
  BY DEF CleanSession, OfClean!Pass, CleanStep, TopOf
<1>2. DOMAIN left = DOMAIN t /\ left = [i \in DOMAIN t |-> left[i]]
  OBVIOUS
<1>3. \A i \in DOMAIN t : left[i] = t[i] \/ left[i] = Off(t[i], client)
  BY DEF Off
<1> HIDE DEF left
<1>4. CleanInv(p, 0, left)
  BY <1>2, <1>3, LeavesGone DEF CleanInv
<1>5. n \in Nat /\ \A i \in 1 .. n : t[i] \in NodeType
  BY DEF Grown
<1>6. ASSUME NEW i \in 1 .. n, NEW d, CleanInv(p, i - 1, d)
      PROVE  CleanInv(p, i, CleanStep(p, d, i))
  <2> DEFINE path == t[i].path
             top == TopOf(path)
  <2>1. path \in Seq(Level) /\ top \in {1, 2}
    BY <1>5 DEF NodeType, TopOf
  <2>2. ASSUME NEW r \in Roots, Len(r) >= top, IsPrefix(r, path)
        PROVE  FALSE
    <3>1. r \in Seq(Level) /\ Len(r) = 1 /\ r = <<r[1]>>
      BY RootsAreShort
    <3>2. top = 1
      BY <2>1, <2>2, <3>1
    <3> HIDE DEF path
    <3>3. Len(path) >= 1 /\ path[1] = r[1]
      <4>1. Len(r) <= Len(path) /\ \A k \in 1 .. Len(r) : r[k] = path[k]
        <5>1. r \in Seq(Level) /\ path \in Seq(Level) /\ IsPrefix(r, path)
          BY <2>1, <2>2, <3>1
        <5> QED BY ONLY <5>1, PrefixPoints
      <4> QED BY <3>1, <4>1
    <3>4. <<Head(path)>> = r
      BY <2>1, <3>1, <3>3
    <3>5. <<Head(path)>> \in Paths(EmptyTree)
      BY <3>4, EmptyGrown
    <3> QED BY <3>2, <3>3, <3>5 DEF TopOf
  <2>3. CleanStep(p, d, i) \in {d, Pruned(d, path, top)}
    BY DEF CleanStep
  <2> HIDE DEF path, top
  <2>4. Grown(Pruned(d, path, top))
    <3>1. Grown(d) /\ top \in Nat
      BY <1>6, <2>1 DEF CleanInv
    <3> QED BY <2>1, <2>2, <3>1, PrunedGrown
  <2> QED BY <1>6, <2>3, <2>4 DEF CleanInv
<1> HIDE DEF p, n
<1>7. CleanInv(p, n, OfClean!Pass(p, left, n))
  BY <1>4, <1>5, <1>6, OfClean!PassKeeps
<1> QED
  BY <1>1, <1>7 DEF CleanInv

-----------------------------------------------------------------------------
\* Each request keeps the invariant: subscribing, unsubscribing, leaving, and publishing, retained
\* or not.
LEMMA TreeStep ==
  ASSUME TreeIInv, [Next]_treeVars
  PROVE  TreeIInv'
<1>1. CASE UNCHANGED treeVars
  BY <1>1 DEF TreeIInv, treeVars
<1>2. ASSUME NEW c \in Clients, NEW f \in Filters, NEW q \in {0, 2}, Subscribe(c, f, q)
      PROVE  TreeIInv'
  BY <1>2, SubAddGrown DEF Subscribe, TreeIInv
<1>3. ASSUME NEW c \in Clients, NEW f \in Filters, Unsubscribe(c, f)
      PROVE  TreeIInv'
  BY <1>3, SubRemoveGrown DEF Unsubscribe, TreeIInv
<1>4. ASSUME NEW c \in Clients, Leave(c)
      PROVE  TreeIInv'
  BY <1>4, CleanSessionGrown DEF Leave, TreeIInv
<1>5. ASSUME NEW c \in Clients, NEW m \in Messages, Publish(c, m)
      PROVE  TreeIInv'
  <2>1. tree' \in {tree, Retain(tree, m)}
    BY <1>5 DEF Publish
  <2> QED BY <2>1, RetainGrown DEF TreeIInv
<1>6. ASSUME NEW c \in Clients, NEW m \in Messages, Refuse(c, m)
      PROVE  TreeIInv'
  BY <1>6 DEF Refuse, TreeIInv
<1> QED
  BY <1>1, <1>2, <1>3, <1>4, <1>5, <1>6 DEF Next

\* The tree is always as its requests make it, whatever they are.
THEOREM TreeInvariant == Spec => []TreeIInv
<1>1. Init => TreeIInv
  BY EmptyGrown DEF Init, TreeIInv
<1> QED
  BY <1>1, TreeStep, PTL DEF Spec

\* Every node is made once and hangs on its parent, with one leaf for each client, after any
\* subscriptions, cancellations and retained messages (mqtt3_sub_add, mqtt3_sub_remove,
\* mqtt3_subs_clean_session, _subs_process).
THEOREM TreeAlwaysOK == Spec => []TreeOK
<1>1. TreeIInv => TreeOK
  BY DEF TreeIInv, Grown, Distinct, Attached, Single, TreeOK
<1> QED
  BY <1>1, TreeInvariant, PTL

=============================================================================
