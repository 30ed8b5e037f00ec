------------------------------- MODULE SubTree ------------------------------
(***************************************************************************)
(* The broker's tree of subscriptions and retained messages (subs.c).  A   *)
(* tree is the sequence of its nodes, each followed by its children and    *)
(* what is below them, in the order they were made; a node is known by its *)
(* path, the levels from the root.  The children of the root ("", "$SYS"   *)
(* and what else begins with $) repeat the first level of the paths below. *)
(***************************************************************************)
EXTENDS Topics

None == [topic |-> <<>>]     \* no retained message

Node(path) == [path |-> path, subs |-> <<>>, retained |-> None]

\* mqtt3_db_open
EmptyTree == <<Node(<<(<<>>)>>), Node(<<(<<"$", "S", "Y", "S">>)>>)>>

PathOf(str) == <<Head(Tokens(str))>> \o Tokens(str)

Paths(tree) == {tree[i].path : i \in DOMAIN tree}
Children(tree, path) == SelectSeq(tree, LAMBDA n : Len(n.path) = Len(path) + 1 /\ IsPrefix(path, n.path))
At(tree, path) == CHOOSE i \in DOMAIN tree : tree[i].path = path

\* The elements of a sequence at some places, in their order.
Selected(seq, places) ==
  LET selected[i \in 0 .. Len(seq)] ==
        IF i = 0 THEN <<>>
        ELSE IF i \in places THEN Append(selected[i - 1], seq[i]) ELSE selected[i - 1]
  IN  selected[Len(seq)]

Bare(node) == node.subs = <<>> /\ node.retained = None

\* _sub_add without a client: the nodes down to a path that are missing, the first of
\* them as the last child.
WithPath(tree, path) ==
  LET known == Max({k \in 0 .. Len(path) : k = 0 \/ SubSeq(path, 1, k) \in Paths(tree)})
      place == Max({i \in DOMAIN tree : IsPrefix(SubSeq(path, 1, known), tree[i].path)})
      missing == [k \in 1 .. Len(path) - known |-> Node(SubSeq(path, 1, known + k))]
  IN  SubSeq(tree, 1, place) \o missing \o SubSeq(tree, place + 1, Len(tree))

\* Mutant of SubAdd: it does not look for a leaf of the client.
SubAddAgain(tree, client, filter, qos) ==
  LET grown == WithPath(tree, PathOf(filter))
      i == At(grown, PathOf(filter))
  IN  [grown EXCEPT ![i].subs = Append(@, [client |-> client, qos |-> qos])]

\* mqtt3_sub_add: one leaf for each client, a second subscription changes its QoS.
SubAdd(tree, client, filter, qos) ==
  LET grown == WithPath(tree, PathOf(filter))
      i == At(grown, PathOf(filter))
      leaves == grown[i].subs
      known == {k \in DOMAIN leaves : leaves[k].client = client}
      subs == IF known # {} THEN [k \in DOMAIN leaves |-> IF k \in known THEN [leaves[k] EXCEPT !.qos = qos]
                                                          ELSE leaves[k]]
              ELSE Append(leaves, [client |-> client, qos |-> qos])
  IN  [grown EXCEPT ![i].subs = subs]

WithoutClient(leaves, client) == Selected(leaves, {k \in DOMAIN leaves : leaves[k].client # client})

\* Mutant of Pruned: a retained message does not keep its node.
PrunedRetained(tree, path, top) ==
  LET Spare(n) == /\ Len(n.path) >= top
                  /\ IsPrefix(n.path, path)
                  /\ \A k \in DOMAIN tree : IsPrefix(n.path, tree[k].path)
                                              => tree[k].subs = <<>> /\ IsPrefix(tree[k].path, path)
  IN  Selected(tree, {i \in DOMAIN tree : ~Spare(tree[i])})

\* The nodes on a path from the bottom up, as long as there is nothing at or below them.
Pruned(tree, path, top) ==
  LET Spare(n) == /\ Len(n.path) >= top
                  /\ IsPrefix(n.path, path)
                  /\ \A k \in DOMAIN tree : IsPrefix(n.path, tree[k].path)
                                              => Bare(tree[k]) /\ IsPrefix(tree[k].path, path)
  IN  Selected(tree, {i \in DOMAIN tree : ~Spare(tree[i])})

\* mqtt3_sub_remove
SubRemove(tree, client, filter) ==
  LET path == PathOf(filter)
      left == [i \in DOMAIN tree |-> IF tree[i].path = path
                                     THEN [tree[i] EXCEPT !.subs = WithoutClient(@, client)] ELSE tree[i]]
  IN  Pruned(left, path, 2)

\* mqtt3_subs_clean_session with tmp_remove_subs, which prune the path of each leaf of the
\* client.  "" and $SYS stay, as they have no parent.
CleanSession(tree, client) ==
  LET left == [i \in DOMAIN tree |-> [tree[i] EXCEPT !.subs = WithoutClient(@, client)]]
      Top(path) == IF Len(path) > 0 /\ <<Head(path)>> \in Paths(EmptyTree) THEN 2 ELSE 1
      pruned[i \in 0 .. Len(tree)] ==
        IF i = 0 THEN left
        ELSE IF left[i] # tree[i] THEN Pruned(pruned[i - 1], tree[i].path, Top(tree[i].path))
        ELSE pruned[i - 1]
  IN  pruned[Len(tree)]

(***************************************************************************)
(* _sub_search: the nodes whose leaves get a message, in the order they    *)
(* are found.                                                              *)
(***************************************************************************)
Search(tree, topic) ==
  LET tokens == Tokens(topic)
      found[path \in Paths(tree), i \in 1 .. Len(tokens) + 1] ==
        LET At1(n) ==
              IF i <= Len(tokens) /\ Last(n.path) \in {tokens[i], <<"+">>}
              THEN found[n.path, i + 1] \o (IF i = Len(tokens) THEN <<n>> ELSE <<>>)
              ELSE IF Last(n.path) = <<"#">> /\ Children(tree, n.path) = <<>> THEN <<n>> ELSE <<>>
            branches == Children(tree, path)
        IN  FlattenSeq([k \in DOMAIN branches |-> At1(branches[k])])
      root == <<Head(tokens)>>
  IN  IF root \in Paths(tree) THEN found[root, 1] ELSE <<>>

(***************************************************************************)
(* mqtt3_db_messages_queue sets the retained message (_subs_process does,  *)
(* at the node reached without a wildcard): an empty payload clears it.    *)
(***************************************************************************)
Retain(tree, message) ==
  LET path == PathOf(message.topic)
  IN  IF <<Head(path)>> \notin Paths(tree) THEN tree
      ELSE LET grown == WithPath(tree, path)
           IN  [grown EXCEPT ![At(grown, path)].retained = IF message.empty THEN None ELSE message]

(***************************************************************************)
(* mqtt3_retain_queue and _retain_search: the retained messages a new      *)
(* subscription gets.  `hash` is the result -1, with which the level above *)
(* learns that the filter ends in #.                                       *)
(***************************************************************************)
RetainSearch(tree, filter) ==
  LET tokens == Tokens(filter)
      n == Len(tokens)
      Kept(node) == IF node.retained = None THEN {} ELSE {node.retained}
      search[path \in Paths(tree), i \in 1 .. n] ==
        LET branches == Children(tree, path)
            hash == tokens[i] = <<"#">> /\ i = n
            At1(k) ==
              LET b == branches[k]
                  below == search[b.path, i + 1]
                  last == k = Len(branches) /\ tokens[i + 1] = <<"#">> /\ Len(path) > 1
              IN  IF hash THEN Kept(b) \cup search[b.path, i].sent
                  ELSE IF Last(b.path) = <<"+">> \/ tokens[i] \notin {Last(b.path), <<"+">>} THEN {}
                  ELSE IF i = n THEN Kept(b)
                  ELSE below.sent \cup (IF below.hash \/ last THEN Kept(b) ELSE {})
        IN  [sent |-> UNION {At1(k) : k \in DOMAIN branches},
             hash |-> hash /\ branches # <<>>]
      root == <<Head(tokens)>>
  IN  IF root \in Paths(tree) THEN search[root, 1].sent ELSE {}
=============================================================================
