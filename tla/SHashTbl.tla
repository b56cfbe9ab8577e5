------------------------------ MODULE SHashTbl ------------------------------
(***************************************************************************)
(* The static hash table of the FASTer FTL (target_spw/shashtbl.c): a node *)
(* per logical page that lives in the log area, chained from a bucket.     *)
(* Nodes are cut from an arena of fixed size and never given back to it: a *)
(* removed node is pushed on a pool, from which insertions pop first.  The *)
(* table of a bank is a record t; its chains are sequences of nodes.       *)
(***************************************************************************)
EXTENDS Integers, Sequences, SequencesExt

CONSTANTS
  Hash,           \* bucket of every key: hashfunc_RJ(key) % HASH_BUCKET_SIZE
  BucketSize,     \* HASH_BUCKET_SIZE
  ArenaSize,      \* nodes of a bank: HASH_NODE_BYTES_PER_BANK / sizeof(hashnode)
  INVALID         \* 0xABABABAB

Keys    == DOMAIN Hash
Buckets == 0 .. BucketSize - 1

ASSUME HashAssumption == Hash \in [Keys -> Buckets] /\ ArenaSize \in Nat /\ INVALID \notin Keys

shashtbl_init == [bucket |-> [h \in Buckets |-> <<>>], free_node_pool |-> <<>>, num_elmts |-> 0]

\* Position of a key in its chain, 0 when it is not there.
Find(t, key) == SelectInSeq(t.bucket[Hash[key]], LAMBDA n : n.key = key)

shashtbl_get(t, key) ==
  IF key \notin Keys \/ Find(t, key) = 0 THEN INVALID
  ELSE t.bucket[Hash[key]][Find(t, key)].data

shashtbl_insert(t, key, data) ==
  LET reuse == t.free_node_pool # <<>>
      node  == IF reuse THEN Head(t.free_node_pool) ELSE t.num_elmts
  IN  [bucket         |-> [t.bucket EXCEPT ![Hash[key]] = <<[key |-> key, data |-> data, node |-> node]>> \o @],
       free_node_pool |-> IF reuse THEN Tail(t.free_node_pool) ELSE <<>>,
       num_elmts      |-> IF reuse THEN t.num_elmts ELSE t.num_elmts + 1]

\* The nodes of some keys, the last key first: removed in ascending order of the
\* keys, this is the order in which the pool has them.
NodesDown(t, keys) ==
  LET down == SetToSortSeq(keys, >)
  IN  [i \in 1 .. Len(down) |-> t.bucket[Hash[down[i]]][Find(t, down[i])].node]

\* Mutant: when the chain's head is removed, the rest of the chain goes with it.
shashtbl_remove_Head(t, keys) ==
  [t EXCEPT !.bucket = [h \in Buckets |-> IF @[h] # <<>> /\ Head(@[h]).key \in keys THEN <<>>
                                          ELSE SelectSeq(@[h], LAMBDA n : n.key \notin keys)],
            !.free_node_pool = NodesDown(t, keys) \o @]

\* shashtbl_remove of every key of a set, in ascending order.
shashtbl_remove(t, keys) ==
  [t EXCEPT !.bucket = [h \in Buckets |-> SelectSeq(@[h], LAMBDA n : n.key \notin keys)],
            !.free_node_pool = NodesDown(t, keys) \o @]

\* shashtbl_update of every key that new_val gives a new value.
shashtbl_update(t, new_val) ==
  LET Updated(n) == IF n.key \in DOMAIN new_val THEN [n EXCEPT !.data = new_val[n.key]] ELSE n
  IN  [t EXCEPT !.bucket = [h \in Buckets |-> [i \in DOMAIN @[h] |-> Updated(@[h][i])]]]

-----------------------------------------------------------------------------
NodesOf(t) == UNION {{n.node : n \in ToSet(t.bucket[h])} : h \in Buckets}

\* Every node that was cut from the arena is in one chain or in the pool, once; a key
\* is in the chain of its bucket only, and once; the arena is large enough.
WellFormed(t) ==
  /\ t.num_elmts <= ArenaSize
  /\ NodesOf(t) \cup ToSet(t.free_node_pool) = 0 .. t.num_elmts - 1
  /\ NodesOf(t) \cap ToSet(t.free_node_pool) = {}
  /\ IsInjective(t.free_node_pool)
  /\ \A h \in Buckets : LET c == t.bucket[h] IN
       \A i, j \in DOMAIN c : Hash[c[i].key] = h /\ (i # j => c[i].key # c[j].key /\ c[i].node # c[j].node)
=============================================================================
