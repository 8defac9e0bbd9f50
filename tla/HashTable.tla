----------------------------- MODULE HashTable -----------------------------
(***************************************************************************)
(* gtl::HashTable (container/hash_table.h), behind LRUCache and            *)
(* UnorderedMap: what each operation makes of the memory.                  *)
(*                                                                         *)
(* All the nodes of a table are one chain from head_; a bucket is the node *)
(* before its first one and its last one.  The node before may be of       *)
(* another bucket, or the table itself, which stands for its head_: every  *)
(* change of the chain must keep the buckets on both sides of it right.    *)
(*                                                                         *)
(* mem is all the memory: the next of every node and head, the key of      *)
(* every node, and the two other fields of every table.  The element of a  *)
(* node is its key, and the hash of a key is the key.                      *)
(***************************************************************************)
EXTENDS Links

CONSTANTS Nodes,           \* addresses of nodes, which are numbers
          Keys,            \* natural numbers
          min_bucket_size_

ASSUME TableAssumption ==
    /\ Nodes \subseteq Nat /\ IsFiniteSet(Nodes) /\ Null \notin Nodes
    /\ Keys \subseteq Nat
    /\ min_bucket_size_ \in Nat \ {0}

NoBucket == [before |-> Null, finish |-> Null]
alloc_buckets(n) ==
    LET size == next2power(n)
    IN  [b \in 0 .. (IF size > min_bucket_size_ THEN size ELSE min_bucket_size_) - 1 |-> NoBucket]

bucket_count(mem, t) == Cardinality(DOMAIN mem.buckets[t])
bucket(mem, t, k) == k % bucket_count(mem, t)

-----------------------------------------------------------------------------
(* The chain.                                                              *)

NodesOf(mem, t) == Span(mem, mem.next[t], Null)
KeysOf(mem, t) == LET s == NodesOf(mem, t) IN [i \in DOMAIN s |-> mem.key[s[i]]]

\* The first nodes of a chain that have the key of its first.
Run(mem, nodes) ==
    SubSeq(nodes, 1, CHOOSE n \in 0 .. Len(nodes) :
                        /\ \A i \in 1 .. n : mem.key[nodes[i]] = mem.key[nodes[1]]
                        /\ n < Len(nodes) => mem.key[nodes[n + 1]] /= mem.key[nodes[1]])

\* The first node with the key and the one before it; without one, where to
\* insert it.
find_node(mem, t, k) ==
    LET b == mem.buckets[t][bucket(mem, t, k)]
        nodes == Span(mem, mem.next[b.before], mem.next[b.finish])
        hits == {i \in DOMAIN nodes : mem.key[nodes[i]] = k}
        hit == CHOOSE i \in hits : \A j \in hits : i <= j
    IN  IF b.before = Null THEN [before |-> t, node |-> Null]
        ELSE IF hits = {} THEN [before |-> b.before, node |-> Null]
        ELSE [before |-> (<<b.before>> \o nodes)[hit], node |-> nodes[hit]]

\* All the nodes with the key: the run that starts where find_node ends.
find_range(mem, t, k) ==
    LET n == find_node(mem, t, k).node IN IF n = Null THEN <<>> ELSE Run(mem, Span(mem, n, Null))

\* The bucket of the node behind last begins behind before.
NextBucket(mem, t, last, before) ==
    IF mem.next[last] = Null THEN mem
    ELSE [mem EXCEPT !.buckets[t][bucket(mem, t, mem.key[mem.next[last]])].before = before]

\* HashNode::insert_node and erase_node, of the nodes behind before up to last.
BucketWith(bk, before, last) ==
    IF bk.before = Null THEN [before |-> before, finish |-> last]
    ELSE IF before = bk.finish THEN [bk EXCEPT !.finish = last]
    ELSE bk
BucketWithout(bk, before, last) ==
    LET finish == IF last = bk.finish THEN before ELSE bk.finish
    IN  IF finish = bk.before THEN NoBucket ELSE [bk EXCEPT !.finish = finish]

\* nodes, linked to each other, are put behind before into bucket b.
insert_nodes(mem, t, b, before, nodes) ==
    LET last == Last(nodes)
        new == [mem EXCEPT !.next = [@ EXCEPT ![last] = mem.next[before], ![before] = nodes[1]],
                           !.buckets[t][b] = BucketWith(@, before, last), !.size[t] = @ + Len(nodes)]
    IN  IF last = new.buckets[t][b].finish THEN NextBucket(new, t, last, last) ELSE new

SlipEraseNodes(mem, t, b, before, nodes) ==
    LET last == Last(nodes)
        cut == [mem EXCEPT !.buckets[t][b] = BucketWithout(@, before, last), !.next[before] = mem.next[last], !.size[t] = @ - Len(nodes)]
    IN  [cut EXCEPT !.next = Forget(@, ToSet(nodes)), !.key = Forget(@, ToSet(nodes))]

\* nodes, the ones behind before, leave bucket b and are deleted.
erase_nodes(mem, t, b, before, nodes) ==
    LET last == Last(nodes)
        updated == IF last = mem.buckets[t][b].finish THEN NextBucket(mem, t, last, before) ELSE mem
        cut == [updated EXCEPT !.buckets[t][b] = BucketWithout(@, before, last), !.next[before] = mem.next[last],
                               !.size[t] = @ - Len(nodes)]
    IN  [cut EXCEPT !.next = Forget(@, ToSet(nodes)), !.key = Forget(@, ToSet(nodes))]

-----------------------------------------------------------------------------
(* The operations.                                                         *)

\* Group by group of equal keys, each to the front of its new bucket.
do_rehash(mem, t, n) ==
    LET nodes == NodesOf(mem, t)
        Enter(acc, i) ==
            LET group == Run(mem, SubSeq(nodes, i, Len(nodes)))
                b == bucket(acc, t, mem.key[nodes[i]])
                first == acc.buckets[t][b].before
            IN  IF i > 1 /\ mem.key[nodes[i - 1]] = mem.key[nodes[i]] THEN acc
                ELSE insert_nodes(acc, t, b, IF first = Null THEN t ELSE first, group)
    IN  Loop(Enter, [mem EXCEPT !.buckets[t] = alloc_buckets(n), !.next[t] = Null, !.size[t] = 0], Len(nodes))

\* The bucket count that keeps count elements under the load factor of 3/4.
BucketsFor(count) == (4 * count + 2) \div 3
SlipRehash(mem, t, count) ==
    IF bucket_count(mem, t) >= BucketsFor(count) THEN mem
    ELSE [mem EXCEPT !.buckets[t] = [b \in DOMAIN alloc_buckets(BucketsFor(count)) |->
                                        IF b \in DOMAIN @ THEN @[b] ELSE NoBucket]]
rehash(mem, t, count) ==
    IF bucket_count(mem, t) >= BucketsFor(count) THEN mem ELSE do_rehash(mem, t, BucketsFor(count))

\* hint is used when it, or the node behind it, has the key.
insert(mem, t, unique, hint, k) ==
    LET found == find_node(mem, t, k)
        hinted == /\ hint /= Null
                  /\ \/ mem.key[hint] = k
                     \/ mem.next[hint] /= Null /\ mem.key[mem.next[hint]] = k
        n == Fresh(mem, Nodes)
        new == [mem EXCEPT !.next = With(@, n, Null), !.key = With(@, n, k)]
        inserted == insert_nodes(new, t, bucket(mem, t, k), IF hinted THEN hint ELSE found.before, <<n>>)
    IN  IF unique /\ (hinted \/ found.node /= Null) THEN mem ELSE rehash(inserted, t, inserted.size[t])

insert_range(mem, t, unique, s) ==
    LET Enter(acc, i) == insert(acc, t, unique, Null, s[i])
    IN  Loop(Enter, rehash(mem, t, mem.size[t] + Len(s)), Len(s))

\* Among several of the same key the first goes, whichever was asked for.
erase_pos(mem, t, n) ==
    LET found == find_node(mem, t, mem.key[n])
    IN  erase_nodes(mem, t, bucket(mem, t, mem.key[n]), found.before, <<found.node>>)

erase_key(mem, t, k) ==
    IF find_range(mem, t, k) = <<>> THEN mem
    ELSE erase_nodes(mem, t, bucket(mem, t, k), find_node(mem, t, k).before, find_range(mem, t, k))

\* Bucket by bucket.
erase_range(mem, t, first, last) ==
    LET head == mem.buckets[t][bucket(mem, t, mem.key[first])].before
        before == Last(<<head>> \o Span(mem, mem.next[head], first))
        Part(acc, i) ==
            LET next == acc.next[before]
                b == bucket(acc, t, acc.key[next])
                behind == acc.next[acc.buckets[t][b].finish]
                part == Span(acc, next, last)
            IN  IF next = last THEN acc
                ELSE erase_nodes(acc, t, b, before,
                                 IF behind \in ToSet(part) THEN Span(acc, next, behind) ELSE part)
    IN  IF first = last THEN mem ELSE Loop(Part, mem, mem.size[t])

release(mem, t) ==
    LET gone == ToSet(NodesOf(mem, t))
    IN  [mem EXCEPT !.next = [n \in DOMAIN @ \ gone |-> IF n = t THEN Null ELSE @[n]],
                    !.key = Forget(@, gone),
                    !.buckets[t] = [b \in DOMAIN @ |-> NoBucket], !.size[t] = 0]

\* Neither changes the bucket of the first node, behind the other head.
swap(mem, t, o) ==
    LET Exchange(f) == [f EXCEPT ![t] = f[o], ![o] = f[t]]
    IN  [mem EXCEPT !.next = Exchange(@), !.buckets = Exchange(@), !.size = Exchange(@)]
move_from(mem, t, o) ==
    LET moved == swap(release(mem, t), t, o)
    IN  [moved EXCEPT !.buckets[o] = alloc_buckets(min_bucket_size_), !.next[o] = Null, !.size[o] = 0]

copy_construct(mem, t, o) ==
    insert_range([release(mem, t) EXCEPT !.buckets[t] = alloc_buckets(bucket_count(mem, o))], t, FALSE, KeysOf(mem, o))
assign(mem, t, o) ==
    IF t = o THEN mem
    ELSE insert_range(rehash(release(mem, t), t, bucket_count(mem, o)), t, FALSE, KeysOf(mem, o))
assign_list(mem, t, unique, s) == insert_range(rehash(release(mem, t), t, Len(s)), t, unique, s)

\* operator==
equals(mem, t, o) ==
    /\ mem.size[t] = mem.size[o]
    /\ \A k \in ToSet(KeysOf(mem, t)) : Len(find_range(mem, t, k)) = Len(find_range(mem, o, k))

=============================================================================
