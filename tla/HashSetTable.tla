---------------------------- MODULE HashSetTable ----------------------------
(***************************************************************************)
(* HashSet<T> of HashSet/HashSet.h with T = int: a vector of buckets, each *)
(* a vector of elements, and elementCount.  std::hash<int> is the identity *)
(* (libstdc++), so calcHashIdx(x) is x modulo the bucket count.  Bucket i  *)
(* of the code (0-based) is table[i + 1].  The caller is any sequence of   *)
(* add, contains, remove and copy construction; ret is the last call, its *)
(* argument and the value it returned.                                     *)
(***************************************************************************)
EXTENDS Integers, Sequences, SequencesExt

CONSTANTS
  Elems,          \* the ints the caller passes
  InitBuckets,    \* buckets made by HashSet() (32 in the code)
  MaxBuckets,     \* bound on the bucket count a rehash may reach
  GarbageCounts   \* values an uninitialised elementCount can hold

VARIABLES table, elementCount, ret

hsVars == <<table, elementCount, ret>>

\* calcHashIdx: hash<T>(data) % hashTable.size().
calcHashIdx(x, t) == x % Len(t)

BucketOf(t, x) == t[calcHashIdx(x, t) + 1]

\* The elements stored in the buckets, wherever they are.
Contents(t) == UNION {ToSet(t[i]) : i \in DOMAIN t}

\* The rehash of add: a table of twice the buckets, each old item pushed,
\* bucket by bucket, into newHashTable.at(calcHashIdx(item)); calcHashIdx
\* still reads the old hashTable.size() while it runs.
Rehash(t) ==
  LET n2 == 2 * Len(t)
  IN  [j \in 1..n2 |->
         FlattenSeq([i \in 1..Len(t) |->
                       SelectSeq(t[i], LAMBDA e : calcHashIdx(e, t) = j - 1)])]

Init ==
  /\ table = [i \in 1..InitBuckets |-> <<>>]
  /\ elementCount = 0
  /\ ret = [op |-> "none", arg |-> -1, val |-> FALSE]

\* add of an element found in its bucket: returns false.
AddExisting(x) ==
  /\ x \in ToSet(BucketOf(table, x))
  /\ ret' = [op |-> "add", arg |-> x, val |-> FALSE]
  /\ UNCHANGED <<table, elementCount>>

\* add of an element not found: rehash when elementCount + 1 reaches the
\* bucket count, push into the bucket recalculated on the new table, count.
AddNew(x) ==
  LET t1 == IF elementCount + 1 >= Len(table) THEN Rehash(table) ELSE table
  IN  /\ x \notin ToSet(BucketOf(table, x))
      /\ Len(t1) <= MaxBuckets
      /\ table' = [t1 EXCEPT ![calcHashIdx(x, t1) + 1] = Append(@, x)]
      /\ elementCount' = elementCount + 1
      /\ ret' = [op |-> "add", arg |-> x, val |-> TRUE]

contains(x) ==
  /\ ret' = [op |-> "contains", arg |-> x, val |-> x \in ToSet(BucketOf(table, x))]
  /\ UNCHANGED <<table, elementCount>>

\* remove erases the first match from its bucket; elementCount is left as is.
remove(x) ==
  LET b == calcHashIdx(x, table) + 1
  IN  \/ /\ x \in ToSet(table[b])
         /\ table' = [table EXCEPT ![b] = RemoveAt(@, SelectInSeq(@, LAMBDA e : e = x))]
         /\ ret' = [op |-> "remove", arg |-> x, val |-> TRUE]
         /\ UNCHANGED elementCount
      \/ /\ x \notin ToSet(table[b])
         /\ ret' = [op |-> "remove", arg |-> x, val |-> FALSE]
         /\ UNCHANGED <<table, elementCount>>

\* HashSet(const HashSet&): push_back of every bucket of the source; the
\* constructor never sets elementCount, so the copy's count is whatever the
\* object's memory held.
Copy ==
  /\ \E g \in GarbageCounts : elementCount' = g
  /\ UNCHANGED <<table, ret>>

Next == Copy \/ \E x \in Elems : AddExisting(x) \/ AddNew(x) \/ contains(x) \/ remove(x)

(***************************************************************************)
(* The iterator: (tab, inner, outer) with tab FALSE for end().             *)
(***************************************************************************)
EndIter == [tab |-> FALSE, inner |-> 0, outer |-> 0]

\* Indices (0-based) of non-empty buckets from `from` on.
NonEmptyFrom(t, from) == {i \in from..(Len(t) - 1) : t[i + 1] # <<>>}

\* begin(): the first non-empty bucket, or end().
begin(t) ==
  IF NonEmptyFrom(t, 0) = {} THEN EndIter
  ELSE [tab |-> TRUE, inner |-> 0, outer |-> Min(NonEmptyFrom(t, 0))]

\* operator++ with the outer loop starting at the current bucket.
IncrNoAdvance(t, it) ==
  IF it.inner + 1 >= Len(t[it.outer + 1])
  THEN IF NonEmptyFrom(t, it.outer) = {} THEN EndIter
       ELSE [tab |-> TRUE, inner |-> 0, outer |-> Min(NonEmptyFrom(t, it.outer))]
  ELSE [it EXCEPT !.inner = @ + 1]

\* operator++: next item of the bucket, else the next non-empty bucket,
\* else end().
Incr(t, it) ==
  IF it.inner + 1 >= Len(t[it.outer + 1])
  THEN IF NonEmptyFrom(t, it.outer + 1) = {} THEN EndIter
       ELSE [tab |-> TRUE, inner |-> 0, outer |-> Min(NonEmptyFrom(t, it.outer + 1))]
  ELSE [it EXCEPT !.inner = @ + 1]

\* The items a range-for from begin() to end() dereferences; fuel stops a
\* walk that never reaches end().
RECURSIVE Walk(_, _, _)
Walk(t, it, fuel) ==
  IF ~it.tab \/ fuel = 0 THEN <<>>
  ELSE <<t[it.outer + 1][it.inner + 1]>> \o Walk(t, Incr(t, it), fuel - 1)

Iterate(t) == Walk(t, begin(t), Len(FlattenSeq(t)) + 1)

TypeOK ==
  /\ table \in Seq(Seq(Elems)) /\ Len(table) \in InitBuckets..MaxBuckets
  /\ elementCount \in Nat
  /\ ret \in [op : {"none", "add", "contains", "remove"}, arg : Elems \cup {-1}, val : BOOLEAN]

\* A range-for over the set (begin, operator*, operator++ up to end)
\* dereferences every stored element exactly once, bucket by bucket, over
\* empty buckets, buckets of several items and the last bucket alike.
IteratorVisitsAll == Iterate(table) = FlattenSeq(table)

=============================================================================
