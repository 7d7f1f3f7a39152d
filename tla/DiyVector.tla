----------------------------- MODULE DiyVector -----------------------------
(***************************************************************************)
(* DiyVector<T> of Vector/diyvector.h: arrayPtr, an array of actualSize   *)
(* slots of which the first vectorSize are the vector.  arr is the array, *)
(* a function from slot index to value; a slot new T[] left uninitialised *)
(* holds Unset.  A write goes through Put, which adds the slot to arr's   *)
(* domain if it lies outside the array, so a write past the array shows  *)
(* in TypeOK.  thrown says whether the last call threw OutOfRange.        *)
(***************************************************************************)
EXTENDS Integers, Sequences

CONSTANTS
  Vals,     \* the items the caller passes
  MaxSize,  \* bound on vectorSize
  Unset     \* the content of a slot nothing has written

VARIABLES arr, vectorSize, actualSize, thrown

vecVars == <<arr, vectorSize, actualSize, thrown>>

\* arrayPtr[i] = v, wherever i lies.
Put(f, i, v) == [j \in DOMAIN f \cup {i} |-> IF j = i THEN v ELSE f[j]]

\* arrayPtr[k] for a read: a slot past the array holds whatever lies there.
ReadSlot(a, k) == IF k \in DOMAIN a THEN a[k] ELSE Unset

\* The vector as the caller sees it through at().
Contents == [k \in 1..vectorSize |-> arr[k - 1]]

\* new T[n] and the copy loop stopping one item early.
GrowCopyShort(a, n) == [i \in 0..(n - 1) |-> IF i < vectorSize - 1 THEN a[i] ELSE Unset]

\* new T[++actualSize], the first vectorSize items copied, the rest unset.
GrowCopy(a, n) == [i \in 0..(n - 1) |-> IF i < vectorSize THEN a[i] ELSE Unset]

\* The array after the "no more space left" branch of pushBack and insert.
Grown == IF actualSize = vectorSize THEN GrowCopy(arr, actualSize + 1) ELSE arr

\* new T[actualSize + 1] with actualSize left as it was.
GrownSizeNoIncrement == actualSize

\* actualSize after that branch: ++actualSize.
GrownSize == IF actualSize = vectorSize THEN actualSize + 1 ELSE actualSize

Init ==
  /\ arr = [i \in 0..(-1) |-> Unset]   \* new T[0]
  /\ vectorSize = 0
  /\ actualSize = 0
  /\ thrown = FALSE

\* A call that throws OutOfRange before changing anything.
Throw == thrown' = TRUE /\ UNCHANGED <<arr, vectorSize, actualSize>>

pushBack(v) ==
  /\ vectorSize < MaxSize
  /\ arr' = Put(Grown, vectorSize, v)
  /\ actualSize' = GrownSize
  /\ vectorSize' = vectorSize + 1
  /\ thrown' = FALSE

popBack ==
  \/ vectorSize = 0 /\ Throw
  \/ /\ vectorSize > 0
     /\ vectorSize' = vectorSize - 1
     /\ thrown' = FALSE
     /\ UNCHANGED <<arr, actualSize>>

\* erase: the loop runs for i = index .. vectorSize - 1, but each round
\* assigns arrayPtr[index] = arrayPtr[index + 1], so one assignment is all
\* it does; then vectorSize shrinks.
erase(index) ==
  \/ (vectorSize = 0 \/ index >= vectorSize) /\ Throw
  \/ /\ index < vectorSize
     /\ arr' = Put(arr, index, ReadSlot(arr, index + 1))
     /\ vectorSize' = vectorSize - 1
     /\ thrown' = FALSE
     /\ UNCHANGED actualSize

\* The right shift of insert: for i = n - 1 down to index + 1,
\* arrayPtr[i] = arrayPtr[i - 1].
ShiftRight(a, index, n) ==
  [k \in DOMAIN a \cup ((index + 1)..(n - 1)) |->
     IF index < k /\ k < n THEN ReadSlot(a, k - 1) ELSE a[k]]

insert(index, v) ==
  \/ index > vectorSize /\ Throw
  \/ /\ index <= vectorSize
     /\ vectorSize < MaxSize
     /\ arr' = Put(ShiftRight(Grown, index, vectorSize + 1), index, v)
     /\ actualSize' = GrownSize
     /\ vectorSize' = vectorSize + 1
     /\ thrown' = FALSE

Indices == 0..MaxSize

Next ==
  \/ popBack
  \/ \E v \in Vals : pushBack(v)
  \/ \E i \in Indices : erase(i)
  \/ \E i \in Indices, v \in Vals : insert(i, v)

\* Every write stays inside the array new T[] allocated: arr has exactly
\* actualSize slots, and the vector fits in them.
TypeOK ==
  /\ DOMAIN arr = 0..(actualSize - 1)
  /\ \A k \in DOMAIN arr : arr[k] \in Vals \cup {Unset}
  /\ 0 <= vectorSize /\ vectorSize <= actualSize /\ actualSize <= MaxSize
  /\ thrown \in BOOLEAN

\* at(k) for every k below size() reads a slot some call wrote: the copy
\* on growth, the shift of insert and the moves of erase never expose a
\* slot new T[] left uninitialised.
VisibleInitialised == \A k \in 0..(vectorSize - 1) : arr[k] # Unset

=============================================================================
