---------------------------- MODULE WorkerArray ----------------------------
(***************************************************************************)
(* The idle-worker store behind the workerArray interface that             *)
(* src/gpool/worker.go declares (len, isEmpty, insert, detach,             *)
(* retrieveExpiry, reset).  Its two implementations, the growable stack    *)
(* (stackType) and the fixed ring buffer (loopQueueType), are not part of  *)
(* src/; they are modelled from the spec (section 4.3).                    *)
(*                                                                         *)
(* A store is a sequence of worker ids, oldest idle first.  Every          *)
(* operator is pure: the pool module applies it to its `workers`           *)
(* variable under the pool lock.                                           *)
(***************************************************************************)
EXTENDS Integers, Sequences, FiniteSets, SequencesExt

\* insert(worker) error: the ring buffer of a preallocated pool refuses an
\* insert when it already holds `size` workers (errQueueIsFull); the stack
\* never does.
InsertFails(ws, preAlloc, size) == preAlloc /\ Len(ws) >= size

Insert(ws, w) == Append(ws, w)

\* detach() returns the most recently idled worker (LIFO, for cache warmth).
Detach(ws) == IF ws = <<>> THEN <<>> ELSE Front(ws)
Detached(ws) == Last(ws)

(***************************************************************************)
(* retrieveExpiry(duration): the store is assumed sorted ascending by      *)
(* recycle time, so a binary search finds the last index whose recycle     *)
(* time is not after the cutoff (now - duration); the prefix up to it is   *)
(* removed and returned.  `stamp` maps a worker to its recycleTime.        *)
(*   for l <= r { mid = (l+r)/2                                            *)
(*     if cutoff.Before(items[mid].recycleTime) { r = mid-1 }              *)
(*     else { l = mid+1 } }                                                *)
(*   return r                                                              *)
(***************************************************************************)
\* Mutant: the comparison made non-strict (cutoff.Before -> !After).
RECURSIVE BinarySearchNonStrict(_, _, _, _, _)
BinarySearchNonStrict(ws, stamp, l, r, cutoff) ==
  IF l > r THEN r
  ELSE LET mid == (l + r) \div 2
       IN IF cutoff <= stamp[ws[mid]]
          THEN BinarySearchNonStrict(ws, stamp, l, mid - 1, cutoff)
          ELSE BinarySearchNonStrict(ws, stamp, mid + 1, r, cutoff)

RECURSIVE BinarySearch(_, _, _, _, _)
BinarySearch(ws, stamp, l, r, cutoff) ==
  IF l > r THEN r
  ELSE LET mid == (l + r) \div 2
       IN IF cutoff < stamp[ws[mid]]
          THEN BinarySearch(ws, stamp, l, mid - 1, cutoff)
          ELSE BinarySearch(ws, stamp, mid + 1, r, cutoff)

ExpiryIndex(ws, stamp, cutoff) == BinarySearch(ws, stamp, 1, Len(ws), cutoff)

Expired(ws, stamp, cutoff) == SubSeq(ws, 1, ExpiryIndex(ws, stamp, cutoff))
AfterExpiry(ws, stamp, cutoff) ==
  SubSeq(ws, ExpiryIndex(ws, stamp, cutoff) + 1, Len(ws))

\* reset() discards every entry.
Reset(ws) == <<>>
=============================================================================
