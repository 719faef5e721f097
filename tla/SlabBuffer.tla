----------------------------- MODULE SlabBuffer -----------------------------
(***************************************************************************)
(* The SlabBuffer of src/util/mem: a byte slice with a read offset off and *)
(* a write offset on, grown by reslicing, sliding or reallocating.  Its    *)
(* methods that change it run under its mutex, so each is one step.  The   *)
(* slice is modelled as its backing array (whose length is cap(buf)) and   *)
(* len(buf): a reslice exposes whatever the array holds beyond len.  A     *)
(* byte is named by its position in the stream of bytes passed to Write,  *)
(* and a fresh array holds zeros.  The aligned variant is not modelled.   *)
(***************************************************************************)
EXTENDS Integers, Sequences

CONSTANTS
  Sizes,      \* the iSize given to NewSlabBuffInit (NewSlabBuff: 409600)
  ChunkLens,  \* len(p) of a Write
  ReadLens,   \* len(p) of a Read, and n of a Next
  MaxCalls

VARIABLES
  arr,    \* the backing array of s.buf; Len(arr) = cap(s.buf)
  blen,   \* len(s.buf)
  off,    \* s.off
  on,     \* s.on
  sent,   \* every byte passed to Write
  got,    \* every byte handed out by Read and Next
  calls

vars == <<arr, blen, off, on, sent, got, calls>>

MinOf(a, b) == IF a < b THEN a ELSE b

\* The bytes of a Write of k bytes.
NewBytes(k) == [i \in 1..k |-> Len(sent) + i]

Init ==
  /\ \E size \in Sizes : arr = [i \in 1..size |-> 0] /\ blen = size
  /\ off = 0 /\ on = 0 /\ sent = <<>> /\ got = <<>> /\ calls = 0

\* The slice as a record, for the steps of grow.
Cur == [arr |-> arr, blen |-> blen, off |-> off, on |-> on]

isEnough(k) == on + k <= blen - 1

\* Mutant: after a slide or a new array, on is not moved down by off.
growNoRebase(n) ==
  LET m == blen - off
      s == IF m = 0 /\ off # 0 THEN [Cur EXCEPT !.blen = 0, !.off = 0, !.on = 0] ELSE Cur
      c == Len(s.arr)
      moved == IF n <= c \div 2 - m
               THEN [i \in 1..c |-> IF i <= s.blen - s.off THEN s.arr[s.off + i] ELSE s.arr[i]]
               ELSE [i \in 1..2 * c + n |-> IF i <= s.blen - s.off THEN s.arr[s.off + i] ELSE 0]
  IN IF s.blen + n <= c THEN [s EXCEPT !.blen = @ + n]
     ELSE [arr |-> moved, blen |-> m + n, off |-> 0, on |-> s.on]

\* grow(n), Go's copy included: reset when everything up to len was read,
\* reslice if cap allows, else slide the bytes from off down when n fits
\* in half the capacity, else copy them to a new array of 2c+n.  Then
\* on and off are rebased and len(buf) becomes m+n.  The buf == nil
\* branch is not reached: every constructor and reset keep buf non-nil.
grow(n) ==
  LET m == blen - off
      s == IF m = 0 /\ off # 0 THEN [Cur EXCEPT !.blen = 0, !.off = 0, !.on = 0] ELSE Cur
      c == Len(s.arr)
      moved == IF n <= c \div 2 - m
               THEN [i \in 1..c |-> IF i <= s.blen - s.off THEN s.arr[s.off + i] ELSE s.arr[i]]
               ELSE [i \in 1..2 * c + n |-> IF i <= s.blen - s.off THEN s.arr[s.off + i] ELSE 0]
  IN IF s.blen + n <= c THEN [s EXCEPT !.blen = @ + n]
     ELSE [arr |-> moved, blen |-> m + n, off |-> 0,
           on |-> IF s.on - s.off < 0 THEN 0 ELSE s.on - s.off]

\* Write and WriteUnsafeDirectly: make room, then copy(s.buf[s.on:], p)
\* copies what fits in len(buf) and on advances by that count.
Write ==
  /\ calls < MaxCalls /\ calls' = calls + 1
  /\ \E k \in ChunkLens :
       LET p == NewBytes(k)
           s == IF isEnough(k) THEN Cur
                ELSE IF blen + k <= Len(arr) THEN [Cur EXCEPT !.blen = @ + k]
                ELSE grow(k)
           count == MinOf(s.blen - s.on, k)
       IN /\ arr' = [i \in DOMAIN s.arr |->
                       IF s.on < i /\ i <= s.on + count THEN p[i - s.on] ELSE s.arr[i]]
          /\ blen' = s.blen /\ off' = s.off /\ on' = s.on + count
          /\ sent' = sent \o p
  /\ UNCHANGED got

\* Read(p): an empty buffer is reset; else up to len(p) unread bytes are
\* copied out, and a zero-length p returns io.EOF.
Read ==
  /\ calls < MaxCalls /\ calls' = calls + 1
  /\ \E k \in ReadLens :
       IF on <= off
       THEN blen' = 0 /\ off' = 0 /\ on' = 0 /\ UNCHANGED got
       ELSE LET bufLen == MinOf(k, on - off) IN
            /\ got' = got \o SubSeq(arr, off + 1, off + bufLen)
            /\ off' = off + bufLen /\ UNCHANGED <<blen, on>>
  /\ UNCHANGED <<arr, sent>>

\* Mutant: n is not clamped to the unread count.
NextNoClamp ==
  /\ calls < MaxCalls /\ calls' = calls + 1
  /\ \E n \in ReadLens :
       got' = got \o SubSeq(arr, off + 1, off + n) /\ off' = off + n
  /\ UNCHANGED <<arr, blen, on, sent>>

\* Next(n): the next n unread bytes at most, as a slice of the buffer.
Next ==
  /\ calls < MaxCalls /\ calls' = calls + 1
  /\ \E n \in ReadLens :
       LET k == MinOf(n, on - off) IN
       got' = got \o SubSeq(arr, off + 1, off + k) /\ off' = off + k
  /\ UNCHANGED <<arr, blen, on, sent>>

\* Reset: len(buf), off and on to zero.
Reset ==
  /\ calls < MaxCalls /\ calls' = calls + 1
  /\ blen' = 0 /\ off' = 0 /\ on' = 0
  /\ UNCHANGED <<arr, sent, got>>

\* ResetOffOnUnSafe: off and on to zero, len(buf) kept.
ResetOffOnUnSafe ==
  /\ calls < MaxCalls /\ calls' = calls + 1
  /\ off' = 0 /\ on' = 0
  /\ UNCHANGED <<arr, blen, sent, got>>

Step == Write \/ Read \/ Next \/ Reset \/ ResetOffOnUnSafe

Spec == Init /\ [][Step]_vars

-----------------------------------------------------------------------------
TypeOK ==
  /\ 0 <= off /\ off <= on /\ on <= blen /\ blen <= Len(arr)
  /\ \A i \in DOMAIN arr : arr[i] \in 0..Len(sent)
  /\ calls \in 0..MaxCalls

\* The buffer is a byte queue: every Write appends all of p to the unread
\* bytes, Read and Next hand out a prefix of them in order, and the resets
\* discard them.  The unread bytes are buf[off:on].
Queue == INSTANCE ByteQueue WITH q <- SubSeq(arr, off + 1, on)
BufferIsQueue == Queue!Spec
====
