------------------------------ MODULE ByteQueue ------------------------------
(***************************************************************************)
(* What a byte buffer promises its user (the contract of io.Writer and    *)
(* io.Reader that SlabBuffer's Write, Read and Next offer): a Write       *)
(* appends all of p, a read takes a prefix of the unread bytes, a reset   *)
(* discards them.  A byte written is named by its position in the stream  *)
(* of bytes ever passed to Write.                                         *)
(***************************************************************************)
EXTENDS Naturals, Sequences

CONSTANTS ChunkLens   \* the lengths of the p given to Write

VARIABLES
  q,      \* the unread bytes
  sent,   \* every byte passed to Write, in order
  got     \* every byte handed out by Read or Next, in order

\* The bytes of a Write of k bytes: the next k positions of the stream.
NewBytes(k) == [i \in 1..k |-> Len(sent) + i]

Init == q = <<>> /\ sent = <<>> /\ got = <<>>

Put == \E k \in ChunkLens : q' = q \o NewBytes(k) /\ sent' = sent \o NewBytes(k) /\ UNCHANGED got

Take == \E j \in 1..Len(q) : got' = got \o SubSeq(q, 1, j) /\ q' = SubSeq(q, j + 1, Len(q))
                              /\ UNCHANGED sent

Clear == q' = <<>> /\ UNCHANGED <<sent, got>>

Next == Put \/ Take \/ Clear

Spec == Init /\ [][Next]_<<q, sent, got>>
====
