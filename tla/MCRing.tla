-------------------------------- MODULE MCRing --------------------------------
(***************************************************************************)
(* The preallocated pool of the ring run, then a SlabBuffer of util/mem.  *)
(* The two share no state: the model lets the pool run until none of its  *)
(* goroutines can move (a released pool stops in a handful of states) and *)
(* then lets a user call the buffer's methods.                            *)
(***************************************************************************)
EXTENDS MCGPool

VARIABLES arr, blen, off, on, sent, got, scalls

svars == <<arr, blen, off, on, sent, got, scalls>>

\* A buffer made by NewSlabBuffInit(2), written 1 or 2 bytes at a
\* time, read with len(p) or n of 0, 1 or 2, eight calls: enough to
\* reach every branch of grow.
S == INSTANCE SlabBuffer WITH Sizes <- {2}, ChunkLens <- {1, 2}, ReadLens <- {0, 1, 2},
       MaxCalls <- 8, calls <- scalls

RingInit == Init /\ S!Init

RingNext ==
  \/ Next /\ UNCHANGED svars
  \/ ~ENABLED Next /\ S!Step /\ UNCHANGED vars

RingSpec == RingInit /\ [][RingNext]_<<vars, svars>> /\ Fairness

\* The properties of SlabBuffer (stated there).
SlabTypeOK == S!TypeOK
BufferIsQueue == S!BufferIsQueue
====
