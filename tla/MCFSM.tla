-------------------------------- MODULE MCFSM --------------------------------
(***************************************************************************)
(* The finite-state machine of FSM and the rotating log output of NewLog,  *)
(* in one model, and the FileItems table of util/mem/cache beside them.   *)
(* None of them shares state.  In mode "fsm" the model lets the Event     *)
(* callers run until none can move and then lets the logger, its pool and *)
(* its timer run, so every behaviour of each component is explored and    *)
(* the states are about the FSM's plus the log's times the FSM's final    *)
(* ones.  In mode "fileitems" the table runs, with its own fairness and   *)
(* its liveness property stated of the behaviours of that mode.  In mode  *)
(* "rabbit" the RabbitMQ connection runs with its reconnect goroutines.   *)
(***************************************************************************)
EXTENDS Integers, Sequences, TLC

CONSTANTS
  g1, g2,   \* goroutines calling Event
  l1,       \* goroutine logging
  fk1, fk2, fu1,  \* FileItems' keys and user
  rc1, rl1, rl2,  \* RabbitConn's caller and reconnect goroutines
  None

VARIABLES
  fcurrent, statusAny, checks, fmu, pc, ev, dst, fcalls,
  files, file, lcurrent, lmu, queue, buf, tArmed, tC, lpc, line, force, dropped, lcalls,
  items, data, idx, timer, epc, elist, ekey, next, upc, ukey, unew, icalls, restarts,
  connected, conn, alive, closeCh, closeClosed, waitClosed, cpc, rlpc, watch, waitOn,
  panicked, dials, fails, drops, rcalls,
  mode

fvars == <<fcurrent, statusAny, checks, fmu, pc, ev, dst, fcalls>>
lvars == <<files, file, lcurrent, lmu, queue, buf, tArmed, tC, lpc, line, force, dropped, lcalls>>
ivars == <<items, data, idx, timer, epc, elist, ekey, next, upc, ukey, unew, icalls, restarts>>
rvars == <<connected, conn, alive, closeCh, closeClosed, waitClosed, cpc, rlpc, watch,
          waitOn, panicked, dials, fails, drops, rcalls>>
vars == <<fvars, lvars, ivars, rvars, mode>>

\* a: 0 -> 1 -> 2; b: 1, 2 -> 0.
MCEvents ==
  << [name |-> "a", src |-> <<0>>, dst |-> 1],
     [name |-> "a", src |-> <<1>>, dst |-> 2],
     [name |-> "b", src |-> <<1, 2>>, dst |-> 0] >>

\* The callback of 0 is dropped by NewFSM; the one of 1 does nothing, sets
\* e.Err, makes 1 the any-state, or chains b; the one of 2 resets or goes
\* back to 1.
MCCallbacks ==
  (0 :> {[op |-> "set", arg |-> 2]})
  @@ (1 :> {[op |-> "none", arg |-> None], [op |-> "err", arg |-> None],
            [op |-> "any", arg |-> 1], [op |-> "chain", arg |-> "b"]})
  @@ (2 :> {[op |-> "reset", arg |-> None], [op |-> "set", arg |-> 1]})

\* Two goroutines calling Event on one machine, three calls, the callbacks
\* of MCCallbacks and check callbacks of states 0 and 2 in either map order.
F == INSTANCE FSM WITH Callers <- {g1, g2}, States <- {0, 1, 2}, Events <- MCEvents,
       Callbacks <- MCCallbacks, CheckKeys <- {0, 2}, Initial <- 0, MaxCalls <- 3,
       current <- fcurrent, mu <- fmu, calls <- fcalls

\* One asynchronous logger (Go before 1.23: Reset leaves a stale tick),
\* a pool of one slot, a buffer of two lines, rotation after every line,
\* two file names (the current one and .1), three calls.
L == INSTANCE NewLog WITH Loggers <- {l1}, Async <- TRUE, PoolSize <- 1, BufLines <- 2,
       FileSize <- 1, MaxNum <- 2, ResetDrains <- FALSE, MaxCalls <- 3,
       current <- lcurrent, mu <- lmu, calls <- lcalls

\* FileItems: two keys, one user adding, deleting and flushing items with
\* lifespans 1 and 2 ticks, a table lifeSpan of 2 ticks for reloading, an
\* idle re-check of 2 ticks, at most 5 calls and one crash.
FI == INSTANCE FileItems WITH Keys <- {fk1, fk2}, Users <- {fu1}, Spans <- {1, 2}, TableSpan <- 2,
        IdleInterval <- 2, Ops <- {"add", "delete", "flush"}, MaxCalls <- 3, MaxRestarts <- 1,
        calls <- icalls

\* The RabbitMQ connection: one caller making two calls (Connect twice,
\* Connect and Close, Close twice...), a slot for the reconnect goroutine of
\* each successful Connect; four dials accepted, one failed dial and two
\* dropped connections, enough for two reconnect goroutines to retry at once.
R == INSTANCE RabbitConn WITH Callers <- {rc1}, Loops <- {rl1, rl2}, MaxCalls <- 2,
       MaxDials <- 4, MaxFails <- 1, MaxDrops <- 2, lpc <- rlpc, calls <- rcalls

\* The component that does not run keeps its initial state.
Init == mode \in {"fsm", "fileitems", "rabbit"} /\ F!Init /\ L!Init /\ FI!Init /\ R!Init

Next ==
  \/ mode = "fsm" /\ F!Next /\ UNCHANGED <<lvars, ivars, rvars, mode>>
  \/ mode = "fsm" /\ ~ENABLED F!Next /\ L!Next /\ UNCHANGED <<fvars, ivars, rvars, mode>>
  \/ mode = "fileitems" /\ FI!Next /\ UNCHANGED <<fvars, lvars, rvars, mode>>
  \/ mode = "rabbit" /\ R!Next /\ UNCHANGED <<fvars, lvars, ivars, mode>>

\* Each component's fairness (that of its module) is asserted in its own
\* mode: a weak fairness condition on an action of a component that does
\* not run would hold of no behaviour of the other mode.
Spec ==
  /\ Init /\ [][Next]_vars
  /\ \A q \in {g1, g2} : WF_fvars(mode = "fsm" /\ F!Step(q))
  /\ WF_lvars(mode = "fsm" /\ L!Sending(l1))
  /\ WF_lvars(mode = "fsm" /\ L!TimerFire) /\ WF_lvars(mode = "fsm" /\ L!Process)
  /\ WF_ivars(mode = "fileitems" /\ FI!Tick) /\ WF_ivars(mode = "fileitems" /\ FI!Expirer)
  /\ WF_ivars(mode = "fileitems" /\ FI!User(fu1))

\* The properties of the two modules (stated there).
TypeOK == F!TypeOK
AtomicCalls == F!AtomicCalls
EventReturns == F!EventReturns
NoDuplicateLine == L!NoDuplicateLine
RotationShifts == L!RotationShifts
PoolDrains == L!PoolDrains
ExpiredEventuallyRemoved == mode = "fileitems" => FI!ExpiredEventuallyRemoved
RabbitTypeOK == R!TypeOK
ChannelsClosedOnce == R!ChannelsClosedOnce
====
