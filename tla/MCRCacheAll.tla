------------------------------ MODULE MCRCacheAll ------------------------------
(***************************************************************************)
(* Two programs that share no state, in one model; the constant `mode'   *)
(* chooses, in the initial state, which one runs.  In mode "rcache" the   *)
(* registry cache of RCache runs with its watcher goroutines and Stop; in *)
(* mode "all" the promises of ProGoroutine run, with two All calls of two *)
(* inputs each, so that the inputs settle in either order and an input's *)
(* error races the other input's result.  The registry cache's fairness  *)
(* is asserted in its mode only; the promises are checked for safety.    *)
(***************************************************************************)
EXTENDS Integers, Sequences, TLC

CONSTANTS
  n1, g1, g2, r1, r2, t1,                        \* the registry cache's
  a, b, c, all1, h1, k1, h2, k2, all2, h3, k3, h4, k4, v1, v2,  \* promises, values
  None

VARIABLES
  reg, regOps, cache, valid, watched, exit, gpc, gsnap, rpc, rq, ra, rb, spc, fails, calls,
  created, pending, result, err, wg, mu, pc, resCh, errCh, recv, res,
  mode

rvars == <<reg, regOps, cache, valid, watched, exit, gpc, gsnap, rpc, rq, ra, rb, spc,
           fails, calls>>
pvars == <<created, pending, result, err, wg, mu, pc, resCh, errCh, recv, res>>
vars == <<rvars, pvars, mode>>

\* One node, two getters, two run goroutines, one Stop caller, a
\* registration and a deregistration, five registry errors, three calls.
R == INSTANCE RCache WITH Nodes <- {n1}, Getters <- {g1, g2}, Runs <- {r1, r2},
       Stoppers <- {t1}, RegActions <- {"create", "delete"}, MaxRegOps <- 1,
       MaxFails <- 5, MaxCalls <- 3

\* c resolves with v2; a resolves with v1 and then panics; b panics.
\* all1 is All(c, a), whose two inputs both resolve, in either order;
\* all2 is All(a, b), where b's error races a's result.  Each input has
\* the Then (h) and the Catch (k) that All builds for it.
MCExec ==
  (a :> [op |-> "resolvepanic", arg |-> v1]) @@ (b :> [op |-> "panic"])
  @@ (c :> [op |-> "resolve", arg |-> v2])
  @@ (all1 :> [op |-> "all", arg |-> <<c, a>>])
  @@ (h1 :> [op |-> "allthen", arg |-> c, all |-> all1, idx |-> 1])
  @@ (k1 :> [op |-> "allcatch", arg |-> h1, all |-> all1])
  @@ (h2 :> [op |-> "allthen", arg |-> a, all |-> all1, idx |-> 2])
  @@ (k2 :> [op |-> "allcatch", arg |-> h2, all |-> all1])
  @@ (all2 :> [op |-> "all", arg |-> <<a, b>>])
  @@ (h3 :> [op |-> "allthen", arg |-> a, all |-> all2, idx |-> 1])
  @@ (k3 :> [op |-> "allcatch", arg |-> h3, all |-> all2])
  @@ (h4 :> [op |-> "allthen", arg |-> b, all |-> all2, idx |-> 2])
  @@ (k4 :> [op |-> "allcatch", arg |-> h4, all |-> all2])

P == INSTANCE ProGoroutine WITH Promises <- DOMAIN MCExec, Exec <- MCExec, Values <- {v1, v2}

Init == mode \in {"rcache", "all"} /\ R!Init /\ P!Init

Next ==
  \/ mode = "rcache" /\ R!Next /\ UNCHANGED <<pvars, mode>>
  \/ mode = "all" /\ P!Next /\ UNCHANGED <<rvars, mode>>

\* RCache's fairness (that of its module), in its mode.
Spec ==
  /\ Init /\ [][Next]_vars
  /\ \A g \in {g1, g2} : WF_rvars(mode = "rcache" /\ R!Getter(g))
  /\ \A r \in {r1, r2} : WF_rvars(mode = "rcache" /\ R!Runner(r))
  /\ WF_rvars(mode = "rcache" /\ R!StopClose(t1))

\* The properties of the two modules (stated there).
TypeOK == R!TypeOK
StopEndsWatchers == mode = "rcache" => R!StopEndsWatchers
PromiseAllAgrees == P!AllAgrees
====
