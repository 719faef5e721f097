-------------------------------- MODULE RCache --------------------------------
(***************************************************************************)
(* The registry cache of src/rcache for one service name: GetService and   *)
(* get (read lock, TTL check, spawning the watcher, asking the registry,   *)
(* caching the answer), the watcher goroutine run / watch / update, the    *)
(* TTL running out, and Stop.                                              *)
(*                                                                         *)
(* A cached service is abstracted to the status of each registry node in  *)
(* it: "absent" (not in the cached slice), "up", or "deleted" (kept in the *)
(* slice with Metadata[ServiceStatus] = DeleteState).  The registry is the *)
(* environment: nodes register and deregister, and every registry watcher *)
(* that exists at that moment receives the event, in order.  GetService,  *)
(* Watch and Next may also fail, at most MaxFails times.                  *)
(***************************************************************************)
EXTENDS Integers, Sequences, FiniteSets

CONSTANTS
  Nodes,       \* registry nodes of the service
  Getters,     \* goroutines calling GetService
  Runs,        \* ids for the `go c.run(service)` goroutines
  Stoppers,    \* goroutines calling Stop
  RegActions,  \* registry changes that happen: subset of {"create", "delete"}
  MaxRegOps,   \* bound on registry changes
  MaxFails,    \* bound on registry errors (GetService, Watch, Next)
  MaxCalls,    \* bound on GetService and Stop calls
  None         \* model value: no service in c.cache

ASSUME RegActions \subseteq {"create", "delete"}
  /\ {MaxRegOps, MaxFails, MaxCalls} \subseteq Nat

Event == [act : {"create", "delete"}, node : Nodes]
Status == {"absent", "up", "deleted"}

VARIABLES
  reg, regOps,          \* the registry: its live nodes, changes so far
  cache, valid,         \* c.cache[service]; valid: ttl not yet passed
  watched, exit,        \* c.watched[service]; c.exit closed
  gpc, gsnap,           \* getters
  rpc, rq,              \* run goroutines and their registry watcher's events
  ra, rb,               \* run's backoff attempt counters a and b
  spc,                  \* Stop callers
  fails, calls

vars == <<reg, regOps, cache, valid, watched, exit, gpc, gsnap, rpc, rq,
          ra, rb, spc, fails, calls>>

Up(e) == {n \in Nodes : e[n] = "up"}

\* c.set(service, services): store the registry's answer, ttl = now + TTL.
set(nodes) == [n \in Nodes |-> IF n \in nodes THEN "up" ELSE "absent"]

\* isValid: services exist and time.Since(ttl) <= TTL.
isValid == cache # None /\ valid

\* A registry error, bounded by MaxFails.
Fail == fails < MaxFails /\ fails' = fails + 1

Init ==
  /\ reg \in SUBSET Nodes /\ regOps = 0
  /\ cache = None /\ valid = FALSE
  /\ watched = FALSE /\ exit = FALSE
  /\ gpc = [g \in Getters |-> "idle"] /\ gsnap = [g \in Getters |-> {}]
  /\ rpc = [r \in Runs |-> "none"] /\ rq = [r \in Runs |-> <<>>]
  /\ ra = [r \in Runs |-> 0] /\ rb = [r \in Runs |-> 0]
  /\ spc = [s \in Stoppers |-> "idle"]
  /\ fails = 0 /\ calls = 0

Call == calls < MaxCalls /\ calls' = calls + 1

(***************************************************************************)
(* The registry (environment).                                             *)
(***************************************************************************)
Publish(ev) ==
  rq' = [r \in Runs |-> IF rpc[r] = "watch" THEN Append(rq[r], ev) ELSE rq[r]]

Register(n) ==
  /\ "create" \in RegActions /\ regOps < MaxRegOps /\ n \notin reg
  /\ reg' = reg \cup {n} /\ regOps' = regOps + 1
  /\ Publish([act |-> "create", node |-> n])
  /\ UNCHANGED <<cache, valid, watched, exit, gpc, gsnap, rpc, ra, rb, spc, fails, calls>>

Deregister(n) ==
  /\ "delete" \in RegActions /\ regOps < MaxRegOps /\ n \in reg
  /\ reg' = reg \ {n} /\ regOps' = regOps + 1
  /\ Publish([act |-> "delete", node |-> n])
  /\ UNCHANGED <<cache, valid, watched, exit, gpc, gsnap, rpc, ra, rb, spc, fails, calls>>

\* time.Since(ttl) passes c.opts.TTL.
Expire ==
  /\ valid /\ valid' = FALSE
  /\ UNCHANGED <<reg, regOps, cache, watched, exit, gpc, gsnap, rpc, rq, ra, rb, spc, fails, calls>>

(***************************************************************************)
(* get, under the read lock: return a valid cached copy, or start a       *)
(* watcher if none is recorded in c.watched and go to the registry.        *)
(***************************************************************************)
GetService(g) ==
  /\ gpc[g] = "idle" /\ Call
  /\ \/ /\ isValid
        /\ UNCHANGED <<gpc, rpc>>
     \/ /\ ~isValid /\ gpc' = [gpc EXCEPT ![g] = "fetch"]
        /\ \/ watched /\ UNCHANGED rpc
           \/ ~watched /\ \E r \in Runs : rpc[r] = "none" /\ rpc' = [rpc EXCEPT ![r] = "start"]
  /\ UNCHANGED <<reg, regOps, cache, valid, watched, exit, gsnap, rq, ra, rb, spc, fails>>

\* The get closure, after RUnlock: c.Registry.GetService.  An error (or a
\* service with no nodes: ErrNotFound) returns the stale copy or the error.
GetFetch(g) ==
  /\ gpc[g] = "fetch"
  /\ \/ reg # {} /\ gsnap' = [gsnap EXCEPT ![g] = reg] /\ gpc' = [gpc EXCEPT ![g] = "store"]
                 /\ UNCHANGED fails
     \/ ((reg = {} /\ UNCHANGED fails) \/ Fail) /\ gpc' = [gpc EXCEPT ![g] = "idle"]
        /\ UNCHANGED gsnap
  /\ UNCHANGED <<reg, regOps, cache, valid, watched, exit, rpc, rq, ra, rb, spc, calls>>

\* c.Lock(); c.set(service, c.cp(services)); c.Unlock()
GetStore(g) ==
  /\ gpc[g] = "store"
  /\ cache' = set(gsnap[g]) /\ valid' = TRUE
  /\ gpc' = [gpc EXCEPT ![g] = "idle"] /\ gsnap' = [gsnap EXCEPT ![g] = {}]
  /\ UNCHANGED <<reg, regOps, watched, exit, rpc, rq, ra, rb, spc, fails, calls>>

(***************************************************************************)
(* update(res), under the lock: only a service already looked up is        *)
(* touched; a node of the event replaces the cached node with the same Id *)
(* ("create"/"update") or is marked deleted ("delete").  A node that is    *)
(* not in the cached slice is not added.                                  *)
(***************************************************************************)
update(ev) ==
  IF cache = None THEN cache
  ELSE [n \in Nodes |->
          IF n = ev.node /\ cache[n] # "absent"
          THEN IF ev.act = "create" THEN "up" ELSE "deleted"
          ELSE cache[n]]

\* After an error run sleeps backoff(k) and counts the attempt; a count
\* above 3 is reset first (`if a > 3 { a = 0 }; ...; a++`).
nextAttemptNoReset(k) == k + 1
nextAttempt(k) == IF k > 3 THEN 1 ELSE k + 1

(***************************************************************************)
(* run: record the watcher, then loop: quit if c.exit is closed, create a *)
(* registry watcher (retrying after a backoff on error), and watch it     *)
(* until Next fails.  The deferred function deletes c.watched[service].    *)
(***************************************************************************)
RunStart(r) ==
  /\ rpc[r] = "start"
  /\ watched' = TRUE /\ rpc' = [rpc EXCEPT ![r] = "loop"]
  /\ UNCHANGED <<reg, regOps, cache, valid, exit, gpc, gsnap, rq, ra, rb, spc, fails, calls>>

RunLoop(r) ==
  /\ rpc[r] = "loop"
  /\ \/ exit /\ rpc' = [rpc EXCEPT ![r] = "exit"] /\ UNCHANGED <<rq, ra, fails>>
     \/ ~exit /\ rpc' = [rpc EXCEPT ![r] = "watch"] /\ rq' = [rq EXCEPT ![r] = <<>>]
        /\ ra' = [ra EXCEPT ![r] = 0] /\ UNCHANGED fails
     \/ ~exit /\ Fail /\ UNCHANGED <<rpc, rq>>
        /\ ra' = [ra EXCEPT ![r] = nextAttempt(ra[r])]
  /\ UNCHANGED <<reg, regOps, cache, valid, watched, exit, gpc, gsnap, rb, spc, calls>>

\* The error path of watch: w.Stop() (deferred) drops the watcher's
\* events; run returns if quit(), else backs off and loops.
WatchEnds(r) ==
  /\ rpc' = [rpc EXCEPT ![r] = IF exit THEN "exit" ELSE "loop"]
  /\ rq' = [rq EXCEPT ![r] = <<>>]
  /\ rb' = [rb EXCEPT ![r] = IF exit THEN rb[r] ELSE nextAttempt(rb[r])]

RunNextNoExit(r) ==
  /\ rpc[r] = "watch"
  /\ \/ /\ rq[r] # <<>>
        /\ cache' = update(Head(rq[r])) /\ rq' = [rq EXCEPT ![r] = Tail(rq[r])]
        /\ UNCHANGED <<rpc, rb, fails>>
     \/ Fail /\ WatchEnds(r) /\ UNCHANGED cache
  /\ UNCHANGED <<reg, regOps, valid, watched, exit, gpc, gsnap, ra, spc, calls>>

\* w.Next() in watch: the next event goes through update under the lock;
\* Next fails when the registry does, or once c.exit is closed (the helper
\* goroutine of watch calls w.Stop()).
RunNext(r) ==
  /\ rpc[r] = "watch"
  /\ \/ /\ rq[r] # <<>>
        /\ cache' = update(Head(rq[r])) /\ rq' = [rq EXCEPT ![r] = Tail(rq[r])]
        /\ UNCHANGED <<rpc, rb, fails>>
     \/ exit /\ WatchEnds(r) /\ UNCHANGED <<cache, fails>>
     \/ Fail /\ WatchEnds(r) /\ UNCHANGED cache
  /\ UNCHANGED <<reg, regOps, valid, watched, exit, gpc, gsnap, ra, spc, calls>>

\* The deferred delete(c.watched, service) under the lock.
RunExit(r) ==
  /\ rpc[r] = "exit"
  /\ watched' = FALSE /\ rpc' = [rpc EXCEPT ![r] = "dead"]
  /\ UNCHANGED <<reg, regOps, cache, valid, exit, gpc, gsnap, rq, ra, rb, spc, fails, calls>>

(***************************************************************************)
(* Stop: `select { case <-c.exit: return; default: close(c.exit) }`.       *)
(* Closing a closed channel panics.                                        *)
(***************************************************************************)
Stop(s) ==
  /\ spc[s] = "idle" /\ Call
  /\ spc' = [spc EXCEPT ![s] = IF exit THEN "idle" ELSE "close"]
  /\ UNCHANGED <<reg, regOps, cache, valid, watched, exit, gpc, gsnap, rpc, rq, ra, rb, fails>>

StopClose(s) ==
  /\ spc[s] = "close"
  /\ spc' = [spc EXCEPT ![s] = IF exit THEN "panicked" ELSE "idle"]
  /\ exit' = TRUE
  /\ UNCHANGED <<reg, regOps, cache, valid, watched, gpc, gsnap, rpc, rq, ra, rb, fails, calls>>

Getter(g) == GetFetch(g) \/ GetStore(g)
Runner(r) == RunStart(r) \/ RunLoop(r) \/ RunNext(r) \/ RunExit(r)

Next ==
  \/ \E n \in Nodes : Register(n) \/ Deregister(n)
  \/ Expire
  \/ \E g \in Getters : GetService(g) \/ Getter(g)
  \/ \E r \in Runs : Runner(r)
  \/ \E s \in Stoppers : Stop(s) \/ StopClose(s)

\* Goroutines that can run eventually do; callers, the registry and the
\* clock are not obliged to act.
Fairness ==
  /\ \A g \in Getters : WF_vars(Getter(g))
  /\ \A r \in Runs : WF_vars(Runner(r))
  /\ \A s \in Stoppers : WF_vars(StopClose(s))

Spec == Init /\ [][Next]_vars
FairSpec == Spec /\ Fairness

(***************************************************************************)
(* Properties                                                              *)
(***************************************************************************)
TypeOK ==
  /\ reg \subseteq Nodes /\ regOps \in 0..MaxRegOps
  /\ cache \in {None} \cup [Nodes -> Status] /\ valid \in BOOLEAN
  /\ watched \in BOOLEAN /\ exit \in BOOLEAN
  /\ gpc \in [Getters -> {"idle", "fetch", "store"}]
  /\ gsnap \in [Getters -> SUBSET Nodes]
  /\ rpc \in [Runs -> {"none", "start", "loop", "watch", "exit", "dead"}]
  /\ rq \in [Runs -> Seq(Event)]
  /\ ra \in [Runs -> 0..4] /\ rb \in [Runs -> 0..4]
  /\ spc \in [Stoppers -> {"idle", "close", "panicked"}]
  /\ fails \in 0..MaxFails /\ calls \in 0..MaxCalls

\* Nothing is in flight: no getter holds a registry answer it has not yet
\* stored, and every registry watcher has delivered all its events.
Quiescent ==
  /\ \A g \in Getters : gpc[g] # "store"
  /\ \A r \in Runs : rq[r] = <<>>

\* A valid cached entry, with a watcher watching the registry and nothing
\* in flight, lists as up exactly the registry's live nodes: the watcher
\* (run/watch/update) keeps what get cached in step with the registry.
WatchConsistent ==
  (isValid /\ ~exit /\ Quiescent /\ \E r \in Runs : rpc[r] = "watch")
    => Up(cache) = reg

\* Once Stop has closed c.exit, every watcher goroutine eventually returns
\* and removes itself from c.watched: quit() is checked at the top of the
\* loop and after every error, and the helper goroutine of watch stops the
\* registry watcher so that a blocked Next fails.
StopEndsWatchers ==
  exit ~> (\A r \in Runs : rpc[r] \in {"none", "dead"}) /\ ~watched
====
