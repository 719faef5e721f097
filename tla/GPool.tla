-------------------------------- MODULE GPool --------------------------------
(***************************************************************************)
(* The goroutine pool of src/gpool: admission control in retrieveWorker,   *)
(* the worker loop of goWorker.run, revertWorker, the scavenger            *)
(* purgePeriodically, and Release / Reboot / Tune.                         *)
(*                                                                         *)
(* Processes: the callers of Submit, the worker goroutines, the scavenger  *)
(* goroutines (Reboot starts a new one) and one administrator calling      *)
(* Release, Reboot and Tune.  `lock` is the pool's spin lock; the only     *)
(* critical section split into two steps is the one that ends in           *)
(* cond.Wait, because running, capacity, state and cond.Signal/Broadcast   *)
(* are used without the lock and may interleave before the waiter is      *)
(* registered with the condition variable.                                 *)
(***************************************************************************)
EXTENDS Integers, Sequences, FiniteSets, SequencesExt, WorkerArray

CONSTANTS
  Callers,        \* goroutines calling Submit
  Workers,        \* worker shells (goWorker structs); bounds live workers
  Scavengers,     \* purgePeriodically goroutines; bounds Reboot
  Size,           \* the size argument of NewPool
  PreAlloc,       \* Options.PreAlloc: ring-buffer store, Tune disabled
  Nonblocking,    \* Options.Nonblocking
  MaxBlockingTasks, \* Options.MaxBlockingTasks, 0 = unbounded
  Expiry,         \* Options.ExpiryDuration in clock ticks
  MaxClock,       \* bound on the logical clock read by time.Now()
  TuneSizes,      \* arguments the administrator may pass to Tune
  TaskPanics,     \* TRUE if a submitted task may panic
  AdminOps,       \* subset of {"release", "reboot", "tune"} the admin calls
  MaxCalls,       \* bound on API calls (Submit, Release, Reboot, Tune), 0 = none
  None            \* model value: no worker / no lock holder

ASSUME
  /\ Size \in Int /\ Expiry \in Nat \ {0} /\ MaxClock \in Nat
  /\ MaxBlockingTasks \in Nat /\ MaxCalls \in Nat /\ TuneSizes \subseteq Int
  /\ {PreAlloc, Nonblocking, TaskPanics} \subseteq BOOLEAN
  /\ AdminOps \subseteq {"release", "reboot", "tune"}
  \* NewPool fails with ErrInvalidPreAllocSize for an unlimited pool.
  /\ PreAlloc => Size > 0

OPENED == "OPENED"
CLOSED == "CLOSED"
Task == "task"          \* a func() sent on w.args
Sentinel == "nil"       \* the nil that makes a worker quit
Empty == "empty"        \* nothing in the one-slot channel w.args

VARIABLES
  capacity, running, state, workers, blockingNum, waitQ, lock, clock,
  pc, held, capSeen,                 \* callers
  wpc, args, recycleTime, exiting,   \* workers
  spc, expired,                      \* scavengers
  apc,                               \* administrator
  calls                              \* API calls made so far

poolVars == <<capacity, running, state, workers, blockingNum, waitQ, lock, clock>>
callerVars == <<pc, held, capSeen>>
workerVars == <<wpc, args, recycleTime, exiting>>
scavVars == <<spc, expired>>
vars == <<poolVars, callerVars, workerVars, scavVars, apc, calls>>

-----------------------------------------------------------------------------
(* Helpers for the condition variable: Go's notifyList wakes waiters in    *)
(* ticket order; a Signal with nobody registered is lost.                  *)

Signal ==
  IF waitQ = <<>> THEN UNCHANGED <<waitQ, pc>>
  ELSE /\ waitQ' = Tail(waitQ)
       /\ pc' = [pc EXCEPT ![Head(waitQ)] = "woken"]

Broadcast ==
  /\ waitQ' = <<>>
  /\ pc' = [c \in Callers |-> IF Contains(waitQ, c) THEN "woken" ELSE pc[c]]

LockFree == lock = None
IsClosed == state = CLOSED

-----------------------------------------------------------------------------
Init ==
  \* NewPool: size <= 0 means an unlimited pool (capacity -1).
  /\ capacity = IF Size <= 0 THEN -1 ELSE Size
  /\ running = 0
  /\ state = OPENED
  /\ workers = <<>>
  /\ blockingNum = 0
  /\ waitQ = <<>>
  /\ lock = None
  /\ clock = 0
  /\ pc = [c \in Callers |-> "idle"]
  /\ held = [c \in Callers |-> None]
  /\ capSeen = [c \in Callers |-> capacity]
  /\ wpc = [w \in Workers |-> "dead"]
  /\ args = [w \in Workers |-> Empty]
  /\ recycleTime = [w \in Workers |-> 0]
  /\ exiting = 0
  \* NewPool starts one purgePeriodically goroutine.
  /\ LET s0 == CHOOSE s \in Scavengers : TRUE
     IN spc = [s \in Scavengers |-> IF s = s0 THEN "tick" ELSE "stopped"]
  /\ expired = [s \in Scavengers |-> <<>>]
  /\ apc = "idle"
  /\ calls = 0

-----------------------------------------------------------------------------
(* Callers: Submit and retrieveWorker.                                     *)

\* Submit: `if p.IsClosed() { return ErrPoolClosed }`, else retrieveWorker.
Submit(c) ==
  /\ pc[c] = "idle"
  /\ pc' = [pc EXCEPT ![c] = IF IsClosed THEN "idle" ELSE "retrieve"]
  /\ UNCHANGED <<poolVars, held, capSeen, workerVars, scavVars, apc>>

Goto(c, where) == pc' = [pc EXCEPT ![c] = where]

\* Mutant: the blocking limit checked with > instead of >=.
BlockOrRejectOffByOne(c, bn) ==
  \/ /\ MaxBlockingTasks # 0 /\ bn > MaxBlockingTasks
     /\ blockingNum' = bn
     /\ Goto(c, "idle")
     /\ UNCHANGED lock
  \/ /\ ~(MaxBlockingTasks # 0 /\ bn > MaxBlockingTasks)
     /\ blockingNum' = bn + 1
     /\ lock' = c
     /\ Goto(c, "prewait")

\* The head of the blocking loop, entered with the lock held and bn the
\* current blockingNum: give up with ErrPoolOverload when MaxBlockingTasks
\* callers are already blocked, else count this caller as blocked and keep
\* the lock until Wait.
BlockOrReject(c, bn) ==
  \/ /\ MaxBlockingTasks # 0 /\ bn >= MaxBlockingTasks
     /\ blockingNum' = bn
     /\ Goto(c, "idle")
     /\ UNCHANGED lock
  \/ /\ ~(MaxBlockingTasks # 0 /\ bn >= MaxBlockingTasks)
     /\ blockingNum' = bn + 1
     /\ lock' = c
     /\ Goto(c, "prewait")

\* Mutant: detach returns the last worker but leaves it in the store.
TakeIdleKeep(c) ==
  /\ workers # <<>>
  /\ held' = [held EXCEPT ![c] = Detached(workers)]
  /\ workers' = workers
  /\ pc' = [pc EXCEPT ![c] = "send"]

\* Detach the most recently idled worker and unlock.
TakeIdle(c) ==
  /\ workers # <<>>
  /\ held' = [held EXCEPT ![c] = Detached(workers)]
  /\ workers' = Detach(workers)
  /\ pc' = [pc EXCEPT ![c] = "send"]

\* retrieveWorker up to the first unlock: detach an idle worker; with none,
\* spawn while under capacity; at capacity fail (nonblocking) or block.
Retrieve(c) ==
  /\ pc[c] = "retrieve" /\ LockFree
  /\ capSeen' = [capSeen EXCEPT ![c] = capacity]
  /\ LET underCap == capacity = -1 \/ capacity > running
     IN \/ TakeIdle(c) /\ UNCHANGED <<blockingNum, lock>>
        \/ /\ workers = <<>> /\ underCap
           /\ Goto(c, "spawn")
           /\ UNCHANGED <<workers, held, blockingNum, lock>>
        \/ /\ workers = <<>> /\ ~underCap /\ Nonblocking
           /\ Goto(c, "idle")
           /\ UNCHANGED <<workers, held, blockingNum, lock>>
        \/ /\ workers = <<>> /\ ~underCap /\ ~Nonblocking
           /\ BlockOrReject(c, blockingNum)
           /\ UNCHANGED <<workers, held>>
  /\ UNCHANGED <<capacity, running, state, waitQ, clock, workerVars, scavVars, apc>>

\* p.cond.Wait(): register with the notify list, then release the lock.
Wait(c) ==
  /\ pc[c] = "prewait"
  /\ waitQ' = Append(waitQ, c)
  /\ lock' = None
  /\ pc' = [pc EXCEPT ![c] = "waiting"]
  /\ UNCHANGED <<capacity, running, state, workers, blockingNum, clock,
                 held, capSeen, workerVars, scavVars, apc>>

\* Woken, cond.Wait reacquires the lock and the loop body runs with
\* blockingNum decremented: with no running worker left, unlock and go to
\* the closed check; else detach; else spawn if under the capacity read
\* before blocking (capSeen); else back to the head of the loop.
Rewake(c) ==
  /\ pc[c] = "woken" /\ LockFree
  /\ LET nw == running
     IN \/ /\ nw = 0
           /\ blockingNum' = blockingNum - 1
           /\ Goto(c, "zero")
           /\ UNCHANGED <<workers, held, lock>>
        \/ /\ nw # 0
           /\ blockingNum' = blockingNum - 1
           /\ TakeIdle(c)
           /\ UNCHANGED lock
        \/ /\ nw # 0 /\ workers = <<>> /\ nw < capSeen[c]
           /\ blockingNum' = blockingNum - 1
           /\ Goto(c, "spawn")
           /\ UNCHANGED <<workers, held, lock>>
        \/ /\ nw # 0 /\ workers = <<>> /\ nw >= capSeen[c]
           /\ BlockOrReject(c, blockingNum - 1) \* `continue`
           /\ UNCHANGED <<workers, held>>
  /\ UNCHANGED <<capacity, running, state, waitQ, clock, capSeen,
                 workerVars, scavVars, apc>>

\* After the unlock in the `nw == 0` branch: spawn unless the pool closed
\* (then retrieveWorker returns nil and Submit fails with ErrPoolOverload).
ZeroCheck(c) ==
  /\ pc[c] = "zero"
  /\ pc' = [pc EXCEPT ![c] = IF IsClosed THEN "idle" ELSE "spawn"]
  /\ UNCHANGED <<poolVars, held, capSeen, workerVars, scavVars, apc>>

\* Mutant: w.run() without incRunning.
SpawnNoInc(c) ==
  /\ pc[c] = "spawn"
  /\ \E w \in Workers :
       /\ wpc[w] = "dead"
       /\ held' = [held EXCEPT ![c] = w]
       /\ wpc' = [wpc EXCEPT ![w] = "wait"]
  /\ running' = running
  /\ pc' = [pc EXCEPT ![c] = "send"]
  /\ UNCHANGED <<capacity, state, workers, blockingNum, waitQ, lock, clock,
                 capSeen, args, recycleTime, exiting, scavVars, apc>>

\* spawnWorker: workerCache.Get() hands out a free shell, w.run() does
\* incRunning and starts the worker goroutine.
Spawn(c) ==
  /\ pc[c] = "spawn"
  /\ \E w \in Workers :
       /\ wpc[w] = "dead"
       /\ held' = [held EXCEPT ![c] = w]
       /\ wpc' = [wpc EXCEPT ![w] = "wait"]
  /\ running' = running + 1
  /\ pc' = [pc EXCEPT ![c] = "send"]
  /\ UNCHANGED <<capacity, state, workers, blockingNum, waitQ, lock, clock,
                 capSeen, args, recycleTime, exiting, scavVars, apc>>

\* `w.args <- task`: a send on the one-slot channel, blocking while full.
Send(c) ==
  /\ pc[c] = "send"
  /\ args[held[c]] = Empty
  /\ args' = [args EXCEPT ![held[c]] = Task]
  /\ held' = [held EXCEPT ![c] = None]
  /\ pc' = [pc EXCEPT ![c] = "idle"]
  /\ UNCHANGED <<poolVars, capSeen, wpc, recycleTime, exiting, scavVars, apc>>


-----------------------------------------------------------------------------
(* Workers: the goroutine started by goWorker.run.                         *)

\* `for arg := range w.args`: a nil arg ends the loop; a task is executed.
Receive(w) ==
  /\ wpc[w] = "wait" /\ args[w] # Empty
  /\ wpc' = [wpc EXCEPT ![w] = IF args[w] = Sentinel THEN "exit" ELSE "exec"]
  /\ args' = [args EXCEPT ![w] = Empty]
  /\ UNCHANGED <<poolVars, callerVars, recycleTime, exiting, scavVars, apc>>

\* Mutant: revertWorker without the over-capacity check.
FinishNoCapCheck(w) ==
  /\ wpc[w] = "exec"
  /\ \/ /\ TaskPanics
        /\ wpc' = [wpc EXCEPT ![w] = "exit"]
        /\ UNCHANGED recycleTime
     \/ /\ IF IsClosed
           THEN /\ wpc' = [wpc EXCEPT ![w] = "exit"]
                /\ UNCHANGED recycleTime
           ELSE /\ wpc' = [wpc EXCEPT ![w] = "revert"]
                /\ recycleTime' = [recycleTime EXCEPT ![w] = clock]
  /\ UNCHANGED <<poolVars, callerVars, args, exiting, scavVars, apc>>

\* The task returns, or panics and unwinds out of the loop to the deferred
\* cleanup.  On return, revertWorker's lock-free checks run: refuse when the
\* pool is over capacity or closed, else stamp recycleTime = time.Now().
Finish(w) ==
  /\ wpc[w] = "exec"
  /\ \/ /\ TaskPanics
        /\ wpc' = [wpc EXCEPT ![w] = "exit"]
        /\ UNCHANGED recycleTime
     \/ /\ IF (capacity > 0 /\ running > capacity) \/ IsClosed
           THEN /\ wpc' = [wpc EXCEPT ![w] = "exit"]
                /\ UNCHANGED recycleTime
           ELSE /\ wpc' = [wpc EXCEPT ![w] = "revert"]
                /\ recycleTime' = [recycleTime EXCEPT ![w] = clock]
  /\ UNCHANGED <<poolVars, callerVars, args, exiting, scavVars, apc>>

\* Mutant: revertWorker without the IsClosed recheck under the lock.
RevertInsertNoRecheck(w) ==
  /\ wpc[w] = "revert" /\ LockFree
  /\ IF InsertFails(workers, PreAlloc, Size)
     THEN /\ wpc' = [wpc EXCEPT ![w] = "exit"]
          /\ UNCHANGED <<workers, waitQ, pc>>
     ELSE /\ workers' = Insert(workers, w)
          /\ wpc' = [wpc EXCEPT ![w] = "wait"]
          /\ Signal
  /\ UNCHANGED <<capacity, running, state, blockingNum, lock, clock, held,
                 capSeen, args, recycleTime, exiting, scavVars, apc>>

\* revertWorker under the lock: recheck IsClosed, insert into the store
\* (the ring buffer may refuse), and cond.Signal one blocked caller.
RevertInsert(w) ==
  /\ wpc[w] = "revert" /\ LockFree
  /\ IF IsClosed \/ InsertFails(workers, PreAlloc, Size)
     THEN /\ wpc' = [wpc EXCEPT ![w] = "exit"]
          /\ UNCHANGED <<workers, waitQ, pc>>
     ELSE /\ workers' = Insert(workers, w)
          /\ wpc' = [wpc EXCEPT ![w] = "wait"]
          /\ Signal
  /\ UNCHANGED <<capacity, running, state, blockingNum, lock, clock, held,
                 capSeen, args, recycleTime, exiting, scavVars, apc>>

\* Bound on goroutines that have run decRunning but not yet cond.Signal.
MaxExiting == Cardinality(Workers)

\* The deferred cleanup: decRunning, and workerCache.Put(w) makes the
\* shell reusable; the goroutine still has to call cond.Signal.
Exit(w) ==
  /\ wpc[w] = "exit"
  /\ exiting < MaxExiting
  /\ running' = running - 1
  /\ wpc' = [wpc EXCEPT ![w] = "dead"]
  /\ exiting' = exiting + 1
  /\ UNCHANGED <<capacity, state, workers, blockingNum, waitQ, lock, clock,
                 callerVars, args, recycleTime, scavVars, apc>>

\* The last statement of the deferred cleanup: w.pool.cond.Signal().
ExitSignal ==
  /\ exiting > 0
  /\ exiting' = exiting - 1
  /\ Signal
  /\ UNCHANGED <<capacity, running, state, workers, blockingNum, lock, clock,
                 held, capSeen, wpc, args, recycleTime, scavVars, apc>>

-----------------------------------------------------------------------------
(* Scavengers: purgePeriodically.                                          *)

\* A heartbeat tick: stop when the pool is closed.
ScavTick(s) ==
  /\ spc[s] = "tick"
  /\ spc' = [spc EXCEPT ![s] = IF IsClosed THEN "stopped" ELSE "retrieve"]
  /\ UNCHANGED <<poolVars, callerVars, workerVars, expired, apc>>

\* Under the lock: workers.retrieveExpiry(ExpiryDuration).
ScavRetrieve(s) ==
  /\ spc[s] = "retrieve" /\ LockFree
  /\ LET cutoff == clock - Expiry
     IN /\ expired' = [expired EXCEPT ![s] = Expired(workers, recycleTime, cutoff)]
        /\ workers' = AfterExpiry(workers, recycleTime, cutoff)
  /\ spc' = [spc EXCEPT ![s] = "notify"]
  /\ UNCHANGED <<capacity, running, state, blockingNum, waitQ, lock, clock,
                 callerVars, workerVars, apc>>

\* Outside the lock: `expiredWorkers[i].args <- nil` for each.
ScavNotify(s) ==
  /\ spc[s] = "notify"
  /\ \A i \in 1..Len(expired[s]) : args[expired[s][i]] = Empty
  /\ args' = [w \in Workers |-> IF Contains(expired[s], w) THEN Sentinel ELSE args[w]]
  /\ expired' = [expired EXCEPT ![s] = <<>>]
  /\ spc' = [spc EXCEPT ![s] = "check"]
  /\ UNCHANGED <<poolVars, callerVars, wpc, recycleTime, exiting, apc>>

\* Mutant: the scavenger without its `Running() == 0` broadcast.
ScavCheckNoBroadcast(s) ==
  /\ spc[s] = "check"
  /\ UNCHANGED <<waitQ, pc>>
  /\ spc' = [spc EXCEPT ![s] = "tick"]
  /\ UNCHANGED <<capacity, running, state, workers, blockingNum, lock, clock,
                 held, capSeen, workerVars, expired, apc>>

\* `if p.Running() == 0 { p.cond.Broadcast() }`.
ScavCheck(s) ==
  /\ spc[s] = "check"
  /\ IF running = 0 THEN Broadcast ELSE UNCHANGED <<waitQ, pc>>
  /\ spc' = [spc EXCEPT ![s] = "tick"]
  /\ UNCHANGED <<capacity, running, state, workers, blockingNum, lock, clock,
                 held, capSeen, workerVars, expired, apc>>

-----------------------------------------------------------------------------
(* The administrator: Release, Reboot, Tune.                               *)

\* Release: state = CLOSED, then under the lock workers.reset() (which
\* sends nil to every idle worker), then cond.Broadcast().
Release ==
  /\ apc = "idle" /\ "release" \in AdminOps
  /\ state' = CLOSED
  /\ apc' = "reset"
  /\ UNCHANGED <<capacity, running, workers, blockingNum, waitQ, lock, clock,
                 callerVars, workerVars, scavVars>>

ReleaseReset ==
  /\ apc = "reset" /\ LockFree
  /\ \A i \in 1..Len(workers) : args[workers[i]] = Empty
  /\ args' = [w \in Workers |-> IF Contains(workers, w) THEN Sentinel ELSE args[w]]
  /\ workers' = Reset(workers)
  /\ apc' = "broadcast"
  /\ UNCHANGED <<capacity, running, state, blockingNum, waitQ, lock, clock,
                 callerVars, wpc, recycleTime, exiting, scavVars>>

ReleaseBroadcast ==
  /\ apc = "broadcast"
  /\ Broadcast
  /\ apc' = "idle"
  /\ UNCHANGED <<capacity, running, state, workers, blockingNum, lock, clock,
                 held, capSeen, workerVars, scavVars>>

\* Reboot: CAS CLOSED -> OPENED, and on success `go p.purgePeriodically()`.
\* A new scavenger needs a free id of Scavengers (the model's bound).
Reboot ==
  /\ apc = "idle" /\ "reboot" \in AdminOps
  /\ IsClosed
  /\ \E s \in Scavengers :
       /\ spc[s] = "stopped"
       /\ spc' = [spc EXCEPT ![s] = "tick"]
  /\ state' = OPENED
  /\ UNCHANGED <<capacity, running, workers, blockingNum, waitQ, lock, clock,
                 callerVars, workerVars, expired, apc>>

\* Tune(size): no effect on an unlimited or preallocated pool, for a
\* non-positive size or the current capacity.
Tune(n) ==
  /\ apc = "idle" /\ "tune" \in AdminOps
  /\ ~(capacity = -1 \/ n <= 0 \/ n = capacity \/ PreAlloc)
  /\ capacity' = n
  /\ UNCHANGED <<running, state, workers, blockingNum, waitQ, lock, clock,
                 callerVars, workerVars, scavVars, apc>>

\* time.Now() advances.
Tick ==
  /\ clock < MaxClock
  /\ clock' = clock + 1
  /\ UNCHANGED <<capacity, running, state, workers, blockingNum, waitQ, lock,
                 callerVars, workerVars, scavVars, apc>>

-----------------------------------------------------------------------------
CallerStep(c) ==
  Retrieve(c) \/ Wait(c) \/ Rewake(c) \/ ZeroCheck(c) \/ Spawn(c) \/ Send(c)
WorkerStep(w) == Receive(w) \/ Finish(w) \/ RevertInsert(w) \/ Exit(w)
ScavStep(s) == ScavTick(s) \/ ScavRetrieve(s) \/ ScavNotify(s) \/ ScavCheck(s)

\* The calls into the pool's API, counted against MaxCalls so that
\* liveness can be asked of behaviours in which the calls stop.
ApiCall ==
  \/ \E c \in Callers : Submit(c)
  \/ Release \/ Reboot \/ \E n \in TuneSizes : Tune(n)

Call ==
  IF MaxCalls = 0 THEN UNCHANGED calls
  ELSE calls < MaxCalls /\ calls' = calls + 1

Internal ==
  \/ \E c \in Callers : CallerStep(c)
  \/ \E w \in Workers : WorkerStep(w)
  \/ ExitSignal
  \/ \E s \in Scavengers : ScavStep(s)
  \/ ReleaseReset \/ ReleaseBroadcast
  \/ Tick

Next == (ApiCall /\ Call) \/ (Internal /\ UNCHANGED calls)

\* Every goroutine that can take a step eventually does, and time passes
\* (up to MaxClock); a caller is not obliged to call Submit, and the
\* administrator is not obliged to start Release, Reboot or Tune (once
\* started, Release runs to its end).
Fairness ==
  /\ \A c \in Callers : WF_vars(CallerStep(c) /\ UNCHANGED calls)
  /\ \A w \in Workers : WF_vars(WorkerStep(w) /\ UNCHANGED calls)
  /\ WF_vars(ExitSignal /\ UNCHANGED calls)
  /\ \A s \in Scavengers : WF_vars(ScavStep(s) /\ UNCHANGED calls)
  /\ WF_vars((ReleaseReset \/ ReleaseBroadcast) /\ UNCHANGED calls)
  /\ WF_vars(Tick /\ UNCHANGED calls)

Spec == Init /\ [][Next]_vars

\* The state as far as the future depends on it, for TLC's state
\* comparison: a recycleTime is only read while its worker is between
\* revertWorker and retrieveExpiry, and capSeen only by a blocked caller.
StampRead(w) ==
  \/ wpc[w] = "revert" \/ Contains(workers, w)
  \/ \E s \in Scavengers : Contains(expired[s], w)
View ==
  <<poolVars, pc, held,
    [c \in Callers |-> IF pc[c] \in {"prewait", "waiting", "woken"}
                       THEN capSeen[c] ELSE 0],
    wpc, args, [w \in Workers |-> IF StampRead(w) THEN recycleTime[w] ELSE 0],
    exiting, scavVars, apc, calls>>
FairSpec == Spec /\ Fairness

-----------------------------------------------------------------------------
(* Properties.                                                             *)

TypeOK ==
  /\ capacity \in Int /\ running \in Nat /\ state \in {OPENED, CLOSED}
  /\ workers \in Seq(Workers) /\ blockingNum \in Nat
  /\ waitQ \in Seq(Callers) /\ lock \in Callers \cup {None}
  /\ clock \in 0..MaxClock
  /\ pc \in [Callers -> {"idle", "retrieve", "prewait", "waiting", "woken",
                         "zero", "spawn", "send"}]
  /\ held \in [Callers -> Workers \cup {None}]
  /\ wpc \in [Workers -> {"dead", "wait", "exec", "revert", "exit"}]
  /\ args \in [Workers -> {Empty, Task, Sentinel}]
  /\ recycleTime \in [Workers -> 0..MaxClock]
  /\ exiting \in Nat
  /\ spc \in [Scavengers -> {"tick", "retrieve", "notify", "check", "stopped"}]
  /\ expired \in [Scavengers -> Seq(Workers)]
  /\ apc \in {"idle", "reset", "broadcast"}
  /\ calls \in Nat

\* How many hands a worker is in: the idle store, a caller between
\* retrieveWorker and `w.args <- task`, a scavenger between retrieveExpiry
\* and `args <- nil`.
Occurrences(s, w) == Cardinality({i \in 1..Len(s) : s[i] = w})
InExpired(w) == {s \in Scavengers : Contains(expired[s], w)}
Owners(w) ==
  Occurrences(workers, w)
  + Cardinality({c \in Callers : held[c] = w})
  + Cardinality(InExpired(w))

\* A worker goroutine blocked on an empty `w.args` is reachable by exactly
\* one owner that will send it a task or the nil sentinel, and a worker
\* that is executing, reverting or already has something to receive is
\* in nobody's hands: no worker is handed to two callers, and no worker
\* goroutine leaks blocked on its channel (detach, revertWorker,
\* retrieveExpiry, reset racing each other).
WorkerOwnership ==
  \A w \in Workers :
     /\ Owners(w) <= 1
     /\ (Owners(w) = 1) <=> (wpc[w] = "wait" /\ args[w] = Empty)

\* The callers actually blocked in retrieveWorker (between the decision to
\* wait and the reacquired lock) never outnumber a nonzero
\* MaxBlockingTasks, however Signal, Broadcast and `continue` interleave.
BlockedCallers == {c \in Callers : pc[c] \in {"prewait", "waiting", "woken"}}
BlockedWithinLimit ==
  /\ blockingNum = Cardinality(BlockedCallers)
  /\ MaxBlockingTasks # 0 => blockingNum <= MaxBlockingTasks

\* In a preallocated pool the ring buffer never refuses an insert: the
\* idle workers and the workers about to insert themselves never outnumber
\* its size, because revertWorker's lock-free `Running() > capacity` check
\* refuses a worker before it takes the lock, whatever spawns race it
\* (errQueueIsFull is unreachable).
Reverting == {w \in Workers : wpc[w] = "revert"}
RingNeverFull == PreAlloc => Len(workers) + Cardinality(Reverting) <= Size

\* The spec's pool invariant: with a bounded capacity, running never
\* exceeds it (retrieveWorker checks `capacity > p.Running()` under the
\* lock but increments running in spawnWorker after unlocking).
RunningWithinCapacity == capacity >= 0 => running <= capacity

\* The workers retrieveExpiry takes out of the store are exactly those
\* whose recycleTime is at or before now - ExpiryDuration: the scavenger
\* neither retires a fresh worker nor leaves an expired one behind.
MisRetrieved(s) ==
  /\ spc[s] = "retrieve" /\ spc'[s] = "notify"
  /\ Range(expired'[s]) # {w \in Range(workers) : recycleTime[w] <= clock - Expiry}
RetrieveExact == [][\A s \in Scavengers : ~MisRetrieved(s)]_vars

\* Every call of Submit that got past the closed check eventually returns
\* (a worker, ErrPoolOverload or, via the nw == 0 path, nothing): no caller
\* is left in cond.Wait by a lost Signal.
SubmitReturns == \A c \in Callers : (pc[c] = "retrieve") ~> (pc[c] = "idle")

\* Once the pool is closed, running drains to zero (spec section 8):
\* workers finishing their task are refused by revertWorker and idle
\* workers get the nil from reset.
DrainAfterRelease == IsClosed ~> (running = 0)

=============================================================================
