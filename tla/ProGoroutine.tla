---------------------------- MODULE ProGoroutine ----------------------------
(***************************************************************************)
(* The promise of src/util/process/progoroutine.go.  Every ProGoroutine    *)
(* runs its executor on a goroutine of its own (New); resolve and reject   *)
(* settle it once, under its mutex, and release its WaitGroup, on which    *)
(* Await blocks.  Then, Catch and All are executors that Await other       *)
(* promises; All builds a Then and a Catch per input, which report to two  *)
(* buffered channels that All's executor selects on.                       *)
(*                                                                         *)
(* What each executor does is the constant Exec.  An error is identified   *)
(* by the promise that first rejected with it; a result is a value of      *)
(* Values, or the resolutions slice of an All.                             *)
(***************************************************************************)
EXTENDS Integers, Sequences, SequencesExt

CONSTANTS
  Promises,  \* the ProGoroutines of the program
  Exec,      \* Promises -> what its executor does (see Op)
  Values,    \* values passed to resolve
  None

\* resolve(v); reject(err); panic; resolve(v) and then panic; resolve(q)
\* with a promise q; Then / Catch on q; All(qs...); never settle; and the
\* Then and Catch that All makes for its idx-th input.
Op == [op : {"resolve", "resolvepanic"}, arg : Values]
        \cup [op : {"reject", "panic", "never"}]
        \cup [op : {"flatten", "then", "catch"}, arg : Promises]
        \cup [op : {"all"}, arg : Seq(Promises)]
        \cup [op : {"allthen"}, arg : Promises, all : Promises, idx : Nat]
        \cup [op : {"allcatch"}, arg : Promises, all : Promises]

ASSUME Exec \in [Promises -> Op]

\* Promises created by All's executor; the others are created at start.
Helpers(a) == {p \in Promises : Exec[p].op \in {"allthen", "allcatch"} /\ Exec[p].all = a}

VARIABLES
  created,   \* the promises New has been called for
  pending,   \* promise.pending
  result,    \* promise.result
  err,       \* promise.err: the promise whose rejection it is, or None
  wg,        \* promise.wg counter
  mu,        \* promise.mutex: the executor goroutine holding it, or None
  pc,        \* executor goroutine of each promise
  resCh,     \* All: resolutionsChan, a sequence of [idx, data]
  errCh,     \* All: errorChan
  recv,      \* All: x, the receives done
  res        \* All: the resolutions slice

vars == <<created, pending, result, err, wg, mu, pc, resCh, errCh, recv, res>>

Init ==
  /\ created = {p \in Promises : Exec[p].op \notin {"allthen", "allcatch"}}
  /\ pending = [p \in Promises |-> TRUE]
  /\ result = [p \in Promises |-> None] /\ err = [p \in Promises |-> None]
  /\ wg = [p \in Promises |-> 1]          \* promise.wg.Add(1)
  /\ mu = [p \in Promises |-> None]
  /\ pc = [p \in Promises |-> "start"]
  /\ resCh = [p \in Promises |-> <<>>] /\ errCh = [p \in Promises |-> <<>>]
  /\ recv = [p \in Promises |-> 0]
  /\ res = [p \in Promises |-> IF Exec[p].op = "all"
                                THEN [i \in 1..Len(Exec[p].arg) |-> None] ELSE <<>>]

Settled(q) == wg[q] = 0

(***************************************************************************)
(* resolve and reject, each one step under the mutex of p.                 *)
(***************************************************************************)
\* Mutant: the `if !promise.pending` check dropped.
rejectNoPending(p, e) ==
  /\ mu[p] = None
  /\ err' = [err EXCEPT ![p] = e] /\ pending' = [pending EXCEPT ![p] = FALSE]
  /\ wg' = [wg EXCEPT ![p] = @ - 1]
  /\ UNCHANGED result

reject(p, e) ==
  /\ mu[p] = None
  /\ IF pending[p]
     THEN /\ err' = [err EXCEPT ![p] = e] /\ pending' = [pending EXCEPT ![p] = FALSE]
          /\ wg' = [wg EXCEPT ![p] = @ - 1]
     ELSE UNCHANGED <<err, pending, wg>>
  /\ UNCHANGED result

\* resolve with a value that is not a *ProGoroutine.
resolve(p, v) ==
  /\ mu[p] = None
  /\ IF pending[p]
     THEN /\ result' = [result EXCEPT ![p] = v] /\ pending' = [pending EXCEPT ![p] = FALSE]
          /\ wg' = [wg EXCEPT ![p] = @ - 1]
     ELSE UNCHANGED <<result, pending, wg>>
  /\ UNCHANGED err

goto(p, l) == pc' = [pc EXCEPT ![p] = l]
chans == <<resCh, errCh, recv, res>>

(***************************************************************************)
(* The executor goroutine of p.  Start is its first step: the executors    *)
(* that settle p at once do so; a panic is recovered by handlePanic,       *)
(* which rejects.                                                          *)
(***************************************************************************)
Start(p) ==
  LET x == Exec[p] IN
  /\ p \in created /\ pc[p] = "start"
  /\ \/ x.op \in {"resolve", "resolvepanic"} /\ resolve(p, x.arg)
        /\ goto(p, IF x.op = "resolve" THEN "done" ELSE "panic") /\ UNCHANGED <<created, mu, chans>>
     \/ x.op \in {"reject", "panic"} /\ reject(p, p) /\ goto(p, "done") /\ UNCHANGED <<created, mu, chans>>
     \/ x.op = "never" /\ goto(p, "done") /\ UNCHANGED <<created, pending, result, err, wg, mu, chans>>
     \/ x.op = "flatten" /\ mu[p] = None /\ mu' = [mu EXCEPT ![p] = p]
        /\ goto(p, "flatten") /\ UNCHANGED <<created, pending, result, err, wg, chans>>
     \/ x.op \in {"then", "catch", "allthen", "allcatch"} /\ goto(p, "await")
        /\ UNCHANGED <<created, pending, result, err, wg, mu, chans>>
     \/ x.op = "all" /\ x.arg = <<>> /\ resolve(p, <<>>) /\ goto(p, "done")
        /\ UNCHANGED <<created, mu, chans>>
     \/ x.op = "all" /\ x.arg # <<>> /\ created' = created \cup Helpers(p)
        /\ goto(p, "loop") /\ UNCHANGED <<pending, result, err, wg, mu, chans>>

\* The executor panics after resolving: handlePanic rejects, which does
\* nothing on a settled promise.
PanicAfter(p) ==
  /\ pc[p] = "panic" /\ reject(p, p) /\ goto(p, "done")
  /\ UNCHANGED <<created, mu, chans>>

\* Mutant: the error path calls reject while still holding the mutex.
FlattenNoUnlock(p) ==
  LET q == Exec[p].arg IN
  /\ pc[p] = "flatten" /\ Settled(q)
  /\ IF ~pending[p]
     THEN mu' = [mu EXCEPT ![p] = None] /\ goto(p, "done")
          /\ UNCHANGED <<pending, result, wg>>
     ELSE IF err[q] # None
     THEN goto(p, "reject") /\ UNCHANGED <<mu, pending, result, wg>>
     ELSE /\ result' = [result EXCEPT ![p] = result[q]]
          /\ pending' = [pending EXCEPT ![p] = FALSE] /\ wg' = [wg EXCEPT ![p] = @ - 1]
          /\ mu' = [mu EXCEPT ![p] = None] /\ goto(p, "done")
  /\ UNCHANGED <<created, err, chans>>

\* resolve(q) of a *ProGoroutine, with p's mutex held: a settled p returns;
\* else Await q; if q was rejected, unlock and reject(err), else take its
\* result.
Flatten(p) ==
  LET q == Exec[p].arg IN
  /\ pc[p] = "flatten" /\ Settled(q)
  /\ IF ~pending[p]
     THEN mu' = [mu EXCEPT ![p] = None] /\ goto(p, "done")
          /\ UNCHANGED <<pending, result, wg>>
     ELSE IF err[q] # None
     THEN mu' = [mu EXCEPT ![p] = None] /\ goto(p, "reject") /\ UNCHANGED <<pending, result, wg>>
     ELSE /\ result' = [result EXCEPT ![p] = result[q]]
          /\ pending' = [pending EXCEPT ![p] = FALSE] /\ wg' = [wg EXCEPT ![p] = @ - 1]
          /\ mu' = [mu EXCEPT ![p] = None] /\ goto(p, "done")
  /\ UNCHANGED <<created, err, chans>>

FlattenReject(p) ==
  /\ pc[p] = "reject" /\ reject(p, err[Exec[p].arg]) /\ goto(p, "done")
  /\ UNCHANGED <<created, mu, chans>>

(***************************************************************************)
(* Then, Catch and All's helpers: Await q, then settle p from it.  All's   *)
(* Then sends [idx, data] to resolutionsChan before resolving; its Catch   *)
(* sends the error to errorChan before rejecting.                          *)
(***************************************************************************)
Await(p) ==
  LET x == Exec[p]  q == x.arg IN
  /\ pc[p] = "await" /\ Settled(q)
  /\ IF err[q] # None
     THEN /\ reject(p, err[q])
          /\ errCh' = IF x.op = "allcatch"
                      THEN [errCh EXCEPT ![x.all] = Append(@, err[q])] ELSE errCh
          /\ UNCHANGED resCh
     ELSE /\ resolve(p, result[q])
          /\ resCh' = IF x.op = "allthen"
                      THEN [resCh EXCEPT ![x.all] = Append(@, [idx |-> x.idx, data |-> result[q]])]
                      ELSE resCh
          /\ UNCHANGED errCh
  /\ goto(p, "done")
  /\ UNCHANGED <<created, mu, recv, res>>

\* Mutant: each result stored at the next free slot, in completion order.
AllRecvArrival(p) ==
  /\ pc[p] = "loop" /\ recv[p] < Len(Exec[p].arg)
  /\ \/ /\ resCh[p] # <<>>
        /\ res' = [res EXCEPT ![p][recv[p] + 1] = Head(resCh[p]).data]
        /\ resCh' = [resCh EXCEPT ![p] = Tail(@)] /\ recv' = [recv EXCEPT ![p] = @ + 1]
        /\ UNCHANGED <<pending, result, err, wg, pc, errCh>>
     \/ /\ errCh[p] # <<>>
        /\ reject(p, Head(errCh[p])) /\ goto(p, "done")
        /\ errCh' = [errCh EXCEPT ![p] = Tail(@)] /\ recv' = [recv EXCEPT ![p] = @ + 1]
        /\ UNCHANGED <<resCh, res>>
  /\ UNCHANGED <<created, mu>>

(***************************************************************************)
(* All's loop: psLen receives, each a select over the two channels; an    *)
(* error rejects and returns, and after psLen resolutions it resolves.    *)
(***************************************************************************)
AllRecv(p) ==
  /\ pc[p] = "loop" /\ recv[p] < Len(Exec[p].arg)
  /\ \/ /\ resCh[p] # <<>>
        /\ res' = [res EXCEPT ![p][Head(resCh[p]).idx] = Head(resCh[p]).data]
        /\ resCh' = [resCh EXCEPT ![p] = Tail(@)] /\ recv' = [recv EXCEPT ![p] = @ + 1]
        /\ UNCHANGED <<pending, result, err, wg, pc, errCh>>
     \/ /\ errCh[p] # <<>>
        /\ reject(p, Head(errCh[p])) /\ goto(p, "done")
        /\ errCh' = [errCh EXCEPT ![p] = Tail(@)] /\ recv' = [recv EXCEPT ![p] = @ + 1]
        /\ UNCHANGED <<resCh, res>>
  /\ UNCHANGED <<created, mu>>

AllDone(p) ==
  /\ pc[p] = "loop" /\ recv[p] = Len(Exec[p].arg)
  /\ resolve(p, res[p]) /\ goto(p, "done")
  /\ UNCHANGED <<created, mu, chans>>

Executor(p) ==
  Start(p) \/ PanicAfter(p) \/ Flatten(p) \/ FlattenReject(p) \/ Await(p)
  \/ AllRecv(p) \/ AllDone(p)

Next == \E p \in Promises : Executor(p)

\* Every executor goroutine is runnable until it blocks in Await or on
\* the mutex; the Go scheduler runs it.
Fairness == \A p \in Promises : WF_vars(Executor(p))

Spec == Init /\ [][Next]_vars
FairSpec == Spec /\ Fairness

(***************************************************************************)
(* Properties                                                              *)
(***************************************************************************)
TypeOK ==
  /\ created \subseteq Promises /\ pending \in [Promises -> BOOLEAN]
  /\ err \in [Promises -> Promises \cup {None}]
  /\ wg \in [Promises -> 0..1]
  /\ mu \in [Promises -> Promises \cup {None}]
  /\ \A p \in Promises : pending[p] <=> wg[p] = 1

\* An All resolves only when every input resolved, with the input results
\* in input order; it rejects only with the error of an input that
\* rejected.
AllAgrees ==
  \A a \in {p \in Promises : Exec[p].op = "all"} :
    LET qs == Exec[a].arg IN
    /\ ~pending[a] /\ err[a] = None =>
         \A i \in 1..Len(qs) : ~pending[qs[i]] /\ err[qs[i]] = None
                               /\ result[a][i] = result[qs[i]]
    /\ err[a] # None => \E i \in 1..Len(qs) : err[qs[i]] = err[a]

\* The promises an executor waits on.
Deps(p) ==
  IF Exec[p].op \in {"flatten", "then", "catch", "allthen", "allcatch"}
  THEN {Exec[p].arg}
  ELSE IF Exec[p].op = "all" THEN Range(Exec[p].arg) ELSE {}

\* A created promise whose executor settles it settles once every promise
\* it awaits has: Await returns, the mutex is released on every path, and
\* All hears from each input.
EventuallySettled ==
  \A p \in Promises :
    (p \in created /\ Exec[p].op # "never" /\ \A q \in Deps(p) : ~pending[q])
      ~> ~pending[p]
====
