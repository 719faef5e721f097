-------------------------------- MODULE FSM --------------------------------
(***************************************************************************)
(* The finite-state machine of src/util/fsm: the FSM built by NewFSM, its  *)
(* Event call under eventMu, and the EventNoArgs, SetState, Reset and      *)
(* SetAnyState calls that an enter callback makes on its machine.          *)
(*                                                                         *)
(* Callers are goroutines that call Event on one shared FSM.  Event is     *)
(* split at the points where it reads or writes the machine: the eventMu   *)
(* lock, GetDestState, beforeEventCallbacks, SetState(dst),                *)
(* enterStateCallbacks, and the deferred unlock.  Callbacks are user code: *)
(* a check callback answers TRUE or FALSE, and an enter callback does one  *)
(* of the things listed for its state in Callbacks.                        *)
(***************************************************************************)
EXTENDS Integers, Sequences, SequencesExt

CONSTANTS
  Callers,    \* goroutines calling Event
  States,     \* the int states used
  Events,     \* the []EventDesc given to NewFSM: [name, src, dst] records
  Callbacks,  \* the callbacks map: state -> set of what the callback may do
  CheckKeys,  \* the keys of the eventCheckCallbacks map
  Initial,    \* the initial state given to NewFSM
  MaxCalls,   \* bound on Event calls
  None        \* model value: eventMu free, no event

Names == {Events[j].name : j \in 1..Len(Events)}

\* What an enter callback may do to its machine: nothing, set e.Err,
\* SetState(arg), Reset(), SetAnyState(arg), or EventNoArgs(arg).
Effect == [op : {"none", "err", "reset"}, arg : {None}]
            \cup [op : {"set", "any"}, arg : States] \cup [op : {"chain"}, arg : Names]

ASSUME \A s \in DOMAIN Callbacks : Callbacks[s] \subseteq Effect

VARIABLES
  current,    \* f.current
  statusAny,  \* f.statusAny
  checks,     \* f.checkBeforeCallbacks: the statuses, in map iteration order
  mu,         \* f.eventMu: the caller holding it, or None
  pc,         \* caller: where in Event it is
  ev,         \* caller: the event name being handled
  dst,        \* caller: the destination GetDestState returned
  calls

vars == <<current, statusAny, checks, mu, pc, ev, dst, calls>>

(***************************************************************************)
(* NewFSM: one eKey per source of every EventDesc, in order; the callbacks *)
(* of states > 0 and the check callbacks of states >= 0, in the order Go   *)
(* iterates the maps, which is not fixed.                                  *)
(***************************************************************************)
transitions ==
  FlattenSeq([j \in 1..Len(Events) |->
    [i \in 1..Len(Events[j].src) |->
       [event |-> Events[j].name, src |-> Events[j].src[i], dst |-> Events[j].dst]]])

callbacks == {s \in DOMAIN Callbacks : s > 0}

Init ==
  /\ current = Initial /\ statusAny = -1
  /\ checks \in SetToSeqs({s \in CheckKeys : s >= 0})
  /\ mu = None
  /\ pc = [g \in Callers |-> "idle"] /\ ev = [g \in Callers |-> None]
  /\ dst = [g \in Callers |-> 0]
  /\ calls = 0

\* GetDestState: the dst of the first eKey of the event whose src is the
\* current state or the any-state; ok is FALSE when there is none.
GetDestState(e) ==
  LET i == SelectInSeq(transitions,
             LAMBDA t : t.event = e /\ t.src \in {current, statusAny})
  IN [ok |-> i # 0, dst |-> IF i # 0 THEN transitions[i].dst ELSE 0]

SetState(s) == current' = s /\ UNCHANGED statusAny
Reset == current' = 0 /\ UNCHANGED statusAny
SetAnyState(s) == statusAny' = s /\ UNCHANGED current

(***************************************************************************)
(* Event(event)                                                            *)
(***************************************************************************)
Event(g) ==
  /\ pc[g] = "idle" /\ calls < MaxCalls /\ calls' = calls + 1
  /\ \E e \in Names : ev' = [ev EXCEPT ![g] = e]
  /\ pc' = [pc EXCEPT ![g] = "lock"]
  /\ UNCHANGED <<current, statusAny, checks, mu, dst>>

\* Mutant: the eventMu.Lock() dropped.
EventLockNoMutex(g) ==
  /\ pc[g] = "lock"
  /\ pc' = [pc EXCEPT ![g] = "lookup"]
  /\ UNCHANGED <<current, statusAny, checks, mu, ev, dst, calls>>

EventLock(g) ==
  /\ pc[g] = "lock" /\ mu = None
  /\ mu' = g /\ pc' = [pc EXCEPT ![g] = "lookup"]
  /\ UNCHANGED <<current, statusAny, checks, ev, dst, calls>>

\* GetDestState; when it fails, return InvalidEventError or
\* UnknownEventError (to `fail`).
lookup(g, fail) ==
  /\ pc[g] = "lookup"
  /\ LET d == GetDestState(ev[g]) IN
       /\ dst' = [dst EXCEPT ![g] = d.dst]
       /\ pc' = [pc EXCEPT ![g] = IF d.ok THEN "check" ELSE fail]
  /\ UNCHANGED <<current, statusAny, checks, mu, ev, calls>>

\* Mutant: the error return leaves without the deferred unlock.
LookupNoUnlock(g) == lookup(g, "idle")

Lookup(g) == lookup(g, "ret")

\* beforeEventCallbacks: the first check callback whose status is the
\* current state or 0 decides; none means TRUE.  FALSE returns
\* InvalidEventError.
Check(g) ==
  /\ pc[g] = "check"
  /\ \E ok \in IF SelectInSeq(checks, LAMBDA s : s \in {current, 0}) = 0
               THEN {TRUE} ELSE BOOLEAN :
       pc' = [pc EXCEPT ![g] = IF ok THEN "set" ELSE "ret"]
  /\ UNCHANGED <<current, statusAny, checks, mu, ev, dst, calls>>

EventSet(g) ==
  /\ pc[g] = "set"
  /\ SetState(dst[g])
  /\ pc' = [pc EXCEPT ![g] = "enter"]
  /\ UNCHANGED <<checks, mu, ev, dst, calls>>

\* enterStateCallbacks: the callback whose status is the current state,
\* read after SetState, runs once.  A chained call runs inside it and
\* Event returns when it does; `chain` is where that call starts.
runCallback(g, chain) ==
  IF current \in callbacks
  THEN \E c \in Callbacks[current] :
         \/ c.op \in {"none", "err"} /\ pc' = [pc EXCEPT ![g] = "ret"]
            /\ UNCHANGED <<current, statusAny, ev>>
         \/ c.op = "set" /\ SetState(c.arg) /\ pc' = [pc EXCEPT ![g] = "ret"] /\ UNCHANGED ev
         \/ c.op = "reset" /\ Reset /\ pc' = [pc EXCEPT ![g] = "ret"] /\ UNCHANGED ev
         \/ c.op = "any" /\ SetAnyState(c.arg) /\ pc' = [pc EXCEPT ![g] = "ret"] /\ UNCHANGED ev
         \/ c.op = "chain" /\ ev' = [ev EXCEPT ![g] = c.arg]
            /\ pc' = [pc EXCEPT ![g] = chain] /\ UNCHANGED <<current, statusAny>>
  ELSE pc' = [pc EXCEPT ![g] = "ret"] /\ UNCHANGED <<current, statusAny, ev>>

\* Mutant: the callback chains with Event, which locks eventMu again.
EnterChainLocked(g) ==
  /\ pc[g] = "enter" /\ runCallback(g, "lock")
  /\ UNCHANGED <<checks, mu, dst, calls>>

\* The callback chains with EventNoArgs, which takes no lock: it runs with
\* the eventMu of this Event held.
Enter(g) ==
  /\ pc[g] = "enter" /\ runCallback(g, "lookup")
  /\ UNCHANGED <<checks, mu, dst, calls>>

\* Event returns; the deferred eventMu.Unlock runs.
Return(g) ==
  /\ pc[g] = "ret"
  /\ mu' = IF mu = g THEN None ELSE mu
  /\ pc' = [pc EXCEPT ![g] = "idle"]
  /\ UNCHANGED <<current, statusAny, checks, ev, dst, calls>>

Step(g) == EventLock(g) \/ Lookup(g) \/ Check(g) \/ EventSet(g) \/ Enter(g) \/ Return(g)

Next == \E g \in Callers : Event(g) \/ Step(g)

\* A caller inside Event is scheduled; callers are not obliged to call.
Fairness == \A g \in Callers : WF_vars(Step(g))

Spec == Init /\ [][Next]_vars
FairSpec == Spec /\ Fairness

(***************************************************************************)
(* Properties                                                              *)
(***************************************************************************)
TypeOK ==
  /\ current \in States /\ statusAny \in States \cup {-1}
  /\ mu \in Callers \cup {None}
  /\ pc \in [Callers -> {"idle", "lock", "lookup", "check", "set", "enter", "ret"}]
  /\ \A g \in Callers : pc[g] = "idle" => mu # g
  /\ calls \in 0..MaxCalls

\* Event calls are atomic: the machine moves only along a declared
\* transition from the state it is in (or from the any-state), or by the
\* enter callback of the state it is in, whatever the interleaving of the
\* callers.  eventMu makes the GetDestState read and the SetState write
\* of one call one step.
Atomic == INSTANCE FSMAtomic
AtomicCalls == Atomic!ASpec

\* Every Event call returns and releases eventMu, also when an enter
\* callback chains the next event.
EventReturns == \A g \in Callers : pc[g] # "idle" ~> pc[g] = "idle"
====
