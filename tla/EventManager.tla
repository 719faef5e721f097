---------------------------- MODULE EventManager ----------------------------
(***************************************************************************)
(* The event Manager of src/event: listener queues per event name and for  *)
(* the "*" wildcard, predefined Event instances, and Fire / FireEvent run  *)
(* by concurrent goroutines, serialised by the Manager's mutex when        *)
(* EnableLock is set.  Registration (On, AddSubscriber, RemoveListener,    *)
(* RemoveListeners, AddEvent, RemoveEvent, Reset) is made by one          *)
(* goroutine and takes no lock; each is one step here.                     *)
(*                                                                         *)
(* A listener is a model value, and what its Handle does (return nil,     *)
(* return an error, or call e.Abort(true)) is chosen when it runs.  An     *)
(* Event instance is named by the number of the call that made it: the     *)
(* AddEvent of a predefined event, or the Fire that made a BasicEvent.     *)
(***************************************************************************)
EXTENDS Integers, Sequences, SequencesExt

CONSTANTS
  Names,        \* event names (all valid for goodName)
  Listeners,    \* listener values
  Prios,        \* priorities passed to On
  Subscribers,  \* SubscribedEvents() lists: sequences of [key, l, p]
  Firers,       \* goroutines calling Fire
  Params,       \* params values passed to Fire (None is nil)
  EnableLock,   \* Manager.EnableLock
  LoopVarPerIteration, \* the Go version gives each loop iteration its own variable
  MaxCalls,     \* bound on API calls
  None

Wildcard == "*"
Normal == 0
Keys == Names \cup {Wildcard}
Item == [l : Listeners, p : Int]
Instances == 1..MaxCalls

VARIABLES
  listeners,  \* em.listeners: key -> ListenerQueue items (<<>> when absent)
  events,     \* em.events: name -> its predefined Event instance, or 0
  data,       \* Event instance -> its data
  aborted,    \* Event instance -> aborted
  mu,         \* the Manager mutex: holder or None
  pc, fname, inst, items, i, ph, ferr,  \* firing goroutines
  stop,       \* ghost: the last listener run returned an error or aborted
  calls

vars == <<listeners, events, data, aborted, mu, pc, fname, inst, items, i, ph, ferr, stop, calls>>
fire == <<pc, fname, inst, items, i, ph, ferr, stop>>

Init ==
  /\ listeners = [k \in Keys |-> <<>>] /\ events = [n \in Names |-> 0]
  /\ data = [e \in Instances |-> None]
  /\ aborted = [e \in Instances |-> FALSE]
  /\ mu = None
  /\ pc = [g \in Firers |-> "idle"] /\ fname = [g \in Firers |-> None]
  /\ inst = [g \in Firers |-> 1] /\ items = [g \in Firers |-> <<>>]
  /\ i = [g \in Firers |-> 1] /\ ph = [g \in Firers |-> "named"]
  /\ ferr = [g \in Firers |-> FALSE] /\ stop = [g \in Firers |-> FALSE]
  /\ calls = 0

Call == calls < MaxCalls /\ calls' = calls + 1
HasListeners(k) == listeners[k] # <<>>

(***************************************************************************)
(* Registration                                                            *)
(***************************************************************************)
\* addListenerItem: push onto the queue of the name, creating it.
addListenerItem(k, li) == listeners' = [listeners EXCEPT ![k] = Append(@, li)]

\* On: priorities <= 0 become Normal.
On ==
  /\ Call
  /\ \E k \in Keys, l \in Listeners, p \in Prios :
       addListenerItem(k, [l |-> l, p |-> IF p > 0 THEN p ELSE Normal])
  /\ UNCHANGED <<events, data, aborted, mu, fire>>

\* AddSubscriber pushes &listener, the address of the range variable: with
\* one variable for the whole loop, every pushed pointer ends up at the
\* last item.  Priorities are not normalised.
AddSubscriber ==
  /\ Call
  /\ \E s \in Subscribers :
       LET at(k) == SelectSeq([j \in 1..Len(s) |-> j], LAMBDA j : s[j].key = k)
           li(j) == LET x == IF LoopVarPerIteration THEN s[j] ELSE s[Len(s)]
                    IN [l |-> x.l, p |-> x.p]
       IN listeners' = [k \in Keys |-> listeners[k] \o [m \in 1..Len(at(k)) |-> li(at(k)[m])]]
  /\ UNCHANGED <<events, data, aborted, mu, fire>>

\* RemoveListener(name, listener): drop the listener's items from the
\* queue of the name, or of every queue when name is "".
RemoveListener ==
  /\ Call
  /\ \E ks \in {{k} : k \in Keys} \cup {Keys}, l \in Listeners :
       listeners' = [k \in Keys |->
         IF k \in ks THEN SelectSeq(listeners[k], LAMBDA x : x.l # l) ELSE listeners[k]]
  /\ UNCHANGED <<events, data, aborted, mu, fire>>

RemoveListeners ==
  /\ Call
  /\ \E k \in Keys : listeners' = [listeners EXCEPT ![k] = <<>>]
  /\ UNCHANGED <<events, data, aborted, mu, fire>>

\* AddEvent(NewBasic(name, nil)): a predefined instance with fresh data.
AddEvent ==
  /\ Call
  /\ \E n \in Names :
       events' = [events EXCEPT ![n] = calls + 1]
  /\ UNCHANGED <<listeners, data, aborted, mu, fire>>

RemoveEvent ==
  /\ Call
  /\ \E n \in Names : events' = [events EXCEPT ![n] = 0]
  /\ UNCHANGED <<listeners, data, aborted, mu, fire>>

Reset ==
  /\ Call
  /\ listeners' = [k \in Keys |-> <<>>] /\ events' = [n \in Names |-> 0]
  /\ UNCHANGED <<data, aborted, mu, fire>>

(***************************************************************************)
(* Fire(name, params) and FireEvent(e)                                     *)
(***************************************************************************)
\* Fire: nothing to do without listeners for the name or "*"; a predefined
\* event gets SetData(params) when params is not nil, else a BasicEvent is
\* made.  This happens before FireEvent takes the lock.
Fire(g) ==
  /\ pc[g] = "idle" /\ Call
  /\ \E n \in Names, prm \in Params \cup {None} :
       IF ~HasListeners(n) /\ ~HasListeners(Wildcard)
       THEN UNCHANGED <<data, aborted, fire>>
       ELSE /\ fname' = [fname EXCEPT ![g] = n]
            /\ LET e == IF events[n] # 0 THEN events[n] ELSE calls + 1 IN
                 /\ inst' = [inst EXCEPT ![g] = e]
                 /\ data' = IF events[n] # 0 /\ prm = None THEN data ELSE [data EXCEPT ![e] = prm]
            /\ UNCHANGED aborted
            /\ pc' = [pc EXCEPT ![g] = "lock"]
            /\ UNCHANGED <<items, i, ph, ferr, stop>>
  /\ UNCHANGED <<listeners, events, mu>>

\* Mutant: FireEvent without the lock.
FireEventNoLock(g) ==
  /\ pc[g] = "lock"
  /\ aborted' = [aborted EXCEPT ![inst[g]] = FALSE]
  /\ items' = [items EXCEPT ![g] = listeners[fname[g]]]
  /\ i' = [i EXCEPT ![g] = 1] /\ ph' = [ph EXCEPT ![g] = "named"]
  /\ ferr' = [ferr EXCEPT ![g] = FALSE] /\ stop' = [stop EXCEPT ![g] = FALSE]
  /\ pc' = [pc EXCEPT ![g] = "handle"]
  /\ UNCHANGED <<listeners, events, data, mu, fname, inst, calls>>

\* FireEvent: lock when EnableLock, e.Abort(false), and range over the
\* queue of the name (the slice as it is now).
FireEvent(g) ==
  /\ pc[g] = "lock" /\ (EnableLock => mu = None)
  /\ mu' = IF EnableLock THEN g ELSE mu
  /\ aborted' = [aborted EXCEPT ![inst[g]] = FALSE]
  /\ items' = [items EXCEPT ![g] = listeners[fname[g]]]
  /\ i' = [i EXCEPT ![g] = 1] /\ ph' = [ph EXCEPT ![g] = "named"]
  /\ ferr' = [ferr EXCEPT ![g] = FALSE] /\ stop' = [stop EXCEPT ![g] = FALSE]
  /\ pc' = [pc EXCEPT ![g] = "handle"]
  /\ UNCHANGED <<listeners, events, data, fname, inst, calls>>

\* li.Listener.Handle(e).
Handle(g) ==
  /\ pc[g] = "handle" /\ i[g] <= Len(items[g])
  /\ \E r \in {"ok", "err", "abort"} :
       /\ ferr' = [ferr EXCEPT ![g] = r = "err"]
       /\ aborted' = IF r = "abort" THEN [aborted EXCEPT ![inst[g]] = TRUE] ELSE aborted
       /\ stop' = [stop EXCEPT ![g] = r # "ok"]
  /\ pc' = [pc EXCEPT ![g] = "check"]
  /\ UNCHANGED <<listeners, events, data, mu, fname, inst, items, i, ph, calls>>

\* if err != nil || e.IsAborted(): return (named) or break (wildcard).
Check(g) ==
  /\ pc[g] = "check"
  /\ IF ferr[g] \/ aborted[inst[g]]
     THEN pc' = [pc EXCEPT ![g] = "ret"] /\ UNCHANGED i
     ELSE pc' = [pc EXCEPT ![g] = "handle"] /\ i' = [i EXCEPT ![g] = @ + 1]
  /\ UNCHANGED <<listeners, events, data, aborted, mu, fname, inst, items, ph, ferr, stop, calls>>

\* ByPriorityItems order: higher priority first.
SortedDesc(s) == \A a, b \in 1..Len(s) : a < b => s[a].p >= s[b].p
\* sort.Sort, which is not stable: any ordering by priority.
Sorts(s) ==
  IF SortedDesc(s) THEN {s}
  ELSE {t \in {[k \in 1..Len(s) |-> s[f[k]]] : f \in SetToSeqs(1..Len(s))} : SortedDesc(t)}

\* After the named queue: lq.Sort() sorts the "*" queue in place, then
\* its listeners run.
Wild(g) ==
  /\ pc[g] = "handle" /\ i[g] > Len(items[g]) /\ ph[g] = "named"
  /\ IF HasListeners(Wildcard)
     THEN \E t \in Sorts(listeners[Wildcard]) :
            /\ listeners' = [listeners EXCEPT ![Wildcard] = t]
            /\ items' = [items EXCEPT ![g] = t]
            /\ i' = [i EXCEPT ![g] = 1] /\ ph' = [ph EXCEPT ![g] = "wild"]
            /\ UNCHANGED pc
     ELSE pc' = [pc EXCEPT ![g] = "ret"] /\ UNCHANGED <<listeners, items, i, ph>>
  /\ UNCHANGED <<events, data, aborted, mu, fname, inst, ferr, stop, calls>>

\* Mutant: FireEvent returns without the Unlock.
ReturnNoUnlock(g) ==
  /\ \/ pc[g] = "ret"
     \/ pc[g] = "handle" /\ i[g] > Len(items[g]) /\ ph[g] = "wild"
  /\ pc' = [pc EXCEPT ![g] = "idle"]
  /\ UNCHANGED <<listeners, events, data, aborted, mu, fname, inst, items, i, ph, ferr, stop, calls>>

\* FireEvent returns; the deferred Unlock runs.
Return(g) ==
  /\ \/ pc[g] = "ret"
     \/ pc[g] = "handle" /\ i[g] > Len(items[g]) /\ ph[g] = "wild"
  /\ mu' = IF mu = g THEN None ELSE mu
  /\ pc' = [pc EXCEPT ![g] = "idle"]
  /\ UNCHANGED <<listeners, events, data, aborted, fname, inst, items, i, ph, ferr, stop, calls>>

Register == On \/ AddSubscriber \/ RemoveListener \/ RemoveListeners
            \/ AddEvent \/ RemoveEvent \/ Reset
Firing(g) == FireEvent(g) \/ Handle(g) \/ Check(g) \/ Wild(g) \/ Return(g)

Next == Register \/ \E g \in Firers : Fire(g) \/ Firing(g)

\* A goroutine inside FireEvent is scheduled; callers need not call.
Fairness == \A g \in Firers : WF_vars(Firing(g))

Spec == Init /\ [][Next]_vars
FairSpec == Spec /\ Fairness

(***************************************************************************)
(* Properties                                                              *)
(***************************************************************************)
TypeOK ==
  /\ listeners \in [Keys -> Seq(Item)] /\ events \in [Names -> 0..MaxCalls]
  /\ mu \in Firers \cup {None}
  /\ pc \in [Firers -> {"idle", "lock", "handle", "check", "ret"}]
  /\ \A g \in Firers : pc[g] = "idle" => mu # g
  /\ calls \in 0..MaxCalls

\* Once a listener of a FireEvent returns an error or aborts the event, no
\* further listener of that FireEvent runs: the IsAborted check after each
\* Handle must see the abort, which another FireEvent of the same
\* predefined Event would clear with e.Abort(false).
NoHandleAfterAbort ==
  [][\A g \in Firers : pc[g] = "handle" /\ pc'[g] = "check" => ~stop[g]]_vars
====
