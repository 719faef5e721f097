-------------------------------- MODULE MCUtil --------------------------------
(***************************************************************************)
(* Components of util and event that share no state, in one model.  The  *)
(* constant `mode' chooses, in the initial state, which program runs.    *)
(* In mode "util" the promise program of ProGoroutine runs until none of *)
(* its goroutines can move, and then the callers of the event Manager of *)
(* EventManager run; as the promise program ends in one state, their     *)
(* states add rather than multiply.  In mode "apollo" the apollo-config *)
(* client runs; in mode "ws" two websocket clients of src/web sharing    *)
(* the RoundBinSelect key.  Each component's fairness is asserted        *)
(* only in its own mode, and each liveness property is stated of the     *)
(* behaviours of its mode.                                               *)
(***************************************************************************)
EXTENDS Integers, Sequences, TLC

CONSTANTS
  a, b, n, f, g, z, all1, t1, k1, all2, t2, k2, v1,  \* promises, a value
  n1, l1, l2, g1, g2,                                \* the Manager's
  ak1, ak2, av1, av2, asrv, Absent, Meta,            \* the Apollo client's
  ws1, ws2, wn1, wn2,                                \* websockets, nodes
  None

VARIABLES
  created, pending, result, err, wg, pmu, ppc, resCh, errCh, recv, res,
  listeners, events, data, aborted, emu, epc, fname, inst, items, i, ph, ferr, stop, calls,
  rel, cache, expired, stale, curRel, notif, pc, first, pend, event, subscribed, chan,
  view, direct, known, down, file, faults,
  selectKey, apc, target, conn, inbox, srvClosed, reader, isConn,
  mode

pvars == <<created, pending, result, err, wg, pmu, ppc, resCh, errCh, recv, res>>
evars == <<listeners, events, data, aborted, emu, epc, fname, inst, items, i, ph, ferr, stop, calls>>
avars == <<rel, cache, expired, stale, curRel, notif, pc, first, pend, event, subscribed,
           chan, view, direct, known, down, file, faults>>
wvars == <<selectKey, apc, target, conn, inbox, srvClosed, reader, isConn>>
vars == <<pvars, evars, avars, wvars, mode>>

\* Promises: a resolves and then panics; b panics; n's executor never
\* settles it; f and g resolve with a and b; z is All(); all1 is All(a)
\* and all2 is All(b), each with the Then and the Catch it builds.
MCExec ==
  (a :> [op |-> "resolvepanic", arg |-> v1]) @@ (b :> [op |-> "panic"])
  @@ (n :> [op |-> "never"])
  @@ (f :> [op |-> "flatten", arg |-> a]) @@ (g :> [op |-> "flatten", arg |-> b])
  @@ (z :> [op |-> "all", arg |-> <<>>])
  @@ (all1 :> [op |-> "all", arg |-> <<a>>])
  @@ (t1 :> [op |-> "allthen", arg |-> a, all |-> all1, idx |-> 1])
  @@ (k1 :> [op |-> "allcatch", arg |-> t1, all |-> all1])
  @@ (all2 :> [op |-> "all", arg |-> <<b>>])
  @@ (t2 :> [op |-> "allthen", arg |-> b, all |-> all2, idx |-> 1])
  @@ (k2 :> [op |-> "allcatch", arg |-> t2, all |-> all2])

P == INSTANCE ProGoroutine WITH Promises <- DOMAIN MCExec, Exec <- MCExec, Values <- {v1},
       mu <- pmu, pc <- ppc

\* Manager: one event name and the wildcard, two listeners, On with
\* priority -1, a subscriber with a listener for n1 and one of High
\* priority for "*", two goroutines firing with nil params and EnableLock
\* set, built with one loop variable per range loop (Go before 1.22), at
\* most four calls.  No step reads the event data.
MCSubscribers == {<< [key |-> n1, l |-> l1, p |-> 0], [key |-> "*", l |-> l2, p |-> 200] >>}

E == INSTANCE EventManager WITH Names <- {n1}, Listeners <- {l1, l2}, Prios <- {-1},
       Subscribers <- MCSubscribers, Firers <- {g1, g2}, Params <- {},
       EnableLock <- TRUE, LoopVarPerIteration <- FALSE, MaxCalls <- 4,
       mu <- emu, pc <- epc

\* The Apollo client: two keys, three releases that add, modify and
\* delete keys, one config service, at most three failed requests.
MCReleases == << (ak1 :> av1 @@ ak2 :> Absent), (ak1 :> av2 @@ ak2 :> av1),
                 (ak1 :> Absent @@ ak2 :> av2) >>

A == INSTANCE ApolloClient WITH Keys <- {ak1, ak2}, Releases <- MCReleases,
       Servers <- {asrv}, MaxFaults <- 3, Expiry <- TRUE

\* Two websocket clients made by NewWithRegistry, ws1 with OnConnected and
\* OnDisconnected set (as test_wsocket_client.go does) and ws2 with
\* neither; a service of two
\* nodes, a one-bit selectKey so that it wraps, at most one text frame
\* in flight per connection.
W == INSTANCE WSocket WITH Sockets <- {ws1, ws2}, NodeList <- <<wn1, wn2>>, KeyWidth <- 1,
       MaxInFlight <- 1, OnConnectedSet <- {ws1}, OnDisconnectedSet <- {ws1}

\* A component that does not run keeps one of its initial states.
Init ==
  /\ mode \in {"util", "apollo", "ws"} /\ P!Init /\ E!Init /\ A!Init /\ W!Init
  /\ mode # "apollo" => ~subscribed /\ file = 0

UtilNext ==
  \/ P!Next /\ UNCHANGED evars
  \/ ~ENABLED P!Next /\ E!Next /\ UNCHANGED pvars

Next ==
  \/ mode = "util" /\ UtilNext /\ UNCHANGED <<avars, wvars, mode>>
  \/ mode = "apollo" /\ A!Next /\ UNCHANGED <<pvars, evars, wvars, mode>>
  \/ mode = "ws" /\ W!Next /\ UNCHANGED <<pvars, evars, avars, mode>>

\* The fairness of each component, in its mode.
Fairness ==
  /\ \A p \in DOMAIN MCExec : WF_pvars(mode = "util" /\ P!Executor(p))
  /\ \A q \in {g1, g2} : WF_evars(mode = "util" /\ E!Firing(q))
  /\ WF_avars(mode = "apollo" /\ A!Poller) /\ WF_avars(mode = "apollo" /\ A!Listen)
  /\ WF_avars(mode = "apollo" /\ A!Clock)
  /\ \A s \in {ws1, ws2} : WF_wvars(mode = "ws" /\ W!Socket(s))
                         /\ WF_wvars(mode = "ws" /\ W!ReadMessage(s))

Spec == Init /\ [][Next]_vars /\ Fairness

\* The properties of the modules (stated there); a liveness property holds
\* of the behaviours in which its component runs.
PromiseTypeOK == P!TypeOK
PromiseEventuallySettled == mode = "util" => P!EventuallySettled
ManagerTypeOK == E!TypeOK
ManagerNoHandleAfterAbort == E!NoHandleAfterAbort
ViewAgreesWithCache == A!ViewAgreesWithCache
IsConnectedMeansOpen == W!IsConnectedMeansOpen
ReaderExitsAfterClose == mode = "ws" => W!ReaderExitsAfterClose
====
