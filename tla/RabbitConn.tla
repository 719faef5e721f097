------------------------------ MODULE RabbitConn ------------------------------
(***************************************************************************)
(* The connection of src/rabbitmq/connection.go: Connect and Close called  *)
(* by application goroutines, and the reconnect goroutine that each        *)
(* successful connect() starts.  Every section under r.Lock() contains no  *)
(* blocking call, so it is one atomic step.  tryConnect writes            *)
(* r.Connection without the lock; the model takes its reads and writes as *)
(* atomic, one of the outcomes of that race.  The broker is the           *)
(* environment: a dial succeeds, fails, or connects but fails to open its *)
(* channels, and a live connection may drop.  A connection is a number,   *)
(* 0 for nil.  Channels are modelled by whether they are closed: r.close  *)
(* by a generation number (every earlier generation is closed), and the   *)
(* current r.waitConnection by a flag.  Closing a closed channel panics,  *)
(* as does a method call on a nil Connection; a panic ends the program.   *)
(***************************************************************************)
EXTENDS Naturals

CONSTANTS
  Callers,    \* application goroutines calling Connect and Close
  Loops,      \* reconnect goroutines, at most one per successful connect()
  MaxCalls,   \* bound on the API calls
  MaxDials,   \* bound on the connections the broker accepts
  MaxFails,   \* bound on the failed dials
  MaxDrops    \* bound on the connections the broker drops

VARIABLES
  connected,    \* r.connected
  conn,         \* r.Connection: 0 (nil) or the number of a dialled connection
  alive,        \* the connections the broker keeps open
  closeCh,      \* the generation of r.close
  closeClosed,  \* whether that generation is closed
  waitClosed,   \* whether the current r.waitConnection is closed
  cpc,          \* each caller: "idle", or inside Connect at "dial" or "lock"
  lpc,          \* each reconnect goroutine: "none", "watch", "select",
                \* "retry", "relock" or "exited"
  watch,        \* the connection a goroutine's notifyClose is registered on
  waitOn,       \* the generation of r.close its select waits on
  panicked,     \* "no", or why the program panicked
  dials, fails, drops, calls

vars == <<connected, conn, alive, closeCh, closeClosed, waitClosed, cpc, lpc,
          watch, waitOn, panicked, dials, fails, drops, calls>>

Running == panicked = "no"

\* newRabbitMQConn: r.close made, r.waitConnection made and closed at once.
Init ==
  /\ connected = FALSE /\ conn = 0 /\ alive = {}
  /\ closeCh = 1 /\ closeClosed = FALSE /\ waitClosed = TRUE
  /\ cpc = [c \in Callers |-> "idle"]
  /\ lpc = [l \in Loops |-> "none"] /\ watch = [l \in Loops |-> 0]
  /\ waitOn = [l \in Loops |-> 0]
  /\ panicked = "no" /\ dials = 0 /\ fails = 0 /\ drops = 0 /\ calls = 0

\* The outcomes of tryConnect for its r.Connection and its error: the dial
\* fails (r.Connection = nil); or it connects and newRabbitChannel fails
\* (the connection stays in r.Connection, the error is returned); or it
\* connects and opens both channels.
Dial(ok, retry) ==
  \/ /\ fails < MaxFails /\ fails' = fails + 1
     /\ conn' = 0 /\ retry
     /\ UNCHANGED <<alive, dials>>
  \/ /\ dials < MaxDials /\ dials' = dials + 1
     /\ conn' = dials + 1 /\ alive' = alive \cup {dials + 1}
     /\ UNCHANGED fails
     /\ (retry \/ ok)

Call == calls < MaxCalls /\ calls' = calls + 1

\* A Connect that makes a new r.close without testing the old one.
ConnectLockAlwaysNew(c) ==
  /\ Running /\ cpc[c] = "idle" /\ Call
  /\ IF connected
       THEN UNCHANGED <<closeCh, closeClosed, cpc>>
       ELSE /\ closeCh' = closeCh + 1 /\ closeClosed' = FALSE
            /\ cpc' = [cpc EXCEPT ![c] = "dial"]
  /\ UNCHANGED <<connected, conn, alive, waitClosed, lpc, watch, waitOn,
                 panicked, dials, fails, drops>>

\* Connect, under r.Lock(): return when connected; otherwise replace a
\* closed r.close by a new one; unlock and call connect().
ConnectLock(c) ==
  /\ Running /\ cpc[c] = "idle" /\ Call
  /\ IF connected
       THEN UNCHANGED <<closeCh, closeClosed, cpc>>
       ELSE /\ closeCh' = IF closeClosed THEN closeCh + 1 ELSE closeCh
            /\ closeClosed' = FALSE
            /\ cpc' = [cpc EXCEPT ![c] = "dial"]
  /\ UNCHANGED <<connected, conn, alive, waitClosed, lpc, watch, waitOn,
                 panicked, dials, fails, drops>>

\* connect(), first half: tryConnect; an error returns it to the caller.
ConnectDial(c) ==
  /\ Running /\ cpc[c] = "dial"
  /\ Dial(cpc' = [cpc EXCEPT ![c] = "lock"], cpc' = [cpc EXCEPT ![c] = "idle"])
  /\ UNCHANGED <<connected, closeCh, closeClosed, waitClosed, lpc, watch,
                 waitOn, panicked, drops, calls>>

\* connect(), second half: r.connected = true under the lock, then
\* `go r.reconnect`, whose first iteration skips the dial.
ConnectDone(c) ==
  /\ Running /\ cpc[c] = "lock"
  /\ \E l \in Loops : lpc[l] = "none" /\ lpc' = [lpc EXCEPT ![l] = "watch"]
  /\ connected' = TRUE
  /\ cpc' = [cpc EXCEPT ![c] = "idle"]
  /\ UNCHANGED <<conn, alive, closeCh, closeClosed, waitClosed, watch, waitOn,
                 panicked, dials, fails, drops, calls>>

\* Close, entirely under r.Lock(): a closed r.close returns nil; otherwise
\* close it, r.connected = false, and r.Connection.Close(), which panics on
\* a nil Connection and otherwise closes the connection (its NotifyClose
\* channels are closed too, which wakes the goroutine watching it).
Close(c) ==
  /\ Running /\ cpc[c] = "idle" /\ Call
  /\ IF closeClosed
       THEN UNCHANGED <<connected, alive, closeClosed, panicked>>
       ELSE /\ closeClosed' = TRUE /\ connected' = FALSE
            /\ IF conn = 0
                 THEN panicked' = "nil Connection" /\ UNCHANGED alive
                 ELSE alive' = alive \ {conn} /\ UNCHANGED panicked
  /\ UNCHANGED <<conn, closeCh, waitClosed, cpc, lpc, watch, waitOn,
                 dials, fails, drops>>

\* The loop body's NotifyClose on r.Connection (nil panics; on a closed
\* connection the channel is closed at once) and the select's evaluation
\* of r.close.
LoopWatch(l) ==
  /\ Running /\ lpc[l] = "watch"
  /\ IF conn = 0
       THEN panicked' = "nil Connection" /\ UNCHANGED <<lpc, watch, waitOn>>
       ELSE /\ watch' = [watch EXCEPT ![l] = conn]
            /\ waitOn' = [waitOn EXCEPT ![l] = closeCh]
            /\ lpc' = [lpc EXCEPT ![l] = "select"]
            /\ UNCHANGED panicked
  /\ UNCHANGED <<connected, conn, alive, closeCh, closeClosed, waitClosed, cpc,
                 dials, fails, drops, calls>>

\* The select's notifyClose case: under the lock, r.connected = false and a
\* new open r.waitConnection; then the next iteration's tryConnect.
LoopNotify(l) ==
  /\ Running /\ lpc[l] = "select" /\ watch[l] \notin alive
  /\ connected' = FALSE /\ waitClosed' = FALSE
  /\ lpc' = [lpc EXCEPT ![l] = "retry"]
  /\ UNCHANGED <<conn, alive, closeCh, closeClosed, cpc, watch, waitOn,
                 panicked, dials, fails, drops, calls>>

\* The select's r.close case: the goroutine returns.  When both cases are
\* ready, select picks either.
LoopExit(l) ==
  /\ Running /\ lpc[l] = "select"
  /\ waitOn[l] # closeCh \/ closeClosed
  /\ lpc' = [lpc EXCEPT ![l] = "exited"]
  /\ UNCHANGED <<connected, conn, alive, closeCh, closeClosed, waitClosed, cpc,
                 watch, waitOn, panicked, dials, fails, drops, calls>>

\* tryConnect in the loop: on an error, sleep and try again.
LoopDial(l) ==
  /\ Running /\ lpc[l] = "retry"
  /\ Dial(lpc' = [lpc EXCEPT ![l] = "relock"], UNCHANGED lpc)
  /\ UNCHANGED <<connected, closeCh, closeClosed, waitClosed, cpc, watch,
                 waitOn, panicked, drops, calls>>

\* The reconnection closed r.waitConnection unconditionally, as the
\* comment before its select says it may.
LoopRelockNoCheck(l) ==
  /\ Running /\ lpc[l] = "relock"
  /\ connected' = TRUE /\ waitClosed' = TRUE
  /\ panicked' = IF waitClosed THEN "close of closed channel" ELSE panicked
  /\ lpc' = [lpc EXCEPT ![l] = "watch"]
  /\ UNCHANGED <<conn, alive, closeCh, closeClosed, cpc, watch, waitOn,
                 dials, fails, drops, calls>>

\* After a reconnection, under the lock: r.connected = true, and
\* r.waitConnection is closed unless the select finds it closed already.
LoopRelock(l) ==
  /\ Running /\ lpc[l] = "relock"
  /\ connected' = TRUE /\ waitClosed' = TRUE
  /\ lpc' = [lpc EXCEPT ![l] = "watch"]
  /\ UNCHANGED <<conn, alive, closeCh, closeClosed, cpc, watch, waitOn,
                 panicked, dials, fails, drops, calls>>

\* The broker drops a live connection.
Drop ==
  /\ Running /\ drops < MaxDrops
  /\ \E n \in alive : alive' = alive \ {n}
  /\ drops' = drops + 1
  /\ UNCHANGED <<connected, conn, closeCh, closeClosed, waitClosed, cpc, lpc,
                 watch, waitOn, panicked, dials, fails, calls>>

Caller(c) == ConnectLock(c) \/ ConnectDial(c) \/ ConnectDone(c) \/ Close(c)
Loop(l) == LoopWatch(l) \/ LoopNotify(l) \/ LoopExit(l) \/ LoopDial(l) \/ LoopRelock(l)

Next == (\E c \in Callers : Caller(c)) \/ (\E l \in Loops : Loop(l)) \/ Drop

Spec == Init /\ [][Next]_vars

-----------------------------------------------------------------------------
TypeOK ==
  /\ connected \in BOOLEAN /\ closeClosed \in BOOLEAN /\ waitClosed \in BOOLEAN
  /\ conn \in 0..MaxDials /\ alive \subseteq 1..MaxDials
  /\ closeCh \in 1..MaxCalls   \* a new r.close follows a Close call
  /\ cpc \in [Callers -> {"idle", "dial", "lock"}]
  /\ lpc \in [Loops -> {"none", "watch", "select", "retry", "relock", "exited"}]
  /\ watch \in [Loops -> 0..MaxDials] /\ waitOn \in [Loops -> 0..MaxCalls]
  /\ panicked \in {"no", "nil Connection", "close of closed channel"}

\* No channel is closed twice: Close tests r.close under the lock before
\* closing it, and a reconnect goroutine tests r.waitConnection under the
\* lock before closing it, although two reconnect goroutines (a Connect
\* during an outage starts a second one) may both reconnect after one
\* drop each.
ChannelsClosedOnce == panicked # "close of closed channel"
=============================================================================
