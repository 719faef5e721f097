------------------------------- MODULE WSocket -------------------------------
(***************************************************************************)
(* The websocket client of src/web/websocket.go and the RoundBinSelect    *)
(* strategy of src/selector/strategy.go that NewWithRegistry gives it.     *)
(* Each socket's application goroutine runs Connect (getUrlFromRegistry,  *)
(* then the Dial) and later Close; Connect starts the socket's receive     *)
(* goroutine.  The registry and the websocket server are the environment:  *)
(* the registry may give a node any status when GetService reads it, the   *)
(* server sends text frames and a close frame.  A URL is abstracted to the node it names, or "url" for *)
(* the socket's own Url; message payloads are not modelled.                *)
(***************************************************************************)
EXTENDS Integers, Sequences, Functions

CONSTANTS
  Sockets,            \* the WSocket values, each made by NewWithRegistry
  NodeList,           \* the service's nodes, in the order GetService returns them
  KeyWidth,           \* bits of the uint selectKey
  MaxInFlight,        \* bound on the frames sent to a socket and not yet read
  OnConnectedSet,     \* the sockets whose caller set socket.OnConnected
  OnDisconnectedSet   \* the sockets whose caller set socket.OnDisconnected

Nodes == Range(NodeList)

\* A node's metadata as bHealthNodesByWeights and bDeletedNodes read it:
\* "healthy" passes the heartbeat and status test, "deleted" carries the
\* delete status, "down" is any other status or a stale heartbeat.
Status == {"healthy", "deleted", "down"}

VARIABLES
  selectKey,  \* the package-level selectKey shared by every selector
  apc,        \* each socket's application goroutine
  target,     \* the node getUrlFromRegistry chose, or "url"
  conn,       \* socket.Conn: "none", "open", or "closed" by Conn.Close
  inbox,      \* frames the server sent that ReadMessage has not read
  srvClosed,  \* the server has sent its close frame
  reader,     \* the receive goroutine: "none", "loop" or "exited"
  isConn      \* socket.IsConnected

vars == <<selectKey, apc, target, conn, inbox, srvClosed,
          reader, isConn>>

Targets == Nodes \cup {"url"}

\* bHealthNodesByWeights and bDeletedNodes, as a filter of the node list.
bHealthNodesByWeights(h, nd) == h[nd] = "healthy"
bDeletedNodes(h, nd) == h[nd] = "deleted"

\* The nodes RoundBinSelect rotates over: the healthy ones, or the deleted
\* ones when none is healthy; empty when it returns the ErrNotFound closure.
RoundBinNodes(h) ==
  LET healthy == SelectSeq(NodeList, LAMBDA nd : bHealthNodesByWeights(h, nd))
      deleted == SelectSeq(NodeList, LAMBDA nd : bDeletedNodes(h, nd))
  IN  IF healthy # <<>> THEN healthy ELSE deleted

\* The next closure: selectKey++ wraps at 2^KeyWidth, then
\* nodes[selectKey % len(nodes)].
RoundBinNext(nodes, key) == nodes[(key % Len(nodes)) + 1]

Init ==
  /\ selectKey = 0
  /\ apc = [s \in Sockets |-> "connect"]
  /\ target = [s \in Sockets |-> "url"]
  /\ conn = [s \in Sockets |-> "none"]
  /\ inbox = [s \in Sockets |-> <<>>]
  /\ srvClosed = [s \in Sockets |-> FALSE]
  /\ reader = [s \in Sockets |-> "none"]
  /\ isConn = [s \in Sockets |-> FALSE]

\* getUrlFromRegistry under Connect: GetService fails or finds no service
\* (found = FALSE), or it returns the nodes with the status the registry
\* holds at that moment (health; the registry changes freely and nothing
\* else reads it), and the selector is built from the registry's nodes and
\* called up to three times; an ErrNotFound closure fails all three and
\* Connect falls back to socket.Url.
getUrlFromRegistry(s) ==
  /\ apc[s] = "connect"
  /\ \E found \in BOOLEAN, health \in [Nodes -> Status] :
       LET nodes == RoundBinNodes(health)
           key   == (selectKey + 1) % (2 ^ KeyWidth)
       IN  IF found /\ nodes # <<>>
             THEN /\ selectKey' = key
                  /\ target' = [target EXCEPT ![s] = RoundBinNext(nodes, key)]
             ELSE UNCHANGED <<selectKey, target>>
  /\ apc' = [apc EXCEPT ![s] = "dial"]
  /\ UNCHANGED <<conn, inbox, srvClosed, reader, isConn>>

\* The rest of Connect: the Dial fails (IsConnected = false, OnConnectError,
\* return), or it opens the connection, sets IsConnected only when
\* OnConnected is set, installs the handlers and starts the receive loop.
Dial(s) ==
  /\ apc[s] = "dial"
  /\ \/ /\ isConn' = [isConn EXCEPT ![s] = FALSE]
        /\ apc' = [apc EXCEPT ![s] = "failed"]
        /\ UNCHANGED <<conn, reader>>
     \/ /\ conn' = [conn EXCEPT ![s] = "open"]
        /\ isConn' = [isConn EXCEPT ![s] = (s \in OnConnectedSet)]
        /\ reader' = [reader EXCEPT ![s] = "loop"]
        /\ apc' = [apc EXCEPT ![s] = "run"]
  /\ UNCHANGED <<selectKey, target, inbox, srvClosed>>

\* A close handler that calls OnDisconnected but leaves IsConnected set.
ReadMessageKeepsFlag(s) ==
  /\ reader[s] = "loop"
  /\ \/ /\ conn[s] = "closed"
        /\ reader' = [reader EXCEPT ![s] = "exited"]
        /\ UNCHANGED <<inbox>>
     \/ /\ conn[s] = "open" /\ inbox[s] # <<>> /\ Head(inbox[s]) = "text"
        /\ inbox' = [inbox EXCEPT ![s] = Tail(@)]
        /\ UNCHANGED <<reader>>
     \/ /\ conn[s] = "open" /\ inbox[s] # <<>> /\ Head(inbox[s]) = "close"
        /\ inbox' = [inbox EXCEPT ![s] = Tail(@)]
        /\ reader' = [reader EXCEPT ![s] = "exited"]
  /\ UNCHANGED <<selectKey, apc, target, conn, srvClosed, isConn>>

\* One iteration of the receive goroutine.  ReadMessage on a closed Conn
\* returns an error and the loop returns; a text frame goes to
\* OnTextMessage; a close frame runs the close handler (the default one
\* writes the close reply; then IsConnected = false and OnDisconnected, if
\* set), and ReadMessage returns the close error, ending the loop.
ReadMessage(s) ==
  /\ reader[s] = "loop"
  /\ \/ /\ conn[s] = "closed"
        /\ reader' = [reader EXCEPT ![s] = "exited"]
        /\ UNCHANGED <<inbox, isConn>>
     \/ /\ conn[s] = "open" /\ inbox[s] # <<>> /\ Head(inbox[s]) = "text"
        /\ inbox' = [inbox EXCEPT ![s] = Tail(@)]
        /\ UNCHANGED <<reader, isConn>>
     \/ /\ conn[s] = "open" /\ inbox[s] # <<>> /\ Head(inbox[s]) = "close"
        /\ inbox' = [inbox EXCEPT ![s] = Tail(@)]
        /\ isConn' = [isConn EXCEPT ![s] = IF s \in OnDisconnectedSet THEN FALSE ELSE @]
        /\ reader' = [reader EXCEPT ![s] = "exited"]
  /\ UNCHANGED <<selectKey, apc, target, conn, srvClosed>>

\* Close, first half: send writes the close frame under sendMu (its error
\* is only logged).  The server's reply is ServerClose; the frame itself
\* is not recorded, as nothing in the client reads it back.
CloseSend(s) ==
  /\ apc[s] = "run"
  /\ apc' = [apc EXCEPT ![s] = "closing"]
  /\ UNCHANGED <<selectKey, target, conn, inbox, srvClosed,
                 reader, isConn>>

\* A Close that reports the disconnection without closing the Conn.
CloseConnNoClose(s) ==
  /\ apc[s] = "closing"
  /\ isConn' = [isConn EXCEPT ![s] = IF s \in OnDisconnectedSet THEN FALSE ELSE @]
  /\ apc' = [apc EXCEPT ![s] = "done"]
  /\ UNCHANGED <<selectKey, target, conn, inbox, srvClosed, reader>>

\* Close, second half: Conn.Close, then IsConnected = false and
\* OnDisconnected when it is set.
CloseConn(s) ==
  /\ apc[s] = "closing"
  /\ conn' = [conn EXCEPT ![s] = "closed"]
  /\ isConn' = [isConn EXCEPT ![s] = IF s \in OnDisconnectedSet THEN FALSE ELSE @]
  /\ apc' = [apc EXCEPT ![s] = "done"]
  /\ UNCHANGED <<selectKey, target, inbox, srvClosed,
                 reader>>

\* The server sends a text frame on an open connection.
ServerSend(s) ==
  /\ conn[s] = "open" /\ ~srvClosed[s] /\ Len(inbox[s]) < MaxInFlight
  /\ inbox' = [inbox EXCEPT ![s] = Append(@, "text")]
  /\ UNCHANGED <<selectKey, apc, target, conn, srvClosed,
                 reader, isConn>>

\* The server closes: on its own, or in reply to the client's close frame.
ServerClose(s) ==
  /\ conn[s] = "open" /\ ~srvClosed[s]
  /\ inbox' = [inbox EXCEPT ![s] = Append(@, "close")]
  /\ srvClosed' = [srvClosed EXCEPT ![s] = TRUE]
  /\ UNCHANGED <<selectKey, apc, target, conn,
                 reader, isConn>>

Socket(s) == getUrlFromRegistry(s) \/ Dial(s) \/ CloseSend(s) \/ CloseConn(s)

Next ==
  \/ \E s \in Sockets :
       Socket(s) \/ ReadMessage(s) \/ ServerSend(s) \/ ServerClose(s)

\* The Go scheduler runs every runnable goroutine: the application
\* goroutine and the receive goroutine of each socket.  The server is under
\* no obligation.
Fairness == \A s \in Sockets : WF_vars(Socket(s)) /\ WF_vars(ReadMessage(s))

Spec == Init /\ [][Next]_vars /\ Fairness

-----------------------------------------------------------------------------
TypeOK ==
  /\ selectKey \in 0..(2 ^ KeyWidth - 1)
  /\ apc \in [Sockets -> {"connect", "dial", "failed", "run", "closing", "done"}]
  /\ target \in [Sockets -> Targets]
  /\ conn \in [Sockets -> {"none", "open", "closed"}]
  /\ inbox \in [Sockets -> Seq({"text", "close"})]
  /\ \A s \in Sockets : Len(inbox[s]) <= MaxInFlight + 1
  /\ srvClosed \in [Sockets -> BOOLEAN]
  /\ reader \in [Sockets -> {"none", "loop", "exited"}]
  /\ isConn \in [Sockets -> BOOLEAN]

\* IsConnected, written by the application goroutine in Connect and Close
\* and by the receive goroutine's close handler, is TRUE only while the
\* socket's connection is open and its receive loop still reads it.
IsConnectedMeansOpen ==
  \A s \in Sockets : isConn[s] => conn[s] = "open" /\ reader[s] = "loop"

\* Once Close has returned, the receive goroutine that Connect started
\* ends: Conn.Close makes its blocked ReadMessage fail, whether or not the
\* server ever answers the close frame.
ReaderExitsAfterClose ==
  \A s \in Sockets : apc[s] = "done" ~> reader[s] = "exited"
=============================================================================
