------------------------------- MODULE NewLog -------------------------------
(***************************************************************************)
(* The file output of src/log/newlog: Send under o.mu, which rotates the   *)
(* files by rollRunOnce once o.current reaches FileSize and then writes    *)
(* the line; and, when NewOutput2 enables the asynchronous pool, enc's     *)
(* select between the bounded queue and the encTimeout timer, and the     *)
(* process goroutine, which moves queued lines into the pool buffer and   *)
(* persists the buffer to o.file when it is full or the flush ticker      *)
(* fires.  The process goroutine reads o.file without o.mu.  Close, and    *)
(* the level filter of the os logger (log, logForce), are the other       *)
(* calls.                                                                  *)
(*                                                                         *)
(* A log line is the number of the call that logged it.  The log files    *)
(* are named by their sequence: 0 for server.log, i for server.log.i.     *)
(***************************************************************************)
EXTENDS Integers, Sequences, SequencesExt, FiniteSets

CONSTANTS
  Loggers,      \* goroutines calling the logger
  Async,        \* asyncOption.Enabled (NewOutput2 with a pool)
  PoolSize,     \* capacity of pool.queue
  BufLines,     \* lines the pool buffer holds (BufferSize over the line length)
  FileSize,     \* the FileSize variable: lines counted between rotations
  MaxNum,       \* DefaultFileMaxNum
  ResetDrains,  \* Timer.Reset discards a value left in the channel (Go 1.23 on)
  MaxCalls,     \* bound on logger calls
  None          \* model value: no such file, mutex free

ASSUME {PoolSize, BufLines, FileSize, MaxNum, MaxCalls} \subseteq Nat \ {0}

Seqs == 0..MaxNum - 1
Lines == 1..MaxCalls

VARIABLES
  files,    \* the directory: sequence -> the lines of that file, or None
  file,     \* o.file is open (FALSE once close() set it to nil)
  current,  \* o.current
  mu,       \* o.mu: the logger holding it, or None
  queue,    \* pool.queue
  buf,      \* pool.buffer[:pool.current]
  tArmed,   \* encTimeout is running
  tC,       \* encTimeout.C holds a value
  lpc,      \* logger: where in Send it is
  line,     \* logger: the line it sends
  force,    \* logger: Send's force argument (logForce)
  dropped,  \* lines whose persist found o.file nil
  calls

vars == <<files, file, current, mu, queue, buf, tArmed, tC, lpc, line, force, dropped, calls>>
pool == <<queue, buf, tArmed, tC, dropped>>

(***************************************************************************)
(* NewOutput2: openLogFile creates server.log, refreshFileSize of an      *)
(* empty file is 0, and newPool starts encTimeout.                        *)
(***************************************************************************)
Init ==
  /\ files = [s \in Seqs |-> IF s = 0 THEN <<>> ELSE None]
  /\ file = TRUE /\ current = 0 /\ mu = None
  /\ queue = <<>> /\ buf = <<>> /\ tArmed = Async /\ tC = FALSE
  /\ lpc = [g \in Loggers |-> "idle"] /\ line = [g \in Loggers |-> 0]
  /\ force = [g \in Loggers |-> FALSE]
  /\ dropped = {} /\ calls = 0

\* o.file.Write(generateLogInfo(e)) on the open file.
writeLine(l) == files' = [files EXCEPT ![0] = Append(@, l)]

\* Send returns; the deferred o.mu.Unlock runs.
return(g) == mu' = None /\ lpc' = [lpc EXCEPT ![g] = "idle"]

(***************************************************************************)
(* The os logger: log and logForce drop a line below the level, else      *)
(* build the Event and Send it, forced for logForce.                      *)
(***************************************************************************)
Log(g) ==
  /\ lpc[g] = "idle" /\ calls < MaxCalls /\ calls' = calls + 1
  /\ \E atLevel \in BOOLEAN, f \in BOOLEAN :
       IF atLevel
       THEN /\ line' = [line EXCEPT ![g] = calls + 1] /\ force' = [force EXCEPT ![g] = f]
            /\ lpc' = [lpc EXCEPT ![g] = "lock"]
       ELSE UNCHANGED <<lpc, line, force>>
  /\ UNCHANGED <<files, file, current, mu, pool>>

\* Close: close() under o.mu syncs and closes o.file and sets it to nil.
Close(g) ==
  /\ lpc[g] = "idle" /\ mu = None /\ calls < MaxCalls /\ calls' = calls + 1
  /\ file' = FALSE
  /\ UNCHANGED <<files, current, mu, pool, lpc, line, force>>

(***************************************************************************)
(* Send(e, force)                                                          *)
(***************************************************************************)
\* Lock; a nil o.file returns o.err, which is nil; a full file rotates.
SendLock(g) ==
  /\ lpc[g] = "lock" /\ mu = None
  /\ IF ~file
     THEN return(g)
     ELSE mu' = g /\ lpc' = [lpc EXCEPT ![g] = IF current >= FileSize THEN "roll" ELSE "write"]
  /\ UNCHANGED <<files, file, current, pool, line, force, calls>>

\* rollRunOnce, first part: oldLogFiles lists the files (never empty: the
\* current file is there), and close() closes o.file and sets it to nil.
RollClose(g) ==
  /\ lpc[g] = "roll"
  /\ file' = FALSE /\ lpc' = [lpc EXCEPT ![g] = "rename"]
  /\ UNCHANGED <<files, current, mu, pool, line, force, calls>>

\* Mutant: Less reversed, the oldest backup first.
byFormatSequenceAsc(a, b) == a < b

\* byFormatSequence.Less: the newest backup (highest sequence) first.
byFormatSequence(a, b) == a > b

\* The renames of rollRunOnce, in the order of the sorted list: a file
\* whose next sequence reaches DefaultFileMaxNum is removed, any other is
\* renamed to the next name, replacing a file of that name.  openNew then
\* opens server.log with O_CREATE|O_APPEND.
Rotate(fs) ==
  LET order == SetToSortSeq({s \in Seqs : fs[s] # None}, byFormatSequence)
      mv(f, s) == IF s + 1 >= MaxNum THEN [f EXCEPT ![s] = None]
                  ELSE [f EXCEPT ![s + 1] = f[s], ![s] = None]
      moved == FoldLeft(mv, fs, order)
  IN [moved EXCEPT ![0] = IF @ = None THEN <<>> ELSE @]

\* rollRunOnce, second part, and Send's `o.current = 0`.
RollOpen(g) ==
  /\ lpc[g] = "rename"
  /\ files' = Rotate(files) /\ file' = TRUE /\ current' = 0
  /\ lpc' = [lpc EXCEPT ![g] = "write"]
  /\ UNCHANGED <<mu, pool, line, force, calls>>

\* Without a pool, or forced: write directly.  Else enc: Reset the timer,
\* which leaves a value already in its channel before Go 1.23.
SendWrite(g) ==
  /\ lpc[g] = "write"
  /\ IF ~Async \/ force[g]
     THEN writeLine(line[g]) /\ current' = current + 1 /\ return(g)
          /\ UNCHANGED <<tArmed, tC>>
     ELSE /\ tArmed' = TRUE /\ tC' = (tC /\ ~ResetDrains)
          /\ lpc' = [lpc EXCEPT ![g] = "enc"]
          /\ UNCHANGED <<files, current, mu>>
  /\ UNCHANGED <<file, queue, buf, dropped, line, force, calls>>

\* enc's select, queue case: the line is queued.
EncQueue(g) ==
  /\ lpc[g] = "enc" /\ Len(queue) < PoolSize
  /\ queue' = Append(queue, line[g]) /\ current' = current + 1 /\ return(g)
  /\ UNCHANGED <<files, file, buf, tArmed, tC, dropped, line, force, calls>>

\* enc's select, timer case: Send writes the line directly.
EncTimeout(g) ==
  /\ lpc[g] = "enc" /\ tC
  /\ tC' = FALSE /\ writeLine(line[g]) /\ current' = current + 1 /\ return(g)
  /\ UNCHANGED <<file, queue, buf, tArmed, dropped, line, force, calls>>

\* encTimeout fires: a non-blocking send of the time on its channel.
TimerFire ==
  /\ tArmed /\ tArmed' = FALSE /\ tC' = TRUE
  /\ UNCHANGED <<files, file, current, mu, queue, buf, dropped, lpc, line, force, calls>>

(***************************************************************************)
(* The process goroutine: a queued line is written into the buffer, which *)
(* is persisted first when the line does not fit; the ticker persists it. *)
(* persist writes to o.file as it is at that moment: nil during a         *)
(* rotation or after Close, and the write error is ignored.               *)
(***************************************************************************)
persist(data) ==
  IF file THEN files' = [files EXCEPT ![0] = @ \o data] /\ UNCHANGED dropped
  ELSE dropped' = dropped \cup Range(data) /\ UNCHANGED files

ProcessRecv ==
  /\ Async /\ queue # <<>>
  /\ queue' = Tail(queue)
  /\ IF Len(buf) + 1 > BufLines
     THEN persist(buf) /\ buf' = <<Head(queue)>>
     ELSE buf' = Append(buf, Head(queue)) /\ UNCHANGED <<files, dropped>>
  /\ UNCHANGED <<file, current, mu, tArmed, tC, lpc, line, force, calls>>

\* Mutant: the flush persists the buffer but does not reset p.current.
ProcessFlushNoReset ==
  /\ Async /\ buf # <<>>
  /\ persist(buf)
  /\ UNCHANGED <<file, current, mu, queue, buf, tArmed, tC, lpc, line, force, calls>>

\* Mutant: the flush waits for two buffered lines.
ProcessFlushTwo ==
  /\ Async /\ Len(buf) > 1
  /\ persist(buf) /\ buf' = <<>>
  /\ UNCHANGED <<file, current, mu, queue, tArmed, tC, lpc, line, force, calls>>

\* The ticker case: pool.flush persists a non-empty buffer and empties it.
ProcessFlush ==
  /\ Async /\ buf # <<>>
  /\ persist(buf) /\ buf' = <<>>
  /\ UNCHANGED <<file, current, mu, queue, tArmed, tC, lpc, line, force, calls>>

Sending(g) == SendLock(g) \/ RollClose(g) \/ RollOpen(g) \/ SendWrite(g)
              \/ EncQueue(g) \/ EncTimeout(g)
Process == ProcessRecv \/ ProcessFlush

Next == (\E g \in Loggers : Log(g) \/ Close(g) \/ Sending(g)) \/ TimerFire \/ Process

\* A goroutine inside Send runs, the timer fires, and the process
\* goroutine and its ticker run; nobody is obliged to log.
Fairness == (\A g \in Loggers : WF_vars(Sending(g))) /\ WF_vars(TimerFire) /\ WF_vars(Process)

Spec == Init /\ [][Next]_vars
FairSpec == Spec /\ Fairness

(***************************************************************************)
(* Properties                                                              *)
(***************************************************************************)
TypeOK ==
  /\ files \in [Seqs -> Seq(Lines) \cup {None}] /\ file \in BOOLEAN
  /\ current \in 0..MaxCalls /\ mu \in Loggers \cup {None}
  /\ Len(queue) <= PoolSize /\ Len(buf) <= BufLines
  /\ lpc \in [Loggers -> {"idle", "lock", "roll", "rename", "write", "enc"}]
  /\ dropped \subseteq Lines /\ calls \in 0..MaxCalls

\* Where a line is: in the queue, in the pool buffer, or in a file.
Occurrences(l) ==
  LET count(s) == Len(SelectSeq(s, LAMBDA x : x = l)) IN
  count(queue) + count(buf) + FoldSet(LAMBDA s, n : count(files[s]) + n, 0,
                                      {s \in Seqs : files[s] # None})

\* A logged line is written at most once, and a line lost by persist is
\* nowhere: the pool buffer is emptied exactly when it is persisted, by
\* write when the next line does not fit and by the ticker's flush.
NoDuplicateLine ==
  \A l \in Lines : Occurrences(l) <= 1 /\ (l \in dropped => Occurrences(l) = 0)

\* A rotation moves every file one sequence up, removes the oldest, and
\* starts an empty server.log: the renames, in the order of the sorted
\* file list, never replace a file that has not been moved yet.
RotationShifts ==
  [][\A g \in Loggers : lpc[g] = "rename" /\ lpc'[g] = "write" =>
       /\ \A s \in Seqs \ {0} : files'[s] = files[s - 1]
       /\ files'[0] = <<>>]_vars

\* Every queued or buffered line leaves the pool: the process goroutine
\* drains the queue, and the ticker persists the buffer.
PoolDrains ==
  \A l \in Lines : (l \in Range(queue) \/ l \in Range(buf))
                     ~> (l \notin Range(queue) /\ l \notin Range(buf))
====
