----------------------------- MODULE FSMAtomic -----------------------------
(***************************************************************************)
(* What src/util/fsm promises to its users, with every call atomic: the    *)
(* current state moves only along a transition declared in the EventDesc   *)
(* list (from a source state, or from the any-state set by SetAnyState,    *)
(* to its Dst), or by the enter callback of the state the machine is in,   *)
(* which may set, reset or re-target the any-state.  Which of several      *)
(* matching transitions is taken, and whether a check callback refuses,    *)
(* is left open.                                                           *)
(***************************************************************************)
EXTENDS Integers, Sequences

CONSTANTS
  Events,     \* the []EventDesc given to NewFSM: [name, src, dst] records
  Callbacks,  \* the callbacks map: state -> what the callback may do
  Initial     \* the initial state given to NewFSM

VARIABLES current, statusAny

\* The declared moves: (name, src, dst) for every source of every event.
Declared == UNION {{[event |-> Events[j].name, src |-> Events[j].src[i],
                      dst |-> Events[j].dst] : i \in 1..Len(Events[j].src)} :
                    j \in 1..Len(Events)}

AInit == current = Initial /\ statusAny = -1

\* An event fires along a declared move whose source is the current state
\* or the any-state.
AFire ==
  /\ \E t \in Declared : t.src \in {current, statusAny} /\ current' = t.dst
  /\ UNCHANGED statusAny

\* The enter callback of the current state changes the machine.
ACallback ==
  /\ current > 0 /\ current \in DOMAIN Callbacks
  /\ \E c \in Callbacks[current] :
       \/ c.op = "set" /\ current' = c.arg /\ UNCHANGED statusAny
       \/ c.op = "reset" /\ current' = 0 /\ UNCHANGED statusAny
       \/ c.op = "any" /\ statusAny' = c.arg /\ UNCHANGED current

ANext == AFire \/ ACallback

ASpec == AInit /\ [][ANext]_<<current, statusAny>>
====
