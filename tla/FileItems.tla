------------------------------ MODULE FileItems ------------------------------
(***************************************************************************)
(* The file-backed cache table of src/util/mem/cache: FileItems with its   *)
(* sync.Map of FileItem, the data/.idx files of each item, the             *)
(* self-re-arming expiration timer (expirationCheck on time.AfterFunc),    *)
(* the API calls Add, Delete and Flush, and a crash of the process        *)
(* followed by LoadFileItems, which rebuilds the table from the files.   *)
(*                                                                         *)
(* Time is kept relative, so that it can pass forever in a finite model:  *)
(* an item records its lifeSpan and its age, the ticks since accessedOn,  *)
(* capped at AgeCap (every age from the longest lifespan on is expired    *)
(* alike); the armed timer records the ticks before it fires.  The .idx  *)
(* file records the age too, as it holds accessedOn.  An item is expired  *)
(* when now.Sub(accessedOn) >= lifeSpan.  Item identities are the number  *)
(* of the call that created them, so that two items of one key differ;    *)
(* the .idx file's id says which item wrote it (the file holds no id).    *)
(***************************************************************************)
EXTENDS Integers, FiniteSets, FiniteSetsExt

CONSTANTS
  Keys,          \* cache keys
  Users,         \* goroutines calling the API
  Spans,         \* lifeSpan arguments of Add, in ticks
  TableSpan,     \* table.lifeSpan, the span LoadFileItems reloads with
  IdleInterval,  \* the 5 s re-check of an empty table, in ticks
  Ops,           \* API calls made: subset of {"add", "delete", "flush"}
  MaxCalls,      \* bound on API calls
  MaxRestarts,   \* bound on crashes followed by LoadFileItems
  None           \* model value: no item, no file, timer not armed

ASSUME Spans \subseteq Nat \ {0} /\ TableSpan \in Nat \ {0} /\ IdleInterval \in Nat \ {0}
  /\ Ops \subseteq {"add", "delete", "flush"} /\ MaxCalls \in Nat

AgeCap == Max(Spans \cup {TableSpan})

VARIABLES
  items,   \* table.items: key -> FileItem [id, span, age]
  data,    \* the data file datapath/key: id of the item that wrote it
  idx,     \* the .idx file: [id, age] of the item that wrote it
  timer,   \* table.cleanupTimer: ticks until it fires, or None
  epc,     \* the expirer: "idle", "delete" while deleting outdated keys,
           \* or inside deleteInternal
  elist,   \* itemStrings: keys still to delete
  ekey,    \* the key deleteInternal is deleting
  next,    \* smallestDuration computed by the last range, in ticks
  upc, ukey, unew,  \* users: step, key, the FileItem being added
  calls, restarts

vars == <<items, data, idx, timer, epc, elist, ekey, next, upc, ukey, unew, calls, restarts>>

Expired(k) == items[k] # None /\ items[k].age >= items[k].span

Init ==
  /\ items = [k \in Keys |-> None]
  /\ data = [k \in Keys |-> None] /\ idx = [k \in Keys |-> None]
  \* LoadFileItems: `defer go t.expirationCheck()` runs a check at once.
  /\ timer = 0 /\ epc = "idle" /\ elist = {} /\ ekey = None /\ next = 0
  /\ upc = [u \in Users |-> "idle"] /\ ukey = [u \in Users |-> None]
  /\ unew = [u \in Users |-> None]
  /\ calls = 0 /\ restarts = 0

Call == calls < MaxCalls /\ calls' = calls + 1

(***************************************************************************)
(* Time passes: every item and .idx file ages, the armed timer counts down.*)
(***************************************************************************)
Older(r) == [r EXCEPT !.age = IF @ < AgeCap THEN @ + 1 ELSE @]

Tick ==
  /\ items' = [k \in Keys |-> IF items[k] = None THEN None ELSE Older(items[k])]
  /\ idx' = [k \in Keys |-> IF idx[k] = None THEN None ELSE Older(idx[k])]
  /\ timer' = IF timer \in {None, 0} THEN timer ELSE timer - 1
  /\ unew' = [u \in Users |-> IF unew[u] = None THEN None ELSE Older(unew[u])]
  /\ UNCHANGED <<data, epc, elist, ekey, next, upc, ukey, calls, restarts>>

(***************************************************************************)
(* expirationCheck, run by the timer: range over the items, collecting     *)
(* the expired keys and the smallest time left of the others; delete the  *)
(* collected keys one by one with deleteInternal; arm the next timer for  *)
(* smallestDuration, or for 5 s when there is none.                       *)
(***************************************************************************)
Smallest ==
  LET live == {items[k].span - items[k].age : k \in {k \in Keys : items[k] # None /\ ~Expired(k)}}
  IN IF live = {} THEN 0 ELSE Min(live)

ExpRange ==
  /\ epc = "idle" /\ timer = 0
  /\ timer' = None
  /\ elist' = {k \in Keys : Expired(k)} /\ next' = Smallest
  /\ epc' = "delete"
  /\ UNCHANGED <<items, data, idx, ekey, upc, ukey, unew, calls, restarts>>

\* FileItem.delete(bCallBack, sourceDelete): the data file goes if
\* sourceDelete, then the .idx file.  The callbacks that decide
\* sourceDelete are not set (see README), so it is TRUE.  The paths are
\* datapath/key, so the files removed are whatever files the key has.
removeData(k) == data' = [data EXCEPT ![k] = None]
removeIdx(k) == idx' = [idx EXCEPT ![k] = None]

\* deleteInternal(key): Load the key again; ErrKeyNotFound if it is gone;
\* otherwise aboutToExpire (not set) and item.delete.
ExpLoad ==
  /\ epc = "delete"
  /\ \E k \in elist :
       /\ elist' = elist \ {k}
       /\ IF items[k] = None THEN UNCHANGED <<epc, ekey>>
                             ELSE epc' = "unlinkdata" /\ ekey' = k
  /\ UNCHANGED <<items, data, idx, timer, next, upc, ukey, unew, calls, restarts>>

ExpUnlinkData ==
  /\ epc = "unlinkdata" /\ removeData(ekey) /\ epc' = "unlinkidx"
  /\ UNCHANGED <<items, idx, timer, elist, ekey, next, upc, ukey, unew, calls, restarts>>

ExpUnlinkIdx ==
  /\ epc = "unlinkidx" /\ removeIdx(ekey) /\ epc' = "mapdelete"
  /\ UNCHANGED <<items, data, timer, elist, ekey, next, upc, ukey, unew, calls, restarts>>

\* items.Delete(key), which removes whatever item the key has now.
ExpMapDelete ==
  /\ epc = "mapdelete"
  /\ items' = [items EXCEPT ![ekey] = None]
  /\ epc' = "delete" /\ ekey' = None
  /\ UNCHANGED <<data, idx, timer, elist, next, upc, ukey, unew, calls, restarts>>

ExpRearmNoIdle ==
  /\ epc = "delete" /\ elist = {}
  /\ timer' = IF next > 0 THEN next ELSE None
  /\ epc' = "idle"
  /\ UNCHANGED <<items, data, idx, elist, ekey, next, upc, ukey, unew, calls, restarts>>

ExpRearm ==
  /\ epc = "delete" /\ elist = {}
  /\ timer' = IF next > 0 THEN next ELSE IdleInterval
  /\ epc' = "idle"
  /\ UNCHANGED <<items, data, idx, elist, ekey, next, upc, ukey, unew, calls, restarts>>

(***************************************************************************)
(* The API.  Add is AddUnsafe: Load the key and return nil if present,    *)
(* else NewFileItem writes the data file and then the .idx file, and      *)
(* Store puts the item in the map.  Load and Store are separate sync.Map  *)
(* operations, and the process may crash between any two of the steps.   *)
(***************************************************************************)
\* NewFileItem: accessedOn = now; createAndStoreToFile creates and writes
\* datapath/key.
NewFileItem(u, k, l) ==
  /\ unew' = [unew EXCEPT ![u] = [id |-> calls + 1, span |-> l, age |-> 0]]
  /\ data' = [data EXCEPT ![k] = calls + 1]

Add(u) ==
  /\ upc[u] = "idle" /\ "add" \in Ops /\ Call
  /\ \E k \in Keys, l \in Spans :
       IF items[k] # None
       THEN UNCHANGED <<data, upc, ukey, unew>>
       ELSE /\ NewFileItem(u, k, l)
            /\ ukey' = [ukey EXCEPT ![u] = k] /\ upc' = [upc EXCEPT ![u] = "idxfile"]
  /\ UNCHANGED <<items, idx, timer, epc, elist, ekey, next, restarts>>

\* createAndStoreToFile, second half: create datapath/key.idx and write
\* accessedOn.MarshalText() to it.
AddIdx(u) ==
  /\ upc[u] = "idxfile"
  /\ idx' = [idx EXCEPT ![ukey[u]] = [id |-> unew[u].id, age |-> unew[u].age]]
  /\ upc' = [upc EXCEPT ![u] = "store"]
  /\ UNCHANGED <<items, data, timer, epc, elist, ekey, next, ukey, unew, calls, restarts>>

AddStore(u) ==
  /\ upc[u] = "store"
  /\ items' = [items EXCEPT ![ukey[u]] = unew[u]]
  /\ upc' = [upc EXCEPT ![u] = "idle"] /\ ukey' = [ukey EXCEPT ![u] = None]
  /\ unew' = [unew EXCEPT ![u] = None]
  /\ UNCHANGED <<data, idx, timer, epc, elist, ekey, next, calls, restarts>>

\* Delete: Load the key; if present, item.delete(bDeleteCallBack, true)
\* removes the data file and then the .idx file, and items.Delete(key)
\* removes whatever is there.
Delete(u) ==
  /\ upc[u] = "idle" /\ "delete" \in Ops /\ Call
  /\ \E k \in Keys :
       IF items[k] = None
       THEN UNCHANGED <<upc, ukey>>
       ELSE ukey' = [ukey EXCEPT ![u] = k] /\ upc' = [upc EXCEPT ![u] = "unlinkdata"]
  /\ UNCHANGED <<items, data, idx, timer, epc, elist, ekey, next, unew, restarts>>

DeleteData(u) ==
  /\ upc[u] = "unlinkdata" /\ removeData(ukey[u])
  /\ upc' = [upc EXCEPT ![u] = "unlinkidx"]
  /\ UNCHANGED <<items, idx, timer, epc, elist, ekey, next, ukey, unew, calls, restarts>>

DeleteIdx(u) ==
  /\ upc[u] = "unlinkidx" /\ removeIdx(ukey[u])
  /\ upc' = [upc EXCEPT ![u] = "unlink"]
  /\ UNCHANGED <<items, data, timer, epc, elist, ekey, next, ukey, unew, calls, restarts>>

DeleteUnlink(u) ==
  /\ upc[u] = "unlink"
  /\ items' = [items EXCEPT ![ukey[u]] = None]
  /\ upc' = [upc EXCEPT ![u] = "idle"] /\ ukey' = [ukey EXCEPT ![u] = None]
  /\ UNCHANGED <<data, idx, timer, epc, elist, ekey, next, unew, calls, restarts>>

\* Flush: a new empty map, cleanupInterval = 0, cleanupTimer.Stop(); the
\* files stay on disk.
Flush(u) ==
  /\ upc[u] = "idle" /\ "flush" \in Ops /\ Call
  /\ items' = [k \in Keys |-> None] /\ timer' = None
  /\ UNCHANGED <<data, idx, epc, elist, ekey, next, upc, ukey, unew, restarts>>

AddFromFile(k) == data[k] # None /\ idx[k] # None /\ idx[k].age < TableSpan

\* LoadFileItem: the content is the data file's, accessedOn the .idx
\* file's, lifeSpan the one passed in.
LoadFileItem(k) == [id |-> data[k], span |-> TableSpan, age |-> idx[k].age]

LoadFileItems ==
  /\ items' = [k \in Keys |-> IF AddFromFile(k) THEN LoadFileItem(k) ELSE None]
  /\ data' = [k \in Keys |-> IF AddFromFile(k) THEN data[k] ELSE None]
  /\ idx' = [k \in Keys |-> IF AddFromFile(k) THEN idx[k] ELSE None]
  /\ timer' = 0 /\ epc' = "idle" /\ elist' = {} /\ ekey' = None /\ next' = 0

Restart ==
  /\ restarts < MaxRestarts /\ restarts' = restarts + 1
  /\ LoadFileItems
  /\ upc' = [u \in Users |-> "idle"] /\ ukey' = [u \in Users |-> None]
  /\ unew' = [u \in Users |-> None]
  /\ UNCHANGED calls

User(u) == AddIdx(u) \/ AddStore(u) \/ DeleteData(u) \/ DeleteIdx(u) \/ DeleteUnlink(u)
Expirer == ExpRange \/ ExpLoad \/ ExpUnlinkData \/ ExpUnlinkIdx \/ ExpMapDelete \/ ExpRearm

Next ==
  \/ Tick \/ Expirer \/ Restart
  \/ \E u \in Users : Add(u) \/ Delete(u) \/ Flush(u) \/ User(u)

\* Time passes; the timer goroutine and a user between its sync.Map and
\* file operations run; callers are not obliged to call.
Fairness == WF_vars(Tick) /\ WF_vars(Expirer) /\ \A u \in Users : WF_vars(User(u))

Spec == Init /\ [][Next]_vars
FairSpec == Spec /\ Fairness

(***************************************************************************)
(* Properties                                                              *)
(***************************************************************************)
\* The timer chain of expirationCheck is alive: a timer is armed, or a
\* check is running and will arm the next one.
ChainAlive == timer # None \/ epc # "idle"

\* An expired item is eventually removed from the table while the timer
\* chain is alive: each expirationCheck re-arms itself, for the nearest
\* end of a lifespan or for the idle 5 s, and deletes every key it found
\* outdated.
ExpiredEventuallyRemoved ==
  \A k \in Keys : (Expired(k) /\ ChainAlive) ~> (items[k] = None)

\* expirationCheck deletes only items whose lifespan has passed: the item
\* deleteInternal's items.Delete removes from the table is expired.
ExpireOnlyExpired ==
  [][epc = "mapdelete" /\ epc' = "delete" => Expired(ekey)]_vars

\* An item is durable when nobody is deleting it, it is younger than the
\* table's lifeSpan, and its data and .idx files are the ones its Add wrote.
\* The last conjunct leaves out a race of the code: a deleteInternal that
\* loaded an item before a Flush and a re-Add of its key removes the new
\* item's files by path (fileitem.go:154-162), and that item is then lost.
Durable(k) ==
  /\ items[k] # None /\ items[k].age < TableSpan
  /\ \A u \in Users : ukey[u] # k
  /\ ekey # k
  /\ data[k] = items[k].id /\ idx[k] # None /\ idx[k].id = items[k].id

====
