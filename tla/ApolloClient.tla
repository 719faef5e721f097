---------------------------- MODULE ApolloClient ----------------------------
(***************************************************************************)
(* The apollo-config client of src/apollo-config: StartApolloClient, the  *)
(* long-poll goroutine of NotifyConfigComponent (notifySyncConfigServices *)
(* with notifyRemoteConfig and autoSyncConfigServices), requestRecovery   *)
(* with selectHost and setDownNode, updateApolloConfig with its diff of   *)
(* the freecache cache, PushChangeEvent on the change channel, the        *)
(* initServerIpList goroutine, and a listener reading ListenChangeEvent.  *)
(*                                                                         *)
(* One namespace.  The server publishes the releases of Releases in       *)
(* order; release r has notification id r and release key r, and 0 is    *)
(* the default notification id -1 and the empty release key.  A request  *)
(* to a host either gets an answer or fails after its max_retries, at     *)
(* most MaxFaults times.  Entries of freecache expire 120 s after their   *)
(* last Set; a 304 answer touches them, so they expire only while         *)
(* requests fail (stale), if Expiry.                                       *)
(***************************************************************************)
EXTENDS Integers, Sequences

CONSTANTS
  Keys,       \* configuration keys
  Absent,     \* model value: the key is not in a configuration
  Releases,   \* the configurations the server publishes, in order
  Servers,    \* the config services that services/config lists
  Meta,       \* appConfig's Ip, the meta server
  MaxFaults,  \* bound on failed requests
  Expiry      \* whether cache entries may expire

VARIABLES
  rel,        \* the server's latest release
  cache,      \* apolloConfigCache: key -> value, or Absent
  expired,    \* keys freecache dropped since they were last Set
  stale,      \* no Set or touch since a request failed: entries may expire
  curRel,     \* currentConnApolloConfig.config.ReleaseKey
  notif,      \* allNotifications: the namespace's notification id
  pc,         \* the polling goroutine: "notify", "sync", "push" or "idle"
  first,      \* the notify is StartApolloClient's first sync
  pend,       \* the release whose change event is being pushed
  event,      \* that change event: key -> ConfigChange
  subscribed, \* ListenChangeEvent was called before the client started
  chan,       \* notifyChan (capacity 1): the change events in it
  view,       \* the configuration the listener built from the events
  direct,     \* appConfig.NextTryConnTime is in the future
  known,      \* the keys of the servers map
  down,       \* the servers marked IsDown
  file,       \* the release in the backup file, 0 if none
  faults

vars == <<rel, cache, expired, stale, curRel, notif, pc, first, pend, event, subscribed,
          chan, view, direct, known, down, file, faults>>

Values == {Releases[r][k] : r \in DOMAIN Releases, k \in Keys} \ {Absent}
Config == [Keys -> Values \cup {Absent}]
NoConfig == [k \in Keys |-> Absent]

(***************************************************************************)
(* The change list of updateApolloConfigCache: a key not among the old    *)
(* keys is ADDED, one whose old value differs is MODIFIED, an old key not *)
(* in the new configuration is DELETED; equal values make no change.      *)
(***************************************************************************)
ConfigChange(old, new) ==
  [type |-> CASE old = Absent -> "ADDED" [] new = Absent -> "DELETED" [] OTHER -> "MODIFIED",
   old |-> old, new |-> new]

\* Mutant: a key of the old cache missing from the new release is Del'd
\* without a DELETED change.
updateApolloConfigCacheNoDelete(new) ==
  [k \in {k \in Keys : cache[k] # new[k] /\ new[k] # Absent} |-> ConfigChange(cache[k], new[k])]

updateApolloConfigCache(new) ==
  [k \in {k \in Keys : cache[k] # new[k]} |-> ConfigChange(cache[k], new[k])]

\* A listener applying a change event: ADDED and MODIFIED set NewValue,
\* DELETED removes the key.
ApplyEvent(v, e) ==
  [k \in Keys |-> IF k \in DOMAIN e
                  THEN IF e[k].type = "DELETED" THEN Absent ELSE e[k].new
                  ELSE v[k]]

\* StartApolloClient after initCache: the cache is empty and the current
\* config has an empty release key; the backup file is what an earlier
\* run left.
Init ==
  /\ rel = 1 /\ cache = NoConfig /\ expired = {} /\ stale = FALSE
  /\ curRel = 0 /\ notif = 0 /\ pc = "notify" /\ first = TRUE /\ pend = 0 /\ event = << >>
  /\ subscribed \in BOOLEAN /\ chan = <<>> /\ view = NoConfig
  /\ direct = FALSE /\ known = {} /\ down = {}
  /\ file \in {0, 1} /\ faults = 0

(***************************************************************************)
(* updateApolloConfig(r): the cache takes release r (every key Set, the   *)
(* others Del), the change event is pushed if there are changes, and then *)
(* the current config takes r's release key.  The backup file is written  *)
(* by a goroutine of its own and read only at start.                      *)
(***************************************************************************)
updateApolloConfig(r) ==
  LET changes == updateApolloConfigCache(Releases[r]) IN
  /\ cache' = Releases[r]
  /\ expired' = {k \in expired : Releases[r][k] = Absent}
  /\ stale' = FALSE
  /\ IF DOMAIN changes # {} /\ subscribed
     THEN pc' = "push" /\ pend' = r /\ event' = changes /\ UNCHANGED curRel
     ELSE pc' = "idle" /\ curRel' = r /\ UNCHANGED <<pend, event>>

\* notifyChan <- event blocks while the channel holds an event; then the
\* current config is updated.
PushChangeEvent ==
  /\ pc = "push" /\ Len(chan) < 1 /\ chan' = Append(chan, event)
  /\ curRel' = pend /\ pc' = "idle" /\ pend' = 0 /\ event' = << >>
  /\ UNCHANGED <<rel, cache, expired, stale, notif, first, subscribed, view, direct,
                 known, down, file, faults>>

\* touchApolloConfigCache on a 304: every entry is Set again.
touchApolloConfigCache == stale' = FALSE

(***************************************************************************)
(* selectHost: the meta server unless NextTryConnTime is in the future,   *)
(* then any server of the map not IsDown (map order), or "" if none.       *)
(***************************************************************************)
selectHost == IF direct THEN known \ down ELSE {Meta}

\* setDownNode(host): the meta server sets NextTryConnTime; a server of
\* the map is marked IsDown.
setDownNode(h) ==
  IF h = Meta THEN direct' = TRUE /\ UNCHANGED down
  ELSE down' = down \cup {h} /\ UNCHANGED direct

\* request to host h failed after its retries: requestRecovery marks the
\* host down and selects again.  Nothing is Set or touched.
RequestFail ==
  /\ pc \in {"notify", "sync"} /\ faults < MaxFaults
  /\ \E h \in selectHost : setDownNode(h)
  /\ faults' = faults + 1 /\ stale' = TRUE
  /\ UNCHANGED <<rel, cache, expired, curRel, notif, pc, first, pend, event, subscribed,
                 chan, view, known, file>>

\* selectHost returned "": requestRecovery fails.  StartApolloClient's
\* first notify then loads the backup file; autoSyncConfigServices'
\* error is ignored.
NoHost ==
  /\ pc \in {"notify", "sync"} /\ selectHost = {}
  /\ IF pc = "notify" /\ first /\ file # 0
     THEN updateApolloConfig(file)
     ELSE pc' = "idle" /\ UNCHANGED <<cache, expired, stale, curRel, pend, event>>
  /\ first' = FALSE
  /\ UNCHANGED <<rel, notif, subscribed, chan, view, direct, known, down, file, faults>>

\* notifyRemoteConfig answered: 304 when the id is the server's latest
\* (touch, nothing to sync), else the latest id, which
\* updateAllNotifications records before autoSyncConfigServices runs.
NotifyAnswer ==
  /\ pc = "notify" /\ selectHost # {}
  /\ IF notif = rel
     THEN touchApolloConfigCache /\ pc' = "idle" /\ UNCHANGED notif
     ELSE notif' = rel /\ pc' = "sync" /\ UNCHANGED stale
  /\ first' = FALSE
  /\ UNCHANGED <<rel, cache, expired, curRel, pend, event, subscribed, chan, view, direct,
                 known, down, file, faults>>

\* autoSyncConfigServices answered: 304 for the current release key, else
\* the latest release, which autoSyncConfigServicesSuccessCallBack applies.
SyncAnswer ==
  /\ pc = "sync" /\ selectHost # {}
  /\ IF curRel = rel
     THEN touchApolloConfigCache /\ pc' = "idle"
          /\ UNCHANGED <<cache, expired, curRel, pend, event>>
     ELSE updateApolloConfig(rel)
  /\ UNCHANGED <<rel, notif, first, subscribed, chan, view, direct, known, down, file, faults>>

\* NotifyConfigComponent.Start: the long_poll_interval timer fires.
Poll ==
  /\ pc = "idle" /\ pc' = "notify"
  /\ UNCHANGED <<rel, cache, expired, stale, curRel, notif, first, pend, event, subscribed,
                 chan, view, direct, known, down, file, faults>>

(***************************************************************************)
(* The environment and the other goroutines                                *)
(***************************************************************************)
\* The server publishes the next release.
Release ==
  /\ rel < Len(Releases) /\ rel' = rel + 1
  /\ UNCHANGED <<cache, expired, stale, curRel, notif, pc, first, pend, event, subscribed,
                 chan, view, direct, known, down, file, faults>>

\* next_try_connect_period passes: selectHost uses the meta server again.
Clock ==
  /\ direct /\ direct' = FALSE
  /\ UNCHANGED <<rel, cache, expired, stale, curRel, notif, pc, first, pend, event, subscribed,
                 chan, view, known, down, file, faults>>

\* syncServerIpList succeeds: syncServerIpListSuccessCallBack stores a
\* fresh serverInfo, IsDown false, for every server listed.
syncServerIpList ==
  /\ known' = Servers /\ down' = down \ Servers
  /\ known # known' \/ down # down'
  /\ UNCHANGED <<rel, cache, expired, stale, curRel, notif, pc, first, pend, event, subscribed,
                 chan, view, direct, file, faults>>

\* freecache drops an entry 120 s after its last Set.
Expire ==
  /\ Expiry /\ stale
  /\ \E k \in Keys :
       /\ cache[k] # Absent
       /\ cache' = [cache EXCEPT ![k] = Absent] /\ expired' = expired \cup {k}
  /\ UNCHANGED <<rel, stale, curRel, notif, pc, first, pend, event, subscribed, chan, view,
                 direct, known, down, file, faults>>

\* The listener receives a change event and applies it.
Listen ==
  /\ chan # << >>
  /\ view' = ApplyEvent(view, Head(chan)) /\ chan' = Tail(chan)
  /\ UNCHANGED <<rel, cache, expired, stale, curRel, notif, pc, first, pend, event, subscribed,
                 direct, known, down, file, faults>>

Poller == RequestFail \/ NoHost \/ NotifyAnswer \/ SyncAnswer \/ PushChangeEvent \/ Poll

Next == Poller \/ Release \/ Clock \/ syncServerIpList \/ Expire \/ Listen

\* The polling goroutine's timer fires, the listener reads its channel,
\* and next_try_connect_period passes.
Fairness == WF_vars(Poller) /\ WF_vars(Listen) /\ WF_vars(Clock)

Spec == Init /\ [][Next]_vars
FairSpec == Spec /\ Fairness
(***************************************************************************)
(* Properties                                                              *)
(***************************************************************************)
Change == [type : {"ADDED", "MODIFIED", "DELETED"}, old : Values \cup {Absent},
           new : Values \cup {Absent}]
Event == UNION {[S -> Change] : S \in SUBSET Keys}

TypeOK ==
  /\ rel \in DOMAIN Releases /\ cache \in Config /\ view \in Config
  /\ expired \subseteq Keys /\ curRel \in 0..rel /\ notif \in 0..rel
  /\ pc \in {"notify", "sync", "push", "idle"} /\ pend \in 0..rel
  /\ chan \in Seq(Event) /\ Len(chan) <= 1
  /\ known \subseteq Servers /\ down \subseteq known /\ faults \in 0..MaxFaults

\* A listener that subscribed before the client started, once it has read
\* every change event and none is being pushed, holds the cache's value
\* of every key but those freecache dropped: the change lists that
\* updateApolloConfigCache builds from the old cache and the new release
\* replay exactly the updates of the cache.
ViewAgreesWithCache ==
  subscribed /\ chan = << >> /\ pc # "push" =>
    \A k \in Keys : view[k] = cache[k] \/ k \in expired

\* The client's cache eventually holds the server's latest release and
\* keeps it: the long poll notices every release and syncs it.
EventuallyCurrent == <>[](cache = Releases[rel])
====
