----------------------------- MODULE Coordinator -----------------------------
(***************************************************************************)
(* The room coordinator (coordinator/coordinator.py) and mDNS discovery    *)
(* (coordinator/discovery.py): processes on one LAN, one per host, each    *)
(* announcing its room and listing the peers it finds there.               *)
(*                                                                         *)
(* run brings up the relay (optional), discovery and the reference bus, in *)
(* that order and outside its try; a failure or a cancellation there ends  *)
(* the process with nothing stopped, that is without a goodbye on the LAN. *)
(*                                                                         *)
(* zeroconf (external) tells a browser of services by Added and Removed    *)
(* events, in order for each process and handled one at a time on its own  *)
(* thread; _on_change ignores Updated.  Events are late: a service may     *)
(* come, go or change room before its event is handled, and the lookup in  *)
(* _add_peer is answered from the cache or by the service.                 *)
(***************************************************************************)
EXTENDS Integers, Sequences, SequencesExt, FiniteSets

CONSTANTS
  Hosts, Rooms,
  Watchers,                  \* the hosts whose browser is followed: a browser
                             \* changes nothing that another host can see
  RoomsOf,                   \* per host: the rooms it may be launched in
  Lossy,                     \* a lookup may time out; a record may lapse
  MaxRuns,                   \* bound on the runs, all hosts together
  MaxEvents                  \* bound on the queue of a browser, but for
                             \* the end of a dead service's record

ASSUME CoordinatorAssumption ==
  /\ Watchers \subseteq Hosts /\ RoomsOf \in [Hosts -> SUBSET Rooms]
  /\ Lossy \in BOOLEAN /\ MaxRuns \in Nat
  /\ IsFiniteSet(Hosts) /\ "none" \notin Hosts \cup Rooms

None == "none"

VARIABLES
  phase,                     \* where run is
  room,                      \* args.room_code
  service,                   \* the room each host announces on the LAN
  cache,                     \* cache[o][h]: what o's zeroconf holds of h
  events,                    \* changes its browser has still to report
  asking,                    \* the name _add_peer is looking up
  known,                     \* DiscoveryService._peers, by name
  peers,                     \* peers in run
  runs,                      \* runs so far
  missed                     \* ghost: <<o, h>> when o's last lookup of h gave
                             \* nothing or another room than the record, or
                             \* the record has changed since

lanVars == <<service, cache, events>>
listVars == <<asking, known, peers, missed>>
vars == <<phase, room, lanVars, listVars, runs>>

Phases == {"off", "relay", "discovery", "bus", "loop", "stopping", "leaving"}

Init ==
  /\ phase = [h \in Hosts |-> "off"]
  /\ room = [h \in Hosts |-> None]
  /\ service = [h \in Hosts |-> None]
  /\ cache = [o \in Hosts |-> [h \in Hosts |-> None]]
  /\ events = [o \in Hosts |-> <<>>]
  /\ asking = [o \in Hosts |-> None]
  /\ known = [o \in Hosts |-> {}]
  /\ peers = [o \in Hosts |-> <<>>]
  /\ runs = 0
  /\ missed = {}

-----------------------------------------------------------------------------
(* run, in coordinator.py *)

Launch(h, r) ==
  /\ phase[h] = "off"
  /\ runs < MaxRuns
  /\ runs' = runs + 1
  /\ phase' = [phase EXCEPT ![h] = "relay"]
  /\ room' = [room EXCEPT ![h] = r]
  /\ UNCHANGED <<lanVars, listVars>>

Move(h, from, to) ==
  /\ phase[h] = from
  /\ phase' = [phase EXCEPT ![h] = to]
  /\ UNCHANGED <<room, runs>>

\* relay.connect, or no --relay-url.
ConnectRelay(h) == Move(h, "relay", "discovery") /\ UNCHANGED <<lanVars, listVars>>

\* discovery.start registers the service and opens the browser; one step here,
\* though it awaits the registration.
StartDiscovery(h) ==
  /\ Move(h, "discovery", "bus")
  /\ service' = [service EXCEPT ![h] = room[h]]
  /\ UNCHANGED <<cache, events, listVars>>

StartBus(h) == Move(h, "bus", "loop") /\ UNCHANGED <<lanVars, listVars>>

\* CancelledError in the loop: on to the finally.
Interrupt(h) == Move(h, "loop", "stopping") /\ UNCHANGED <<lanVars, listVars>>

\* What dies with the process, or with its zeroconf.
CloseZeroconf(h) ==
  /\ service' = [service EXCEPT ![h] = None]
  /\ cache' = [cache EXCEPT ![h] = [x \in Hosts |-> None]]
  /\ events' = [events EXCEPT ![h] = <<>>]
  /\ asking' = [asking EXCEPT ![h] = None]
  /\ missed' = {m \in missed : m[1] # h}

\* discovery.stop unregisters and closes zeroconf, one step here though it
\* awaits both; the lists are kept.
StopDiscovery(h) ==
  /\ Move(h, "stopping", "leaving")
  /\ CloseZeroconf(h)
  /\ UNCHANGED <<known, peers>>

\* The process ends: after its last stop, or because a start step failed or was
\* cancelled, or killed.
Exit(h) ==
  /\ phase[h] # "off"
  /\ phase' = [phase EXCEPT ![h] = "off"]
  /\ room' = [room EXCEPT ![h] = None]
  /\ CloseZeroconf(h)
  /\ known' = [known EXCEPT ![h] = {}]
  /\ peers' = [peers EXCEPT ![h] = <<>>]
  /\ UNCHANGED runs

-----------------------------------------------------------------------------
(* zeroconf and the LAN (external) *)

Browsing(o) == o \in Watchers /\ phase[o] \in {"bus", "loop", "stopping"}

Report(o, h, kind, r) ==
  /\ Browsing(o)
  /\ Len(events[o]) < MaxEvents \/ service[h] = None
  /\ cache' = [cache EXCEPT ![o][h] = r]
  /\ events' = [events EXCEPT ![o] = Append(@, [kind |-> kind, name |-> h])]
  /\ UNCHANGED <<phase, room, service, listVars, runs>>

\* An announcement reaches o.
Discover(o, h) ==
  /\ cache[o][h] = None /\ service[h] # None
  /\ Report(o, h, "added", service[h])

\* A goodbye reaches o, or the record's time to live ends.
Lapse(o, h) ==
  /\ cache[o][h] # None /\ (service[h] = None \/ Lossy)
  /\ Report(o, h, "removed", None)

\* h came back in another room before its record lapsed: Updated.
Refresh(o, h) ==
  /\ Browsing(o)
  /\ cache[o][h] # None /\ service[h] \notin {None, cache[o][h]}
  /\ cache' = [cache EXCEPT ![o][h] = service[h]]
  /\ missed' = missed \cup {<<o, h>>}
  /\ UNCHANGED <<phase, room, service, events, asking, known, peers, runs>>

-----------------------------------------------------------------------------
(* _on_change, on the zeroconf thread *)

NextEvent(o, kind) ==
  /\ Browsing(o) /\ asking[o] = None
  /\ events[o] # <<>> /\ Head(events[o]).kind = kind

\* Mutant: only the newest change is handled.
AskNewest(o) ==
  /\ NextEvent(o, "added")
  /\ asking' = [asking EXCEPT ![o] = Last(events[o]).name]
  /\ events' = [events EXCEPT ![o] = <<>>]
  /\ UNCHANGED <<phase, room, service, cache, known, peers, runs, missed>>

\* _add_peer up to info.request, which blocks the thread.
Ask(o) ==
  /\ NextEvent(o, "added")
  /\ asking' = [asking EXCEPT ![o] = Head(events[o]).name]
  /\ events' = [events EXCEPT ![o] = Tail(@)]
  /\ UNCHANGED <<phase, room, service, cache, known, peers, runs, missed>>

\* The rest of _add_peer, answered with room r, and on_peer_added.
Learn(o, r) ==
  LET h == asking[o]
  IN  /\ Browsing(o) /\ h # None
      /\ r \in {cache[o][h], service[h]} \ {None}
      /\ IF r = room[o]
         THEN /\ known' = [known EXCEPT ![o] = @ \cup {h}]
              /\ peers' = [peers EXCEPT ![o] = Append(@, h)]
         ELSE UNCHANGED <<known, peers>>
      /\ missed' = IF r = cache[o][h] THEN missed \ {<<o, h>>} ELSE missed \cup {<<o, h>>}
      /\ asking' = [asking EXCEPT ![o] = None]
      /\ UNCHANGED <<phase, room, lanVars, runs>>

\* No addresses: nobody answers any more, or not within 3 s.
AskFails(o) ==
  LET h == asking[o]
  IN  /\ Browsing(o) /\ h # None
      /\ Lossy \/ {cache[o][h], service[h]} = {None}
      /\ asking' = [asking EXCEPT ![o] = None]
      /\ missed' = missed \cup {<<o, h>>}
      /\ UNCHANGED <<phase, room, lanVars, known, peers, runs>>

\* [p for p in peers if p.hostname != name]
Without(q, h) ==
  LET kept[n \in 0 .. Len(q)] ==
        IF n = 0 THEN <<>>
        ELSE IF q[n] = h THEN kept[n - 1] ELSE Append(kept[n - 1], q[n])
  IN  kept[Len(q)]

\* Mutant: the peer is looked up in _peers but not popped.
DropLookedUp(o) ==
  LET h == Head(events[o]).name
  IN  /\ NextEvent(o, "removed")
      /\ events' = [events EXCEPT ![o] = Tail(@)]
      /\ peers' = IF h \in known[o]
                  THEN [peers EXCEPT ![o] = Without(@, h)]
                  ELSE peers
      /\ UNCHANGED <<phase, room, service, cache, asking, known, runs, missed>>

\* Mutant: on_peer_removed assigns a local peers (no nonlocal).
DropLocal(o) ==
  /\ NextEvent(o, "removed")
  /\ events' = [events EXCEPT ![o] = Tail(@)]
  /\ known' = [known EXCEPT ![o] = @ \ {Head(events[o]).name}]
  /\ UNCHANGED <<phase, room, service, cache, asking, peers, runs, missed>>

\* _remove_peer and on_peer_removed.
Drop(o) ==
  LET h == Head(events[o]).name
  IN  /\ NextEvent(o, "removed")
      /\ events' = [events EXCEPT ![o] = Tail(@)]
      /\ known' = [known EXCEPT ![o] = @ \ {h}]
      /\ peers' = IF h \in known[o]
                  THEN [peers EXCEPT ![o] = Without(@, h)]
                  ELSE peers
      /\ UNCHANGED <<phase, room, service, cache, asking, runs, missed>>

OnChange(o) == Ask(o) \/ (\E r \in Rooms : Learn(o, r)) \/ AskFails(o) \/ Drop(o)

-----------------------------------------------------------------------------
Run(h) ==
  \/ \E r \in RoomsOf[h] : Launch(h, r)
  \/ ConnectRelay(h) \/ StartDiscovery(h) \/ StartBus(h)
  \/ Interrupt(h) \/ StopDiscovery(h) \/ Exit(h)

Lan(o, h) == Discover(o, h) \/ Lapse(o, h) \/ Refresh(o, h)

Next == \E o \in Hosts : Run(o) \/ OnChange(o) \/ \E h \in Hosts : Lan(o, h)

\* zeroconf handles what is queued; a dead service's record lapses.
Fairness ==
  \A o \in Hosts :
    /\ WF_vars(OnChange(o))
    /\ \A h \in Hosts : WF_vars(service[h] = None /\ Lapse(o, h))

Spec == Init /\ [][Next]_vars /\ Fairness

-----------------------------------------------------------------------------
\* The state has its types; the coordinator's list never grows beyond the
\* hosts there are, however often they come and go (coordinator.py:32-39).
TypeOK ==
  /\ phase \in [Hosts -> Phases]
  /\ {room, service} \subseteq [Hosts -> Rooms \cup {None}]
  /\ cache \in [Hosts -> [Hosts -> Rooms \cup {None}]]
  /\ events \in [Hosts -> Seq([kind : {"added", "removed"}, name : Hosts])]
  /\ asking \in [Hosts -> Hosts \cup {None}]
  /\ known \in [Hosts -> SUBSET Hosts]
  /\ missed \subseteq Hosts \X Hosts
  /\ peers \in [Hosts -> Seq(Hosts)]
  /\ \A o \in Hosts : Len(peers[o]) <= Cardinality(Hosts)

\* The coordinator's list (coordinator.py:32-39) and the dictionary of
\* DiscoveryService hold the same peers, each once, whatever comes, goes and
\* comes back, and however late the events are.
ListsAgree ==
  \A o \in Hosts : ToSet(peers[o]) = known[o] /\ Len(peers[o]) = Cardinality(known[o])

\* When zeroconf has nothing left to report, a host is listed exactly when its
\* record names my room, whatever came, went, lapsed and came back: only a
\* lookup that failed or was answered with another room than the record, or a
\* record that changed without a new lookup, leaves the list wrong, and for
\* that host only (discovery.py:77-112, where no event or answer is repeated).
RecordsListed ==
  \A o, h \in Hosts :
    Browsing(o) /\ events[o] = <<>> /\ asking[o] = None /\ <<o, h>> \notin missed
      => (h \in known[o] <=> cache[o][h] = room[o])

\* A host that is gone for good, with or without a goodbye, is off every list
\* in the end (coordinator.py:63-72 against discovery.py:77-112).
GoneIsUnlisted ==
  \A o, h \in Hosts :
    (service[h] = None) ~> (service[h] # None \/ ~Browsing(o) \/ h \notin ToSet(peers[o]))
=============================================================================
