--------------------------------- MODULE Zone ---------------------------------
(* ZoneService: the zones of the server, the peers that have interest in each, *)
(* and the ClientZones that the clients are sent. A zone is shown to the peers *)
(* with interest in it, and its dictionary of these peers is synced to them by *)
(* SyncService.request_sync. Zones are children of the service, which every    *)
(* peer sees, and are hidden unless shown, so that who observes one is told by *)
(* its own visibility (Visibility has the general case). All messages go on one *)
(* reliable channel to each peer.                                              *)
EXTENDS Naturals, Sequences, FiniteSets, SequencesExt

CONSTANTS
  Peers,     \* the clients; one that connects later is one that gets no interest
             \* until then, and one that reconnects has another identifier
  Zones,     \* the Zone objects
  None,      \* no ClientZone
  MaxWire    \* bound: the messages on their way to a client when a call is made

ASSUME NotPeers == "server" \notin Peers
ASSUME NoneIsNoCopy == None \notin [interest : SUBSET Peers, old_interest : SUBSET Peers]
ASSUME Finite == IsFiniteSet(Peers) /\ IsFiniteSet(Zones)

Server == "server"

VARIABLES
  peers,         \* those connected
  zones,         \* ZoneService.zones
  leaving,       \* zones that were removed in this frame, queued to be freed
  freed,
  interest,      \* Zone.interest
  old_interest,  \* Zone.old_interest, those the signals have told of
  shown,         \* the peers for which replication_visibility[zone] is true
  wire,          \* the messages to each peer
  copy,          \* the ClientZone of a peer: [interest, old_interest] or None
  present        \* who is in the zone, for a watcher at the server or a client that
                 \* read interest when the zone was ready and hears its signals since

vars == <<peers, zones, leaving, freed, interest, old_interest, shown, wire, copy, present>>

Added(z, ps) == [type |-> "add", zone |-> z, interest |-> ps]
Synced(z, ps) == [type |-> "sync", zone |-> z, interest |-> ps]
Removed(z) == [type |-> "remove", zone |-> z]

\* get_observing_peers
Observing(z) == shown[z] \cap peers

\* What a watcher knows after the setter of interest has told of the differences
\* between old and new.
Told(known, old, new) == (known \cup (new \ old)) \ (old \ new)

Room == \A p \in peers : Len(wire[p]) <= MaxWire

\* Fault: the interest is taken away before who observes is looked up.
LeaveUnseen(z, order) ==
  LET R == Range(order)
      upTo(i) == interest[z] \ {order[j] : j \in 1 .. i}
      syncs == [i \in DOMAIN order |-> Synced(z, upTo(i))]
      left == interest[z] \ R
  IN /\ interest' = [interest EXCEPT ![z] = left]
     /\ old_interest' = [old_interest EXCEPT ![z] = left]
     /\ present' = [present EXCEPT ![Server][z] = Told(@, old_interest[z], left)]
     /\ shown' = [shown EXCEPT ![z] = @ \ R]
     /\ wire' = [q \in Peers |-> IF q \notin peers THEN wire[q]
                                 ELSE IF q \in R THEN wire[q] \o <<Removed(z)>> \o syncs
                                 ELSE IF q \in Observing(z) THEN wire[q] \o syncs ELSE wire[q]]

\* Fault: the new interest is not synced to the others.
LeaveSilently(z, order) ==
  LET left == interest[z] \ Range(order)
  IN /\ interest' = [interest EXCEPT ![z] = left]
     /\ old_interest' = [old_interest EXCEPT ![z] = left]
     /\ present' = [present EXCEPT ![Server][z] = Told(@, old_interest[z], left)]
     /\ shown' = [shown EXCEPT ![z] = @ \ Range(order)]
     /\ wire' = [q \in Peers |-> IF q \in Range(order) \cap Observing(z)
                                   THEN Append(wire[q], Removed(z)) ELSE wire[q]]

\* remove_interest of one peer after the other: each that still observes is
\* synced what is left, then the peer is sent that the zone is gone.
Leave(z, order) ==
  LET R == Range(order)
      upTo(i) == interest[z] \ {order[j] : j \in 1 .. i}
      syncs == [i \in DOMAIN order |-> Synced(z, upTo(i))]
      left == interest[z] \ R
      place(q) == CHOOSE i \in DOMAIN order : order[i] = q
  IN /\ interest' = [interest EXCEPT ![z] = left]
     /\ old_interest' = [old_interest EXCEPT ![z] = left]
     /\ present' = [present EXCEPT ![Server][z] = Told(@, old_interest[z], left)]
     /\ shown' = [shown EXCEPT ![z] = @ \ R]
     /\ wire' = [q \in Peers |->
                   IF q \notin Observing(z) THEN wire[q]
                   ELSE IF q \in R THEN wire[q] \o (SubSeq(syncs, 1, place(q)) \o <<Removed(z)>>)
                   ELSE wire[q] \o syncs]

------------------------------------------------------------------------------
Init ==
  /\ peers = Peers
  /\ zones = {} /\ leaving = {} /\ freed = {}
  /\ interest = [z \in Zones |-> {}] /\ old_interest = [z \in Zones |-> {}]
  /\ shown = [z \in Zones |-> {}]
  /\ wire = [p \in Peers |-> <<>>]
  /\ copy = [p \in Peers |-> [z \in Zones |-> None]]
  /\ present = [p \in Peers \cup {Server} |-> [z \in Zones |-> {}]]

\* Fault: the interest of who has gone is kept.
DisconnectKept(p) ==
  /\ p \in peers
  /\ peers' = peers \ {p}
  /\ shown' = [z \in Zones |-> shown[z] \ {p}]
  /\ wire' = [wire EXCEPT ![p] = <<>>]
  /\ copy' = [copy EXCEPT ![p] = [z \in Zones |-> None]]
  /\ present' = [present EXCEPT ![p] = [z \in Zones |-> {}]]
  /\ UNCHANGED <<zones, leaving, freed, interest, old_interest>>

\* peer_disconnected: ReplicationService forgets the peer, then its interest in
\* every zone is cleared (a zone that is leaving is no longer looked at). The
\* client's side ends with its connection.
Disconnect(p) ==
  LET Z == {z \in zones : p \in interest[z]}
      left(z) == interest[z] \ {p}
      syncs(q) == [i \in DOMAIN SetToSeq({z \in Z : q \in shown[z]}) |->
                     LET z == SetToSeq({y \in Z : q \in shown[y]})[i] IN Synced(z, left(z))]
  IN /\ p \in peers
     /\ peers' = peers \ {p}
     /\ interest' = [z \in Zones |-> IF z \in Z THEN left(z) ELSE interest[z]]
     /\ old_interest' = [z \in Zones |-> IF z \in Z THEN left(z) ELSE old_interest[z]]
     /\ shown' = [z \in Zones |-> shown[z] \ {p}]
     /\ wire' = [q \in Peers |-> IF q = p THEN <<>> ELSE IF q \in peers THEN wire[q] \o syncs(q) ELSE wire[q]]
     /\ copy' = [copy EXCEPT ![p] = [z \in Zones |-> None]]
     /\ present' = [q \in Peers \cup {Server} |->
                      [z \in Zones |-> IF q = p THEN {}
                                       ELSE IF q = Server /\ z \in Z
                                         THEN Told(present[Server][z], old_interest[z], left(z))
                                       ELSE present[q][z]]]
     /\ UNCHANGED <<zones, leaving, freed>>

\* add_zone: nobody is shown the zone yet.
add_zone(z) ==
  /\ z \notin zones \cup leaving \cup freed
  /\ zones' = zones \cup {z}
  /\ UNCHANGED <<peers, leaving, freed, interest, old_interest, shown, wire, copy, present>>

\* add_interest: those who observe are synced, then the peer is shown the zone
\* and is sent it with the values it has now. The game gives interest to peers
\* that are connected.
add_interest(p, z) ==
  LET now == interest[z] \cup {p}
  IN /\ p \in peers /\ z \in zones /\ p \notin interest[z] /\ Room
     /\ interest' = [interest EXCEPT ![z] = now]
     /\ old_interest' = [old_interest EXCEPT ![z] = now]
     /\ present' = [present EXCEPT ![Server][z] = Told(@, old_interest[z], now)]
     /\ shown' = [shown EXCEPT ![z] = @ \cup {p}]
     /\ wire' = [q \in Peers |->
                   IF q \in Observing(z) THEN Append(wire[q], Synced(z, now))
                   ELSE IF q = p THEN Append(wire[q], Added(z, now)) ELSE wire[q]]
     /\ UNCHANGED <<peers, zones, leaving, freed, copy>>

remove_interest(p, z) ==
  /\ z \in zones /\ p \in interest[z] /\ Room
  /\ Leave(z, <<p>>)
  /\ UNCHANGED <<peers, zones, leaving, freed, copy>>

\* remove_zone: the loop goes over the dictionary that remove_interest erases
\* from, for which the engine promises nothing: after any step it may be over.
remove_zone(z) ==
  /\ z \in zones /\ Room
  /\ \E R \in SUBSET interest[z] :
       /\ interest[z] # {} => R # {}
       /\ Leave(z, SetToSeq(R))
  /\ zones' = zones \ {z}
  /\ leaving' = leaving \cup {z}
  /\ UNCHANGED <<peers, freed, copy>>

\* Fault: a zone that is freed is not taken from those who still see it.
FrameEndsQuietly ==
  /\ leaving # {}
  /\ leaving' = {}
  /\ freed' = freed \cup leaving
  /\ shown' = [z \in Zones |-> IF z \in leaving THEN {} ELSE shown[z]]
  /\ UNCHANGED <<peers, zones, interest, old_interest, wire, copy, present>>

\* The zones in the queue are freed: ReplicationService takes them from those
\* who still see them (_node_tree_exiting).
FrameEnds ==
  LET ends(q) == SetToSeq({z \in leaving : q \in Observing(z)})
  IN /\ leaving # {}
     /\ leaving' = {}
     /\ freed' = freed \cup leaving
     /\ shown' = [z \in Zones |-> IF z \in leaving THEN {} ELSE shown[z]]
     /\ wire' = [q \in Peers |-> wire[q] \o [i \in DOMAIN ends(q) |-> Removed(ends(q)[i])]]
     /\ UNCHANGED <<peers, zones, interest, old_interest, copy, present>>

\* update_visibility at the client: the values are set before the node is ready,
\* so that its setter tells nobody of them and leaves old_interest empty.
HearAdded(p, z, ps) ==
  /\ copy' = [copy EXCEPT ![p][z] = [interest |-> ps, old_interest |-> {}]]
  /\ present' = [present EXCEPT ![p][z] = ps]

\* Fault: the setter does not remember whom it has told of.
HearSyncedAgain(p, z, ps) ==
  IF copy[p][z] = None THEN UNCHANGED <<copy, present>>
  ELSE /\ copy' = [copy EXCEPT ![p][z] = [interest |-> ps, old_interest |-> copy[p][z].interest \cup ps]]
       /\ present' = [present EXCEPT ![p][z] = Told(@, copy[p][z].old_interest, ps)]

\* _receive_properties and the setter of ClientZone.interest.
HearSynced(p, z, ps) ==
  IF copy[p][z] = None THEN UNCHANGED <<copy, present>>
  ELSE /\ copy' = [copy EXCEPT ![p][z] = [interest |-> ps, old_interest |-> ps]]
       /\ present' = [present EXCEPT ![p][z] = Told(@, copy[p][z].old_interest, ps)]

\* The ClientZone is taken out and freed. (It keeps its identifier to the end of
\* the frame; what follows from that is in NodeIds.)
HearRemoved(p, z) ==
  /\ copy' = [copy EXCEPT ![p][z] = None]
  /\ present' = [present EXCEPT ![p][z] = {}]

Hear(p) ==
  /\ p \in peers /\ wire[p] # <<>>
  /\ wire' = [wire EXCEPT ![p] = Tail(@)]
  /\ LET msg == Head(wire[p])
     IN \/ msg.type = "add" /\ HearAdded(p, msg.zone, msg.interest)
        \/ msg.type = "sync" /\ HearSynced(p, msg.zone, msg.interest)
        \/ msg.type = "remove" /\ HearRemoved(p, msg.zone)
  /\ UNCHANGED <<peers, zones, leaving, freed, interest, old_interest, shown>>

Next ==
  \/ \E p \in Peers : Disconnect(p) \/ Hear(p)
  \/ \E z \in Zones : add_zone(z) \/ remove_zone(z)
  \/ \E p \in Peers, z \in Zones : add_interest(p, z) \/ remove_interest(p, z)
  \/ FrameEnds

\* Frames end, and what is sent on a reliable channel arrives while the peer is
\* connected.
Fairness == WF_vars(FrameEnds) /\ \A p \in Peers : WF_vars(Hear(p))

Spec == Init /\ [][Next]_vars /\ Fairness

------------------------------------------------------------------------------
(* Properties. *)

Messages ==
  [type : {"add", "sync"}, zone : Zones, interest : SUBSET Peers] \cup [type : {"remove"}, zone : Zones]
Copies == [interest : SUBSET Peers, old_interest : SUBSET Peers] \cup {None}

TypeOK ==
  /\ peers \subseteq Peers
  /\ zones \subseteq Zones /\ leaving \subseteq Zones /\ freed \subseteq Zones
  /\ interest \in [Zones -> SUBSET Peers] /\ old_interest \in [Zones -> SUBSET Peers]
  /\ shown \in [Zones -> SUBSET Peers]
  /\ wire \in [Peers -> Seq(Messages)]
  /\ copy \in [Peers -> [Zones -> Copies]]
  /\ present \in [Peers \cup {Server} -> [Zones -> SUBSET Peers]]

\* Who has heard all that was sent has the zones it is shown, no others, and
\* reads in each who is in it ("so they know who else is present",
\* zone_service.gd:8).
ViewsAgree ==
  \A p \in peers, z \in Zones : wire[p] = <<>> =>
    IF p \in shown[z] THEN copy[p][z] # None /\ (z \in zones => copy[p][z].interest = interest[z])
    ELSE copy[p][z] = None

\* A sync, or a removal, comes to a client that has the zone, and a zone to one
\* that has not: none of them is lost at the client, whatever calls, frames and
\* disconnections came between (_receive_properties, update_visibility).
NothingIsDropped ==
  \A p \in peers : wire[p] # <<>> =>
    LET msg == Head(wire[p]) IN (msg.type = "add") <=> (copy[p][msg.zone] = None)

\* A peer that has gone has no interest left in any zone (clear_peer_interest),
\* and a zone is shown to exactly those that have interest in it.
InterestIsSight ==
  \A z \in zones : interest[z] \subseteq peers /\ shown[z] = interest[z]

\* At the server the signals interest_added and interest_removed tell of every
\* change.
SignalsAreExact == \A z \in zones : present[Server][z] = interest[z]

\* At a client they tell of everybody who is in the zone.
JoinsAreTold ==
  \A p \in Peers, z \in Zones : copy[p][z] # None => copy[p][z].interest \subseteq present[p][z]

\* "Emitted when a peer has lost interest with this Zone." (client_zone.gd:8)
LeavesAreTold ==
  \A p \in Peers, z \in Zones : copy[p][z] # None => present[p][z] \subseteq copy[p][z].interest

\* A zone that is removed goes from every client in the end, also when the loop
\* over its peers was cut short.
RemovedZonesGo ==
  \A p \in Peers, z \in Zones : (z \in leaving \cup freed) ~> (copy[p][z] = None)
==============================================================================
