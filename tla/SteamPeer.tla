------------------------------ MODULE SteamPeer ------------------------------
(* The Steam transport (godaemon-cpp): the SteamMultiplayerPeer of a server,   *)
(* the ones of its clients, the SteamConnection each side keeps per connection *)
(* and the handshake that tells a peer id over a fresh connection.             *)
(*                                                                             *)
(* A client instance is one SteamMultiplayerPeer: client_root.gd makes a new   *)
(* one per attempt, which draws a new unique id and opens one connection.      *)
(* Instance, connection and peer id are therefore named by the same k \in      *)
(* Insts; a process that crashes and restarts is another instance of the same  *)
(* Steam user. Steam itself (the state of a connection's two ends, callbacks,  *)
(* messages on their way) is external and behaves as the code assumes.         *)
EXTENDS Naturals, Sequences, FiniteSets, Functions, FiniteSetsExt

CONSTANTS
  Insts,       \* client instances
  Users,       \* Steam users
  MaxSends,    \* bound: reliable game packets per instance and direction
  MaxPending,  \* bound: packets that wait in a pending_retry_packets
  SendsFail,   \* instances to and from which Steam may refuse a packet
  LinksBreak   \* instances whose connection may break while both ends live

Nobody == "nobody"              \* uint32_t(-1)
Up == "up"                      \* to the server
Down == "down"                  \* to the client
Dirs == {Up, Down}

ASSUME InstsFinite == IsFiniteSet(Insts)
ASSUME UsersApart == Users \cap Insts = {} /\ Nobody \notin Users \cup Insts
ASSUME BoundsOK == MaxSends \in [Insts -> [Dirs -> Nat]] /\ MaxPending \in Nat

Client == "client"
Server == "server"
Ends == {Client, Server}
Other(e) == IF e = Client THEN Server ELSE Client
Sender(d) == IF d = Up THEN Client ELSE Server

\* The setup packet is sent with MultiplayerPeer::TRANSFER_MODE_RELIABLE (2),
\* which lacks the bit of k_nSteamNetworkingSend_Reliable (8).
Setup == [type |-> "setup", n |-> 0, rel |-> FALSE]
Data(n) == [type |-> "data", n |-> n, rel |-> TRUE]
Unreliable == [type |-> "data", n |-> 0, rel |-> FALSE]
Packets(k, d) == {Setup, Unreliable} \cup {Data(n) : n \in 1 .. MaxSends[k][d]}
NoAir == [data |-> <<>>, setup |-> FALSE]

VARIABLES
  \* Steam
  end,      \* end[k][e]: the state of an end of connection k
  air,      \* air[k][d]: the reliable game packets in order and whether a setup
            \* packet is on its way; unreliable game packets change nothing there
  calls,    \* status callbacks the server's process has not run
  ccalls,   \* ccalls[k]: those of the process of instance k
  \* client instances
  owner,    \* owner[k]: the Steam id the server sees behind k
  status,   \* status[k]: connection_status, "new" before and "gone" after
  knows,    \* knows[k]: connections_by_steamId64 has the server, and if so
            \* with peer id 1: "nothing", "entry" or "peer"
  \* the server
  host,     \* whether it is active
  conns,    \* connections_by_steamId64: Steam id to connection
  pid,      \* pid[k]: peer_id of the SteamConnection of k
  peers,    \* peerId_to_steamId: peer id to connection
  inbox,    \* incoming_packets: the sender's Steam id of each, and its peer id then
  reading,  \* SceneMultiplayer reads incoming_packets and polls again only after the last
  \* both
  pend,     \* pend[k][d]: pending_retry_packets
  sent,     \* sent[k][d]: reliable game packets put so far
  \* what the signals and packets said, which nothing reads
  known,    \* peers the server has announced and not taken back
  got,      \* got[k][d]: game packets received by the server for the application as
            \* coming from peer k (up) or by instance k (down), in the order in which
            \* they are read
  lost      \* instances one of whose setup packets is lost

steamVars == <<end, air, calls, ccalls>>
clientVars == <<owner, status, knows>>
serverVars == <<host, conns, pid, peers, inbox, reading>>
vars == <<steamVars, clientVars, serverVars, pend, sent, known, got, lost>>

Loops == {k \in Insts : owner[k] = k}   \* made by create_loopback_client
Live(s) == s \in {"connecting", "finding", "connected"}
Readable(s) == s \in {"connected", "broken"}

TypeOK ==
  /\ end \in [Insts -> [Ends -> {"none", "connecting", "finding", "connected",
                                 "broken", "closed"}]]
  /\ air \in [Insts -> [Dirs -> [data : Seq(Nat \ {0}), setup : BOOLEAN]]]
  /\ calls \in Seq([k : Insts, ev : {"arrived", "connected", "ended"},
                    old : {"none", "connecting", "finding", "connected"}])
  /\ ccalls \in [Insts -> Seq([ev : {"connected", "ended"},
                               old : {"connecting", "connected"}])]
  /\ owner \in [Insts -> Users \cup Insts \cup {Nobody}]
  /\ status \in [Insts -> {"new", "connecting", "connected", "disconnected", "gone"}]
  /\ knows \in [Insts -> {"nothing", "entry", "peer"}]
  /\ host \in BOOLEAN
  /\ \A x \in DOMAIN conns : x \in Users \cup Insts /\ conns[x] \in Insts
  /\ pid \in [Insts -> Insts \cup {Nobody}]
  /\ \A p \in DOMAIN peers : p \in Insts /\ peers[p] \in Insts
  /\ \A k \in Insts, d \in Dirs :
       /\ pend[k][d] \in Seq(Packets(k, d))
       /\ sent[k][d] \in 0 .. MaxSends[k][d]
  /\ inbox \in Seq([from : Users \cup Insts, peer : Insts]) /\ reading \in BOOLEAN
  /\ known \subseteq Insts
  /\ got \in [Insts -> [Dirs -> Seq([k : Insts, n : Nat])]]
  /\ lost \subseteq Insts

\* create_host has run: it is active and its status is CONNECTED at once.
Init ==
  /\ end = [k \in Insts |-> [e \in Ends |-> "none"]]
  /\ air = [k \in Insts |-> [d \in Dirs |-> NoAir]]
  /\ calls = <<>>
  /\ ccalls = [k \in Insts |-> <<>>]
  /\ owner = [k \in Insts |-> Nobody]
  /\ status = [k \in Insts |-> "new"]
  /\ knows = [k \in Insts |-> "nothing"]
  /\ host = TRUE
  /\ conns = [x \in {} |-> Nobody]
  /\ pid = [k \in Insts |-> Nobody]
  /\ peers = [p \in {} |-> Nobody]
  /\ inbox = <<>> /\ reading = FALSE
  /\ pend = [k \in Insts |-> [d \in Dirs |-> <<>>]]
  /\ sent = [k \in Insts |-> [d \in Dirs |-> 0]]
  /\ known = {}
  /\ got = [k \in Insts |-> [d \in Dirs |-> <<>>]]
  /\ lost = {}

------------------------------------------------------------------------------
(* SteamConnection: sending. *)

\* The answers SendMessageToConnection may give to the packets of q.
Answers(k, d, q) ==
  IF end[k][Sender(d)] # "connected" THEN {[i \in DOMAIN q |-> FALSE]}
  ELSE IF k \in SendsFail THEN [DOMAIN q -> BOOLEAN]
  ELSE {[i \in DOMAIN q |-> TRUE]}

\* _send_pending stops at the first reliable packet that is refused and keeps
\* it and all behind it; an unreliable one that is refused is dropped.
Stop(q, ok) ==
  LET refused == {i \in DOMAIN q : q[i].rel /\ ~ok[i]}
  IN IF refused = {} THEN Len(q) + 1 ELSE Min(refused)

\* Fault: the last packet that is handed over stays in the list.
KeptTwice(q, ok) == SubSeq(q, Max({1, Stop(q, ok) - 1}), Len(q))

Kept(q, ok) == SubSeq(q, Stop(q, ok), Len(q))

\* The numbers of the reliable packets of q.
Reliable(q) ==
  LET upTo[i \in 0 .. Len(q)] ==
        IF i = 0 THEN <<>>
        ELSE IF q[i].rel THEN Append(upTo[i - 1], q[i].n) ELSE upTo[i - 1]
  IN upTo[Len(q)]

Handed(q, ok) == Reliable(SubSeq(q, 1, Stop(q, ok) - 1))

Tries(q, ok, packet, answer) ==
  \E i \in DOMAIN q : i < Stop(q, ok) /\ q[i] = packet /\ ok[i] = answer

\* send: the packet joins the pending ones, then _send_pending runs, which has
\* no other caller. air1: what is on its way by then.
Send(k, d, packet, air1) ==
  LET q == Append(pend[k][d], packet)
  IN \E ok \in Answers(k, d, q) :
       /\ pend' = [pend EXCEPT ![k][d] = Kept(q, ok)]
       /\ air' = [air1 EXCEPT ![k][d] = [data |-> @.data \o Handed(q, ok),
                                         setup |-> @.setup \/ Tries(q, ok, Setup, TRUE)]]
       /\ lost' = IF Tries(q, ok, Setup, FALSE) THEN lost \cup {k} ELSE lost

------------------------------------------------------------------------------
(* The server's handlers. *)

\* get_peer_id_from_steam64
PeerIdOf(u) == IF u \in DOMAIN conns THEN pid[conns[u]] ELSE Nobody

Without(f, x) == Restrict(f, DOMAIN f \ {x})
With(f, x, v) == [y \in DOMAIN f \cup {x} |-> IF y = x THEN v ELSE f[y]]

\* A SteamConnection no map refers to is destroyed: its destructor closes the
\* handle and drops the pending packets (~SteamConnection).
Released(c1, p1) ==
  (Range(conns) \cup Range(peers)) \ (Range(c1) \cup Range(p1))

\* The server's ends of S are closed: Steam drops what was on its way to them.
CloseServer(S) ==
  LET shut == {k \in S : end[k][Server] # "none"}
  IN /\ end' = [k \in Insts |-> IF k \in shut THEN [end[k] EXCEPT ![Server] = "closed"] ELSE end[k]]
     /\ air' = [k \in Insts |-> IF k \in shut THEN [air[k] EXCEPT ![Up] = NoAir] ELSE air[k]]
Destroy(S) == pend' = [k \in Insts |-> IF k \in S THEN [pend[k] EXCEPT ![Down] = <<>>] ELSE pend[k]]

\* Fault: the handle of a broken connection is taken for a closed one.
DisconnectPeerUp(p, extra) ==
  IF p \in DOMAIN peers /\ end[peers[p]][Server] = "connected"
    THEN LET conns1 == Without(conns, owner[peers[p]])
             peers1 == Without(peers, p)
         IN /\ conns' = conns1
            /\ peers' = peers1
            /\ known' = known \ {p}
            /\ CloseServer({peers[p]} \cup extra \cup Released(conns1, peers1))
            /\ Destroy(Released(conns1, peers1))
    ELSE CloseServer(extra) /\ UNCHANGED <<conns, peers, known, pend>>

\* Fault: the peer id stays in the map.
DisconnectPeerKept(p, extra) ==
  IF p \in DOMAIN peers /\ end[peers[p]][Server] # "closed"
    THEN LET conns1 == Without(conns, owner[peers[p]])
         IN /\ conns' = conns1
            /\ known' = known \ {p}
            /\ CloseServer({peers[p]} \cup extra \cup Released(conns1, peers))
            /\ Destroy(Released(conns1, peers))
            /\ UNCHANGED peers
    ELSE CloseServer(extra) /\ UNCHANGED <<conns, peers, known, pend>>

\* _disconnect_peer of a server: the connection of peer p is closed and taken
\* out of both maps, and peer_disconnected is emitted. Nothing happens to a
\* peer it does not know or whose handle is closed already. extra: a handle
\* the caller closes.
DisconnectPeer(p, extra) ==
  IF p \in DOMAIN peers /\ end[peers[p]][Server] # "closed"
    THEN LET c == peers[p]
             conns1 == Without(conns, owner[c])
             peers1 == Without(peers, p)
         IN /\ conns' = conns1
            /\ peers' = peers1
            /\ known' = known \ {p}
            /\ CloseServer({c} \cup extra \cup Released(conns1, peers1))
            /\ Destroy(Released(conns1, peers1))
    ELSE CloseServer(extra) /\ UNCHANGED <<conns, peers, known, pend>>

\* network_connection_status_changed: a connection has arrived and is accepted.
ServerArrived(c) ==
  /\ c.ev = "arrived"
  /\ end' = [end EXCEPT ![c.k][Server] = IF @ = "connecting" THEN "finding" ELSE "closed"]
  /\ UNCHANGED <<air, pend, conns, pid, peers, known>>

\* Fault: the entry of the Steam user is reused, with the peer id it had.
ServerConnectedReusing(c) ==
  /\ c.ev = "connected"
  /\ pid' = [pid EXCEPT ![c.k] = PeerIdOf(owner[c.k])]
  /\ conns' = With(conns, owner[c.k], c.k)
  /\ UNCHANGED <<end, air, pend, peers, known>>

\* The connection is up: add_connection overwrites the entry its Steam user had.
ServerConnected(c) ==
  /\ c.ev = "connected"
  /\ LET conns1 == With(conns, owner[c.k], c.k)
     IN /\ conns' = conns1
        /\ CloseServer(Released(conns1, peers))
        /\ Destroy(Released(conns1, peers))
  /\ pid' = [pid EXCEPT ![c.k] = Nobody]
  /\ UNCHANGED <<peers, known>>

\* Closed by the peer or by a problem: what is disconnected is the peer of the
\* entry of the Steam user, if it has told its peer id.
ServerEnded(c) ==
  /\ c.ev = "ended" /\ c.old \in {"connecting", "connected"}
  /\ PeerIdOf(owner[c.k]) # Nobody
  /\ DisconnectPeer(PeerIdOf(owner[c.k]), {c.k})
  /\ UNCHANGED pid

ServerIgnores(c) ==
  \/ c.k \in Loops
  \/ /\ c.ev = "ended"
     /\ c.old \notin {"connecting", "connected"} \/ PeerIdOf(owner[c.k]) = Nobody

\* Steam's callbacks run in no poll.
ServerCallback ==
  /\ host /\ calls # <<>> /\ inbox = <<>>
  /\ LET c == Head(calls) IN
     \/ /\ c.k \notin Loops
        /\ ServerArrived(c) \/ ServerConnected(c) \/ ServerEnded(c)
     \/ ServerIgnores(c) /\ UNCHANGED <<end, air, pend, conns, pid, peers, known>>
  /\ calls' = Tail(calls)
  /\ UNCHANGED <<ccalls, clientVars, host, inbox, reading, sent, got, lost>>

\* The packets of connection k in direction d that the receiver may take next.
Waiting(k, d) ==
  (IF air[k][d].setup THEN {Setup} ELSE {}) \cup
  (IF air[k][d].data # <<>> THEN {Data(Head(air[k][d].data))} ELSE {})
Taken(k, d, m) ==
  [air EXCEPT ![k][d] = IF m = Setup THEN [data |-> @.data, setup |-> FALSE]
                                     ELSE [data |-> Tail(@.data), setup |-> @.setup]]
Deliver(p, d, k, m) ==
  IF m.rel THEN [got EXCEPT ![p][d] = Append(@, [k |-> k, n |-> m.n])] ELSE got

\* _process_message: the packet waits in incoming_packets, under the Steam id of
\* its sender.
ServerMessage(k, e, m) ==
  /\ pid[e] # Nobody
  /\ got' = Deliver(pid[e], Up, k, m)
  /\ air' = Taken(k, Up, m)
  /\ inbox' = Append(inbox, [from |-> owner[k], peer |-> pid[e]])
  /\ UNCHANGED <<pid, peers, known, pend, lost>>

\* Fault: the server does not tell its own id.
ServerPingSilent(k, e, m) ==
  /\ pid[e] = Nobody
  /\ air' = Taken(k, Up, m)
  /\ IF m.type = "setup"
       THEN /\ pid' = [pid EXCEPT ![e] = k]
            /\ peers' = With(peers, k, e)
            /\ known' = known \cup {k}
       ELSE UNCHANGED <<pid, peers, known>>
  /\ UNCHANGED <<got, inbox, pend, lost>>

\* Fault: the peer is announced only when it is new to the map of peers.
ServerPingQuiet(k, e, m) ==
  /\ pid[e] = Nobody
  /\ pid' = [pid EXCEPT ![e] = k]
  /\ peers' = With(peers, k, e)
  /\ Send(e, Down, Setup, Taken(k, Up, m))
  /\ known' = IF k \in DOMAIN peers' THEN known ELSE known \cup {k}
  /\ UNCHANGED <<got, inbox>>

\* _process_ping: the peer id is stored (set_steam_id_peer), answered with the
\* server's own and announced. Anything of another size is dropped.
ServerPing(k, e, m) ==
  /\ pid[e] = Nobody
  /\ IF m.type = "setup"
       THEN /\ pid' = [pid EXCEPT ![e] = k]
            /\ peers' = With(peers, k, e)
            /\ Send(e, Down, Setup, Taken(k, Up, m))
            /\ known' = known \cup {k}
       ELSE /\ air' = Taken(k, Up, m)
            /\ UNCHANGED <<pid, peers, known, pend, lost>>
  /\ UNCHANGED <<got, inbox>>

\* _poll, one message of one connection of the map.
ServerPoll ==
  /\ host /\ ~ reading
  /\ \E x \in DOMAIN conns : LET k == conns[x] IN
       /\ Readable(end[k][Server])
       /\ \E m \in Waiting(k, Up) :
            ServerMessage(k, conns[owner[k]], m) \/ ServerPing(k, conns[owner[k]], m)
  /\ UNCHANGED <<end, calls, ccalls, clientVars, host, conns, reading, sent>>

\* What _get_packet_peer needs: the Steam id of the next packet is in the map.
HasSender == inbox # <<>> /\ Head(inbox).from \in DOMAIN conns

\* SceneMultiplayer reads a packet: it is said to come from the peer id that the
\* entry of its Steam id has by now (_get_packet_peer, _get_packet).  What its
\* handler does comes before the next.
ServerRead ==
  /\ host /\ HasSender
  /\ inbox' = Tail(inbox)
  /\ reading' = (Tail(inbox) # <<>>)
  /\ UNCHANGED <<steamVars, clientVars, host, conns, pid, peers, pend, sent, known, got, lost>>

\* put_packet to an announced peer (SceneMultiplayer sends to no other).
ServerSend(p, packet) ==
  /\ host /\ p \in DOMAIN peers
  /\ Len(pend[peers[p]][Down]) < MaxPending
  /\ packet.rel => packet = Data(sent[p][Down] + 1) /\ sent[p][Down] < MaxSends[p][Down]
  /\ Send(peers[p], Down, packet, air)
  /\ sent' = IF packet.rel THEN [sent EXCEPT ![p][Down] = @ + 1] ELSE sent
  /\ UNCHANGED <<end, calls, ccalls, clientVars, serverVars, known, got>>

\* SceneMultiplayer drops a peer whose authentication takes too long.
ServerKick(p) ==
  /\ host /\ p \in known
  /\ DisconnectPeer(p, {})
  /\ UNCHANGED <<calls, ccalls, clientVars, host, pid, inbox, reading, sent, got, lost>>

\* The server has no connection any more, and no listening socket to accept one.
\* What still waits in incoming_packets comes from no peer any more.
ServerGone ==
  /\ host /\ host' = FALSE
  /\ CloseServer(Insts) /\ Destroy(Insts)
  /\ calls' = <<>>
  /\ conns' = [x \in {} |-> Nobody]
  /\ peers' = [p \in {} |-> Nobody]
  /\ inbox' = <<>> /\ reading' = FALSE
  /\ known' = {}
  /\ UNCHANGED <<ccalls, clientVars, pid, sent, got, lost>>

\* _close of the server: every connection, then the listening socket and with
\* it every connection accepted on it.
ServerClose == ServerGone

\* The next packet is one of a peer that was disconnected after it was received,
\* by a handler of the same poll: _get_packet_peer looks up a Steam id that is not
\* in the map, and the process ends.  (Its loopback clients end with it; here they
\* may still take what was sent to them.)
ServerCrash == inbox # <<>> /\ ~ HasSender /\ ServerGone

------------------------------------------------------------------------------
(* The clients' handlers. *)

\* The client's end is closed, with its SteamConnection and what it still held.
CloseClient(k) ==
  /\ end' = [end EXCEPT ![k][Client] = "closed"]
  /\ air' = [air EXCEPT ![k][Down] = NoAir]
  /\ pend' = [pend EXCEPT ![k][Up] = <<>>]
  /\ knows' = [knows EXCEPT ![k] = "nothing"]

\* create_client: ConnectP2P opens the connection.
CreateClient(k, u) ==
  /\ status[k] = "new"
  /\ status' = [status EXCEPT ![k] = "connecting"]
  /\ owner' = [owner EXCEPT ![k] = u]
  /\ end' = [end EXCEPT ![k][Client] = "connecting"]
  /\ UNCHANGED <<air, calls, ccalls, knows, serverVars, pend, sent, known, got, lost>>

\* create_loopback_client: a pair of connected ends, an entry on each side and
\* the client's peer id on its way. The host numbers the pairs.
CreateLoopbackClient(k) ==
  /\ status[k] = "new" /\ host
  /\ status' = [status EXCEPT ![k] = "connected"]
  /\ owner' = [owner EXCEPT ![k] = k]
  /\ end' = [end EXCEPT ![k] = [e \in Ends |-> "connected"]]
  /\ knows' = [knows EXCEPT ![k] = "entry"]
  /\ conns' = With(conns, k, k)
  /\ air' = [air EXCEPT ![k][Up].setup = TRUE]
  /\ UNCHANGED <<calls, ccalls, host, pid, peers, inbox, reading, pend, sent, known, got, lost>>

\* network_connection_status_changed: the connection is up; the client adds
\* the server and tells it the id it has drawn.
ClientConnected(k, c) ==
  /\ c.ev = "connected" /\ status[k] # "connected"
  /\ status' = [status EXCEPT ![k] = "connected"]
  /\ knows' = [knows EXCEPT ![k] = "entry"]
  /\ Send(k, Up, Setup, air)
  /\ UNCHANGED end

\* Closed by the server or by a problem: disconnect_peer(1, true) if the server
\* has told its id, close() in any case, which does nothing while connecting.
\* (An end that still looks for a route is one that is connecting: whether the
\* handler skips its end or close() does nothing, the client does not hear.)
ClientEnded(k, c) ==
  /\ c.ev = "ended" /\ status[k] = "connected"
  /\ status' = [status EXCEPT ![k] = "disconnected"]
  /\ CloseClient(k)
  /\ UNCHANGED lost

ClientIgnores(k, c) ==
  \/ k \in Loops
  \/ c.ev = "connected" /\ status[k] = "connected"
  \/ c.ev = "ended" /\ status[k] # "connected"

ClientCallback(k) ==
  /\ status[k] \in {"connecting", "connected", "disconnected"}
  /\ ccalls[k] # <<>>
  /\ LET c == Head(ccalls[k]) IN
     \/ k \notin Loops /\ (ClientConnected(k, c) \/ ClientEnded(k, c))
     \/ ClientIgnores(k, c) /\ UNCHANGED <<status, knows, end, air, pend, lost>>
  /\ ccalls' = [ccalls EXCEPT ![k] = Tail(@)]
  /\ UNCHANGED <<calls, owner, serverVars, sent, known, got>>

\* _poll of a client. What comes before the server's id is taken for a ping,
\* and dropped when it has not the size of one.
ClientPoll(k) ==
  /\ status[k] = "connected" /\ knows[k] # "nothing" /\ Readable(end[k][Client])
  /\ \E m \in Waiting(k, Down) :
       /\ air' = Taken(k, Down, m)
       /\ got' = IF knows[k] = "peer" THEN Deliver(k, Down, k, m) ELSE got
       /\ knows' = IF knows[k] = "entry" /\ m.type = "setup"
                     THEN [knows EXCEPT ![k] = "peer"] ELSE knows
  /\ UNCHANGED <<end, calls, ccalls, owner, status, serverVars, pend, sent, known, lost>>

ClientSend(k, packet) ==
  /\ status[k] = "connected" /\ knows[k] = "peer"
  /\ Len(pend[k][Up]) < MaxPending
  /\ packet.rel => packet = Data(sent[k][Up] + 1) /\ sent[k][Up] < MaxSends[k][Up]
  /\ Send(k, Up, packet, air)
  /\ sent' = IF packet.rel THEN [sent EXCEPT ![k][Up] = @ + 1] ELSE sent
  /\ UNCHANGED <<end, calls, ccalls, clientVars, serverVars, known, got>>

\* SceneMultiplayer gives up authenticating the server: disconnect_peer(1),
\* which is not forced, so that the status stays CONNECTED.
ClientKick(k) ==
  /\ status[k] = "connected" /\ knows[k] = "peer" /\ end[k][Client] # "closed"
  /\ CloseClient(k)
  /\ UNCHANGED <<calls, ccalls, owner, status, serverVars, sent, known, got, lost>>

\* close() and the end of the object, which hears of no callback any more. A
\* client that is still connecting closes nothing, as no SteamConnection holds
\* its handle. A loopback client has the host disconnect it.
ClientClose(k) ==
  /\ status[k] \in {"connecting", "connected", "disconnected"}
  /\ status' = [status EXCEPT ![k] = "gone"]
  /\ ccalls' = [ccalls EXCEPT ![k] = <<>>]
  /\ IF status[k] = "connecting" THEN UNCHANGED <<end, air, pend, knows>>
     ELSE IF k \in Loops /\ status[k] = "connected" /\ k \in DOMAIN peers
       THEN /\ end' = [end EXCEPT ![k] = [e \in Ends |-> "closed"]]
            /\ air' = [air EXCEPT ![k] = [d \in Dirs |-> NoAir]]
            /\ pend' = [pend EXCEPT ![k] = [d \in Dirs |-> <<>>]]
            /\ knows' = [knows EXCEPT ![k] = "nothing"]
     ELSE CloseClient(k)
  /\ IF k \in Loops /\ status[k] = "connected" /\ k \in DOMAIN peers
       THEN /\ conns' = Without(conns, owner[k])
            /\ peers' = Without(peers, k)
            /\ known' = known \ {k}
       ELSE UNCHANGED <<conns, peers, known>>
  /\ UNCHANGED <<calls, owner, host, pid, inbox, reading, sent, got, lost>>

\* The process of the client ends without a word.
ClientCrash(k) ==
  /\ status[k] \in {"connecting", "connected"} /\ k \notin Loops
  /\ status' = [status EXCEPT ![k] = "gone"]
  /\ ccalls' = [ccalls EXCEPT ![k] = <<>>]
  /\ CloseClient(k)
  /\ UNCHANGED <<calls, owner, serverVars, sent, known, got, lost>>

------------------------------------------------------------------------------
(* Steam. *)

steamUnchanged == <<clientVars, serverVars, pend, sent, known, got>>
Post(k, e, ev) ==
  /\ calls' = IF e = Server /\ host
                THEN Append(calls, [k |-> k, ev |-> ev, old |-> end[k][Server]]) ELSE calls
  /\ ccalls' = IF e = Client /\ status[k] # "gone"
                 THEN [ccalls EXCEPT ![k] = Append(@, [ev |-> ev, old |-> end[k][Client]])]
                 ELSE ccalls

\* The attempt reaches the listening socket.
Arrives(k) ==
  /\ host /\ end[k][Client] = "connecting" /\ end[k][Server] = "none"
  /\ end' = [end EXCEPT ![k][Server] = "connecting"]
  /\ Post(k, Server, "arrived")
  /\ UNCHANGED <<air, lost, steamUnchanged>>

\* An end is up once the server has accepted.
Connects(k, e) ==
  /\ end[k][Server] \in {"finding", "connected"} /\ Live(end[k][Client])
  /\ end[k][e] # "connected"
  /\ end' = [end EXCEPT ![k][e] = "connected"]
  /\ Post(k, e, "connected")
  /\ UNCHANGED <<air, lost, steamUnchanged>>

\* An end notices that the other is closed or gone, or times out.
Breaks(k, e) ==
  /\ Live(end[k][e])
  /\ k \in LinksBreak \/ end[k][Other(e)] \in {"broken", "closed"} \/ ~host
  /\ end' = [end EXCEPT ![k][e] = "broken"]
  /\ Post(k, e, "ended")
  /\ UNCHANGED <<air, lost, steamUnchanged>>

\* A setup packet is lost.
Loses(k, d) ==
  /\ air[k][d].setup
  /\ air' = [air EXCEPT ![k][d].setup = FALSE]
  /\ lost' = lost \cup {k}
  /\ UNCHANGED <<end, calls, ccalls, steamUnchanged>>

------------------------------------------------------------------------------
Next ==
  \/ ServerCallback \/ ServerPoll \/ ServerRead \/ ServerClose \/ ServerCrash
  \/ \E p \in Insts :
       \/ ServerKick(p)
       \/ ServerSend(p, Unreliable) \/ ServerSend(p, Data(sent[p][Down] + 1))
  \/ \E k \in Insts :
       \/ \E u \in Users : CreateClient(k, u)
       \/ CreateLoopbackClient(k)
       \/ ClientCallback(k) \/ ClientPoll(k)
       \/ ClientSend(k, Unreliable) \/ ClientSend(k, Data(sent[k][Up] + 1))
       \/ ClientKick(k) \/ ClientClose(k) \/ ClientCrash(k)
       \/ Arrives(k)
       \/ \E e \in Ends : Connects(k, e) \/ Breaks(k, e)
       \/ \E d \in Dirs : Loses(k, d)

\* An end whose other end is closed notices.
Notices(k, e) == Breaks(k, e) /\ end[k][Other(e)] \in {"broken", "closed"}
Follows(k, e) == Connects(k, e) /\ end[k][Other(e)] = "connected"

\* Every process polls its peer and runs the callbacks of Steam every frame, and
\* Steam tells an end that the other is up or has gone. Nobody has to send, and
\* no attempt has to arrive.
Spec ==
  /\ Init /\ [][Next]_vars
  /\ WF_vars(ServerCallback) /\ WF_vars(ServerPoll) /\ WF_vars(ServerRead \/ ServerCrash)
  /\ \A k \in Insts :
       /\ WF_vars(ClientCallback(k)) /\ WF_vars(ClientPoll(k))
       /\ \A e \in Ends : WF_vars(Notices(k, e) \/ Follows(k, e))

------------------------------------------------------------------------------
(* Properties. *)

\* What the server receives for its application from a peer is a prefix of the reliable
\* packets that the client with this id has sent: no gap, no swap, nothing from
\* an earlier or later client of the same Steam user
\* (_send_pending, add_connection, _get_packet_peer).
ServerHearsInOrder ==
  \A p \in Insts : got[p][Up] = [i \in 1 .. Len(got[p][Up]) |-> [k |-> p, n |-> i]]

\* A client may miss the first packets, which overtake the server's id or come
\* after it is lost, and from then on hears every one in the order of the server.
ClientHearsInOrder ==
  \A k \in Insts : \A i \in 1 .. Len(got[k][Down]) - 1 :
    got[k][Down][i + 1].n = got[k][Down][i].n + 1

\* Both ends hear reliable packets in the order in which they were sent.
HeardInOrder == ServerHearsInOrder /\ ClientHearsInOrder

\* The two maps of the server and the signals it has emitted agree: the peers it
\* can send to are those announced, and whoever is polled under a peer id is
\* the connection packets for this id go to (_put_packet, _poll, _disconnect_peer).
MapsAgree ==
  /\ DOMAIN peers = known
  /\ \A x \in DOMAIN conns : pid[conns[x]] # Nobody =>
       /\ pid[conns[x]] \in DOMAIN peers
       /\ peers[pid[conns[x]]] = conns[x]

\* No connection stays open at the server without a SteamConnection to close it:
\* when the entry of a Steam user is replaced, its last reference closes it
\* (add_connection, ~SteamConnection).
NoOrphan ==
  \A k \in Insts : end[k][Server] = "connected" =>
    \/ k \in Range(conns) \cup Range(peers)
    \/ \E i \in DOMAIN calls : calls[i].k = k /\ calls[i].ev = "connected"

\* A packet that is read is said to come from the peer it was received from, and
\* that one is announced: whoever was kicked, has crashed, come back or was closed
\* since (_process_message, _get_packet_peer, _disconnect_peer).
OnlyFromAnnounced ==
  [][ServerRead => LET p == PeerIdOf(Head(inbox).from) IN p \in known /\ p = Head(inbox).peer]_vars

\* A callback about a connection disconnects no other peer than the one of this
\* connection ("A connection has been actively rejected or closed").
DisconnectsItsPeer ==
  [][ServerCallback => known \ known' \subseteq {Head(calls).k}]_vars

\* An announced peer whose client is gone is taken back, as long as its Steam
\* user has not connected again. When the callback of its end is run before its
\* setup packet is polled, it is announced only then, and no callback follows
\* (network_connection_status_changed, _poll). Callbacks skip loopback clients.
GoneIsNoticed ==
  \A k \in Insts :
    k \in known /\ k \notin Loops /\ Live(end[k][Server]) /\ end[k][Client] = "closed"
      ~> k \notin known \/ owner[k] \notin DOMAIN conns \/ conns[owner[k]] # k

\* A client that is connected learns the id of the server or is closed, unless
\* a setup packet was lost: nobody repeats one (_process_ping). A loopback
\* client does not hear that its host has closed.
HandshakeEnds ==
  \A k \in Insts :
    status[k] = "connected" /\ knows[k] = "entry"
      ~> knows[k] # "entry" \/ k \in lost \/ (k \in Loops /\ ~host)
==============================================================================
