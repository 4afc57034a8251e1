----------------------------- MODULE ClientScenes -----------------------------
(* Scenes that clients make: request_replication, the server's answer, and the *)
(* calls that wait until a node has its identifier. All messages are on one    *)
(* reliable channel in each direction.                                         *)
(*                                                                             *)
(* The client's node, the server's node that answers it, its copies at the     *)
(* others and its identifier are all named s; NodeIds is about identifiers     *)
(* that are drawn again. Clients make scenes in a Place that the server shows  *)
(* and hides, or in each other.                                                *)
EXTENDS Naturals, Sequences, FiniteSets, SequencesExt

CONSTANTS
  Clients, Scenes,
  Place,     \* a node of the server
  None,
  InReady,   \* whether the server's nodes make calls in _ready
  Handlers,  \* whether clients make calls in the handlers of messages
  MaxCalls,  \* bound: calls of its maker on each scene
  MaxWire    \* bound: messages on their way to a client when the server acts

ASSUME NotAScene == {Place, None} \cap Scenes = {} /\ Place # None
ASSUME NotAClient == None \notin Clients

VARIABLES
  mayAsk,      \* whether the replication data lets a client send _request_replication;
               \* the data that comes with the add-on does not
  status,      \* of each client: "out", "in" or "left"
  hidden,      \* the clients the Place is hidden from
  nodes,       \* the server's nodes
  unanswered,  \* scenes whose request was refused at the client, dropped or not accepted
  maker,       \* who made a scene: _client_created_scenes, once it is in nodes
  under,       \* its parent
  phase,       \* the maker's node: "new", "parent" (awaits the identifier of its
               \* parent), "asked" (in _object_awaits), "named", "gone"
  ident,       \* the identifier it got
  tokens,      \* client_queued_replication_tokens: the scenes by their token
  waiting,     \* the coroutines in await_for_id, in order
  polling,     \* whether a client is handling messages, in this frame
  place,       \* the clients that have the Place
  copies,      \* copies[c]: the scenes c was sent
  up, down,    \* messages
  made,        \* the calls of its maker on a scene
  heard        \* those that the server ran

client == <<phase, ident, tokens, waiting, polling, place, copies>>
server == <<status, hidden, nodes, unanswered>>
vars == <<mayAsk, server, maker, under, client, up, down, made, heard>>

Connected == {c \in Clients : status[c] = "in"}

\* A scene and those it is in.
Path(s) ==
  {x \in Scenes : \A S \in SUBSET Scenes :
     s \in S /\ (\A y \in S : under[y] \in Scenes => under[y] \in S) => x \in S}

Below(s) == {x \in Scenes : s \in Path(x)}

\* get_true_visibility: a scene is shown to everyone (set_visibility) but its
\* maker (set_peer_visibility), where all that it is in is visible.
Others(c, S) == {s \in S : \A x \in Path(s) : x \in S /\ maker[x] # c}

VisibleTo(c, S) == IF c \in Connected \ hidden THEN Others(c, S) ELSE {}

\* Fault: all that are connected observe everything.
ObservingAll(s) == Connected

\* get_observing_peers: the maker is always one.
Observing(s) == {c \in Connected : s \in VisibleTo(c, nodes) \/ maker[s] = c}

Shown(p, S) == [type |-> "add", place |-> p, scenes |-> S]
Removed(s) == [type |-> "remove", scene |-> s]
Named(token, s) == [type |-> "ids", token |-> token, scene |-> s]
Asks(token, s) == [type |-> "request", token |-> token, scene |-> s]
Calls(s, from, n) == [type |-> "call", scene |-> s, from |-> from, n |-> n]
FromServer(s) == Calls(s, None, 0)

Init ==
  /\ mayAsk \in BOOLEAN
  /\ status \in [Clients -> {"out", "in"}] /\ hidden = {} /\ nodes = {} /\ unanswered = {}
  /\ maker = [s \in Scenes |-> None] /\ under = [s \in Scenes |-> None]
  /\ phase = [s \in Scenes |-> "new"] /\ ident = [s \in Scenes |-> None]
  /\ tokens = [c \in Clients |-> <<>>] /\ waiting = [c \in Clients |-> <<>>]
  /\ polling = {} /\ place = Connected /\ copies = [c \in Clients |-> {}]
  /\ up = [c \in Clients |-> <<>>] /\ down = [c \in Clients |-> <<>>]
  /\ made = [s \in Scenes |-> 0] /\ heard = [s \in Scenes |-> <<>>]

------------------------------------------------------------------------------
(* A client. *)

\* What comes after await_for_id of the parent. outbound_rpc refuses a request that
\* the client may not send; the node is in _object_awaits by then.
Ask(c, s) ==
  /\ phase' = [phase EXCEPT ![s] = "asked"]
  /\ tokens' = [tokens EXCEPT ![c] = Append(@, s)]
  /\ up' = IF mayAsk THEN [up EXCEPT ![c] = Append(@, Asks(Len(tokens[c]) + 1, s))] ELSE up
  /\ unanswered' = IF mayAsk THEN unanswered ELSE unanswered \cup {s}

\* The node that c has under the name s has, or will have, an identifier.
HasNode(c, s) == s \in copies[c] \/ (maker[s] = c /\ phase[s] \in {"asked", "named"})

\* request_replication of a node that c has put below p.
Request(c, s, p) ==
  /\ c \in Connected \ polling /\ phase[s] = "new"
  /\ IF p = Place THEN c \in place ELSE HasNode(c, p)
  /\ maker' = [maker EXCEPT ![s] = c]
  /\ under' = [under EXCEPT ![s] = p]
  /\ IF p # Place /\ maker[p] = c /\ phase[p] = "asked"
       THEN /\ phase' = [phase EXCEPT ![s] = "parent"]
            /\ waiting' = [waiting EXCEPT ![c] = Append(@, [scene |-> s, n |-> 0])]
            /\ UNCHANGED <<tokens, up, unanswered>>
       ELSE Ask(c, s) /\ UNCHANGED waiting
  /\ UNCHANGED <<status, hidden, nodes, ident, polling, place, copies, down, made, heard>>

\* outbound_rpc of c on a node it made. A node that still waits for its parent
\* is in no dictionary: the call is refused.
Call(c, s) ==
  /\ c \in Connected /\ maker[s] = c /\ phase[s] \in {"asked", "named"}
  /\ c \in polling => Handlers
  /\ made[s] < MaxCalls[s]
  /\ made' = [made EXCEPT ![s] = @ + 1]
  /\ IF phase[s] = "asked"
       THEN /\ waiting' = [waiting EXCEPT ![c] = Append(@, [scene |-> s, n |-> made[s] + 1])]
            /\ UNCHANGED up
       ELSE /\ up' = [up EXCEPT ![c] = Append(@, Calls(ident[s], s, made[s] + 1))]
            /\ UNCHANGED waiting
  /\ UNCHANGED <<server, maker, under, phase, ident, tokens, polling, place, copies, down, heard>>

\* The nodes in S, which c made or has copies of, are freed at c.
Without(c, S) ==
  /\ phase' = [s \in Scenes |-> IF s \in S /\ maker[s] = c THEN "gone" ELSE phase[s]]
  /\ copies' = [copies EXCEPT ![c] = @ \ S]

\* c frees a node it made; it does not tell.
FreeOwn(c, s) ==
  /\ c \in Connected \ polling /\ maker[s] = c /\ phase[s] # "gone"
  /\ Without(c, Below(s))
  /\ UNCHANGED <<server, maker, under, ident, tokens, waiting, polling, place, up, down, made, heard>>

\* A message of the server.
Hears(c) ==
  /\ c \in Connected /\ down[c] # <<>>
  /\ down' = [down EXCEPT ![c] = Tail(@)]
  /\ polling' = polling \cup {c}
  /\ UNCHANGED <<server, maker, under, tokens, waiting, up, made, heard>>

\* update_visibility: what has no parent is thrown away.
HearAdd(c) ==
  LET msg == Head(down[c])
      has(p) == IF p = Place THEN msg.place \/ c \in place ELSE p \in copies[c] \cup msg.scenes
  IN /\ Hears(c) /\ msg.type = "add"
     /\ place' = IF msg.place THEN place \cup {c} ELSE place
     /\ copies' = [copies EXCEPT ![c] = @ \cup {s \in msg.scenes : has(under[s])}]
     /\ UNCHANGED <<phase, ident>>

HearRemove(c) ==
  LET s == Head(down[c]).scene
  IN /\ Hears(c) /\ Head(down[c]).type = "remove"
     /\ Without(c, IF s = Place THEN Scenes ELSE Below(s))
     /\ place' = IF s = Place THEN place \ {c} ELSE place
     /\ UNCHANGED ident

\* Fault: the oldest request is taken to be the one that is answered.
AnsweredOldest(c) == SelectSeq(tokens[c], LAMBDA s : phase[s] = "asked" \/ s = Last(tokens[c]))[1]

Answered(c) == tokens[c][Head(down[c]).token]

\* _receive_client_replication_ids
HearIds(c) ==
  LET s == Answered(c)
  IN /\ Hears(c) /\ Head(down[c]).type = "ids"
     /\ IF phase[s] = "asked"
          THEN /\ phase' = [phase EXCEPT ![s] = "named"]
               /\ ident' = [ident EXCEPT ![s] = Head(down[c]).scene]
          ELSE UNCHANGED <<phase, ident>>
     /\ UNCHANGED <<place, copies>>

\* A call of the server: CallsFindTheirNode says that its node is there.
HearCall(c) == Hears(c) /\ Head(down[c]).type = "call" /\ UNCHANGED <<phase, ident, place, copies>>

\* A coroutine that await_for_id lets go on, in the next frame.
Resumes(w) ==
  IF w.n > 0 THEN phase[w.scene] # "asked" ELSE phase[under[w.scene]] # "asked"

\* The elements of q at the places P, in their order.
Those(q, P) ==
  LET those[n \in 0 .. Len(q)] ==
        IF n = 0 THEN <<>> ELSE IF n \in P THEN Append(those[n - 1], q[n]) ELSE those[n - 1]
  IN those[Len(q)]

\* The places of the coroutines that go on, and of those that come to something.
Ready(c) == {i \in DOMAIN waiting[c] : Resumes(waiting[c][i])}
GoOn(c) == {i \in Ready(c) : phase[waiting[c][i].scene] \in {"named", "parent"}}

\* Fault: those that waited longest are last.
SentBackwards(c) == Reverse(Those(waiting[c], GoOn(c)))

\* Those whose message is sent: requests only of a client that may ask.
Sent(c) == Those(waiting[c], {i \in GoOn(c) : mayAsk \/ waiting[c][i].n > 0})

\* process_frame: the coroutines go on in the order in which they came, calls and
\* requests; those of freed nodes come to nothing: they end, or wait for ever.
Resume(c) ==
  LET sent == Sent(c)
      asking == Those(waiting[c], {i \in GoOn(c) : waiting[c][i].n = 0})
      tokenOf(w) == Len(tokens[c]) + (CHOOSE i \in DOMAIN asking : asking[i] = w)
  IN /\ c \in polling
     /\ polling' = polling \ {c}
     /\ waiting' = [waiting EXCEPT ![c] = Those(@, DOMAIN @ \ Ready(c))]
     /\ up' = [up EXCEPT ![c] = @ \o
                 [i \in DOMAIN sent |-> IF sent[i].n = 0 THEN Asks(tokenOf(sent[i]), sent[i].scene)
                                        ELSE Calls(ident[sent[i].scene], sent[i].scene, sent[i].n)]]
     /\ tokens' = [tokens EXCEPT ![c] = @ \o [i \in DOMAIN asking |-> asking[i].scene]]
     /\ unanswered' = IF mayAsk THEN unanswered ELSE unanswered \cup {w.scene : w \in Range(asking)}
     /\ phase' = [s \in Scenes |-> IF [scene |-> s, n |-> 0] \in Range(asking) THEN "asked" ELSE phase[s]]
     /\ UNCHANGED <<status, hidden, nodes, maker, under, ident, place, copies, down, made, heard>>

------------------------------------------------------------------------------
(* The server. *)

Handles(c) ==
  /\ c \in Connected /\ up[c] # <<>>
  /\ up' = [up EXCEPT ![c] = Tail(@)]
  /\ UNCHANGED <<status, hidden, maker, under, client, made>>

\* Fault: the maker is sent its scene as everyone else.
AcceptForAll(c) ==
  LET s == Head(up[c]).scene IN
  /\ Handles(c) /\ Head(up[c]).type = "request"
  /\ under[s] \in nodes \cup {Place}
  /\ nodes' = nodes \cup {s}
  /\ down' = [d \in Clients |->
       down[d] \o (IF d \in Connected \ hidden THEN <<Shown(FALSE, {s})>> ELSE <<>>)
               \o (IF d = c THEN <<Named(Head(up[c]).token, s)>> ELSE <<>>)]
  /\ UNCHANGED <<unanswered, heard>>

\* _request_replication and, when a listener calls it, _accept_replication: the
\* node enters the tree, is ready, and then shown; its maker is sent its identifier.
Accept(c) ==
  LET s == Head(up[c]).scene
      early == IF InReady THEN <<FromServer(s)>> ELSE <<>>
  IN /\ Handles(c) /\ Head(up[c]).type = "request"
     /\ under[s] \in nodes \cup {Place}
     /\ nodes' = nodes \cup {s}
     /\ down' = [d \in Clients |->
          IF d = c THEN down[d] \o early \o <<Named(Head(up[c]).token, s)>>
          ELSE IF s \in VisibleTo(d, nodes') THEN Append(down[d], Shown(FALSE, {s})) ELSE down[d]]
     /\ UNCHANGED <<unanswered, heard>>

\* Nobody accepts it, or its parent is not there: nothing is answered.
Ignore(c) ==
  /\ Handles(c) /\ Head(up[c]).type = "request"
  /\ unanswered' = unanswered \cup {Head(up[c]).scene}
  /\ UNCHANGED <<nodes, down, heard>>

\* A call of a client.
Run(c) ==
  LET msg == Head(up[c]) IN
  /\ Handles(c) /\ msg.type = "call"
  /\ heard' = IF msg.scene \in nodes
                THEN [heard EXCEPT ![msg.scene] = Append(@, [from |-> msg.from, n |-> msg.n])]
                ELSE heard
  /\ UNCHANGED <<nodes, unanswered, down>>

Room == \A c \in Connected : Len(down[c]) <= MaxWire

\* The server calls a method of its node at all clients.
CallAll(s) ==
  /\ Room /\ s \in nodes
  /\ down' = [c \in Clients |-> IF c \in Observing(s) THEN Append(down[c], FromServer(s)) ELSE down[c]]
  /\ UNCHANGED <<server, maker, under, client, up, made, heard>>

\* _node_tree_exiting: the removals of what is below s come after its own, and
\* find nothing any more.
Free(s) ==
  /\ Room /\ s \in nodes
  /\ nodes' = nodes \ Below(s)
  /\ down' = [c \in Clients |-> IF c \in Observing(s) THEN Append(down[c], Removed(s)) ELSE down[c]]
  /\ UNCHANGED <<status, hidden, unanswered, maker, under, client, up, made, heard>>

\* set_peer_visibility of the Place.
Hide(c) ==
  /\ Room /\ c \in Connected \ hidden
  /\ hidden' = hidden \cup {c}
  /\ down' = [down EXCEPT ![c] = Append(@, Removed(Place))]
  /\ UNCHANGED <<status, nodes, unanswered, maker, under, client, up, made, heard>>

Show(c) ==
  /\ Room /\ c \in hidden
  /\ hidden' = hidden \ {c}
  /\ down' = [down EXCEPT ![c] = Append(@, Shown(TRUE, Others(c, nodes)))]
  /\ UNCHANGED <<status, nodes, unanswered, maker, under, client, up, made, heard>>

\* _peer_connected
Connect(c) ==
  /\ status[c] = "out"
  /\ status' = [status EXCEPT ![c] = "in"]
  /\ down' = [down EXCEPT ![c] = <<Shown(TRUE, Others(c, nodes))>>]
  /\ UNCHANGED <<hidden, nodes, unanswered, maker, under, client, up, made, heard>>

\* _peer_disconnected: what the client made stays.
Disconnect(c) ==
  /\ status[c] = "in"
  /\ status' = [status EXCEPT ![c] = "left"]
  /\ hidden' = hidden \ {c}
  /\ up' = [up EXCEPT ![c] = <<>>] /\ down' = [down EXCEPT ![c] = <<>>]
  /\ waiting' = [waiting EXCEPT ![c] = <<>>]
  /\ polling' = polling \ {c} /\ place' = place \ {c}
  /\ Without(c, Scenes)
  /\ UNCHANGED <<nodes, unanswered, maker, under, ident, tokens, made, heard>>

Step ==
  \/ \E c \in Clients, s \in Scenes :
       \/ \E p \in Scenes \cup {Place} : Request(c, s, p)
       \/ Call(c, s) \/ FreeOwn(c, s)
  \/ \E c \in Clients : \/ HearAdd(c) \/ HearRemove(c) \/ HearIds(c) \/ HearCall(c) \/ Resume(c)
                        \/ Accept(c) \/ Ignore(c) \/ Run(c)
                        \/ Hide(c) \/ Show(c) \/ Connect(c) \/ Disconnect(c)
  \/ \E s \in Scenes : CallAll(s) \/ Free(s)

Next == Step /\ UNCHANGED mayAsk

Spec == Init /\ [][Next]_vars

------------------------------------------------------------------------------
(* Properties. *)

\* Once a client has heard all, it has copies of exactly the scenes of others that
\* are visible to it, and none of its own beside its node. That has the identifier
\* of the server's node that answers it, as long as there is one
\* (_accept_replication, get_observing_peers, _receive_client_replication_ids).
ScenesAgree ==
  \A c \in Connected : down[c] = <<>> => \A s \in Scenes :
    IF maker[s] = c
      THEN /\ s \notin copies[c]
           /\ phase[s] = "named" => s \in nodes /\ ident[s] = s
           /\ s \in nodes => phase[s] \in {"named", "gone"}
      ELSE s \in copies[c] <=> s \in VisibleTo(c, nodes)

\* The calls of its maker on a node run in the order in which they were made,
\* whether they had to wait for the identifier or not, none of them left out
\* (await_for_id, outbound_rpc).
CallsKeepOrder ==
  \A s \in Scenes : heard[s] = [i \in DOMAIN heard[s] |-> [from |-> s, n |-> i]]

\* A call of the server finds its node at each client, also at the one that made
\* it, unless that has freed it.
CallsFindTheirNode ==
  \A c \in Connected : down[c] # <<>> /\ Head(down[c]).type = "call" =>
    LET s == Head(down[c]).scene
    IN s \in copies[c] \/ (maker[s] = c /\ phase[s] \in {"named", "gone"})

\* When nothing is under way, no node waits for its identifier, or for that of its
\* parent, and no call on a node that still exists waits for one, unless a request
\* was refused at the client, dropped or not accepted: nobody tells the coroutines
\* that wait of that (outbound_rpc, _request_replication, await_for_id).
AnswersCome ==
  \A c \in Connected \ polling : up[c] = <<>> /\ down[c] = <<>> =>
    /\ \A s \in Scenes : maker[s] = c /\ phase[s] \in {"parent", "asked"} =>
         Path(s) \cap unanswered # {}
    /\ \A i \in DOMAIN waiting[c] :
         phase[waiting[c][i].scene] = "gone" \/ Path(waiting[c][i].scene) \cap unanswered # {}
==============================================================================
