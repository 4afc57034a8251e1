# Godaemon Multiplayer: specifications

TLA+ models of the networking library in `demo/addons/godaemon_multiplayer` (called
`GM/` below) and `godaemon-cpp`, checked with TLC on small instances and, for the parts
where it matters most, proved with TLAPS for instances of any size. `PROJECT.json` lists
the runs, the source lines each definition stands for, the hazards and the theorems.

## 1. The system

A `ServerRoot` and any number of `ClientRoot`s each hold a `GodaemonMultiplayerAPI`,
which wraps Godot's `SceneMultiplayer`. Everything runs on the main thread of its
process: a function runs to its end or to an `await`, network callbacks come from the
poll of a frame, freed nodes go at the end of a frame. Concurrency is between processes,
between coroutines at their awaits, and through callbacks of signals.

| component | state | operations | interacts with |
|---|---|---|---|
| Connection: `GM/api/nodes/*`, `godaemon_multiplayer_api.gd` | `connection_state`, the timer and the peer of an attempt, `_currently_multi_connecting`, services | `start_connection`, `start_multi_connect`, `end_connection`, the handlers of the awaited signals | creates and drops the repository, the rpcs and the services; calls the authenticator |
| Authentication: `GM/api/config/*` | the version of each side | `*_start_auth`, `*_receive_auth`, `complete_auth` | `SceneMultiplayer` admits a peer both sides completed |
| Repository: `GM/api/repository.gd` | `object_to_id`, `id_to_object`, `_current_id`, `_object_awaits` | `add_object`, `remove_object(_id)`, `get_object`, `await_for_id` | used by everything that names an object in a message |
| Rpc: `GM/api/rpc.gd` | `srs_override`, `remote_sender`, filters, modifiers, rate limits | `outbound_rpc`, `inbound_rpc` | filters of ReplicationService; method configurations |
| ReplicationService: `GM/services/replication_service.gd` | settings and cache of visibility; the client's copies | visibility setters, node callbacks, `update_visibility`, `reparent_node`, owners, signals | repository, rpc, SyncService |
| Client-created scenes: the same file | `client_queued_replication_tokens`, `_client_created_scenes` | `request_replication`, `_request_replication`, `_accept_replication`, `_receive_client_replication_ids` | repository (`await_for_id`), rpc, visibility |
| ZoneService: `GM/services/zone*` | zones and the interest of peers; the `ClientZone`s of the clients | `add_zone`, `remove_zone`, `add_interest`, `remove_interest`, the setters and signals of both classes | per-peer visibility, `SyncService.request_sync` |
| SyncService | property caches, tweens, blocked nodes | `_process`, `request_sync`, `_receive_properties` | rpc, repository, observing peers |
| DatabaseService: `GM/services/database*` | `_tracked_objects`, `_track_locked`, `_autosaving` | `track_object`, `untrack_object`, `save_object`, `_autosave` | TextDB (answers at once), PostgresDB (later) |
| NetBarrier: `GM/nodes/net_barrier.gd` | `awaiting_peers`, the timer | `start`, `end`, `_receive_end` | rpc |
| RateLimiter: `GM/util/rate_limiter.gd` | times of a peer's requests | `check` | rpc |
| Steam transport: `godaemon-cpp/steam_*` | `connections_by_steamId64`, `peerId_to_steamId`, `connection_status`, per connection `peer_id` and `pending_retry_packets`, incoming packets | create, loopback client, poll, callbacks of Steam, put and get packet, disconnect, close | `SceneMultiplayer` above it, Steam below |
| Containers: `godot-cpp/include/godot_cpp/templates` | `HashMap`, `List` | insert, erase, resize, iterate; the operations of a linked list | hold the state of the Steam transport |
| Replication data, byte streams | configurations per script and their indices | lookups, encodings | all messages |

The hard parts, each listed with its line under `hazards` in `PROJECT.json`:

- **Visibility is never sent as a whole** after a peer has joined. The setters look the
  view up before and after a change, through a cache, and send the difference. A wrong
  difference is never repaired. Calls made on a node outside the tree are replayed by
  its `ready` signal, children before parents.
- **Identifiers are reused at once** and given up at different times by the server (when
  a node is freed) and the client (at the end of the frame).
- **Calls name objects by identifier**, are sent on by the server under an override, and
  run handlers that make calls themselves.
- **Coroutines**: attempts to connect wait for one of many signals with timers running;
  database tracking has a lock made of a flag and a signal; calls await identifiers.
- **Others' timing**: late answers, repeated rounds, peers that go.
- **Two ends of a connection** (Steam): callbacks, lost handshakes, refused sends, closing
  and crashes, in any order, with two maps that must name the same connection.

What makes each correct: visibility - every peer has exactly the nodes visible to it;
identifiers - the trees and identifiers of both sides agree once everything is handled,
and no call reaches a node it was not meant for; rpc - each call runs once, where it is
meant to, under its caller's name; connection - every attempt ends and leaves nothing
behind, and different versions never meet; database - nothing saved is lost, tracking
goes one by one and ends; barrier - complete comes, and not early; client-created scenes -
everyone agrees on the node and its identifier, calls made before it is known keep their
order; zones - each client sees exactly the zones it has interest in and who is in them;
transport - packets in order, read under the id of an announced peer, no connection left behind;
containers - a dictionary that keeps its order, a sequence; rate limiter - never more than
the limit in any window.

## 2. The modules

| module | models | instance for TLC |
|---|---|---|
| `SceneView` | what ReplicationService promises: the view of a peer as a function of the settings on the path of each node; no cache, no differences | checked through `MCVisibility` |
| `Visibility` | the server's half of ReplicationService | `MCVisibility` |
| `Repository` | the identifiers of one process | `MCServices`, through `Services` |
| `NodeIds` | two `Repository` instances (server, client) joined by the messages that add and remove nodes, and calls both ways | `MCNodeIds` |
| `ClientScenes` | scenes that clients make, and the calls that wait for an identifier | `MCClientScenes` |
| `Rpc` | calls of one method between a server and its clients | `MCRpc` |
| `Connection` | a client, a server and the authentication | `MCConnection` |
| `Database` | DatabaseService over a database | `MCServices`, through `Services` |
| `NetBarrier` | NetBarrier | `MCServices`, through `Services` |
| `Zone` | ZoneService, ClientZone and what SyncService does for them | `MCZone` |
| `SteamPeer` | a server and its clients over Steam or a loopback pair | `MCSteamPeer` |
| `HashMap` | the template, down to its slots and pointers | `MCServices`, through `Containers` |
| `List` | the template, down to its pointers | `MCServices`, through `Containers` |
| `OrderedMap` | what a HashMap promises: a dictionary that keeps the order of insertion | checked through `MCServices` |
| `RateLimiter` | the window of requests | `MCServices`, through `Services` |
| `Services` | no code of its own: `Repository` and instances of `Database`, `NetBarrier`, `RateLimiter` side by side | `MCServices` |
| `Containers` | no code of its own: an instance of `List` and one of `HashMap` | `MCServices` |
| `VisibilityProofs`, `ClientScenesProofs`, `ConnectionProofs`, `NodeIdsProofs`, `RpcProofs`, `ServicesProofs`, `SteamPeerProofs`, `ZoneProofs` | theorems; those about `Containers` are in `ConnectionProofs`, beside those about `Connection` | |

`Services` puts four small components that have nothing to do with each other into one
module, `Containers` two more; `MCServices` runs them all. A variable `which` is chosen at
the start, among those that the constant `Parts` of the run names, and only the chosen one
moves.

The variables keep the names of the code where it has them. Definitions introduced by a
comment "Fault:" are what a plausible mistake would make of the definition after them;
no specification uses them, `PROJECT.json` names the property that rules each one out.

**Visibility.** `replication_visibility` and `visibility_cache` are the dictionaries of
the same names (`cached`: the keys of the latter); `anc` is the tree, `pend` the calls
tied to `ready`, `conn` the connected peers, `told` what each has been sent so far. The
actions are the three setters in and outside the tree (`SetVisibility`, `Defer`,
`Ready`...), `EnterTree`, `Free`, `ReparentNode`, the lookups that fill the cache and the
peers' callbacks. Godot facts used: signals of one call compare callables without their
bound arguments, so that a second deferred call of the same setter is an error and dropped; `freeing`
comes for parents first; `tree_entered` comes before the parent's `child_entered_tree`
and `ready` comes for children first; `add_child` is one call, so network callbacks wait
until it is over. `MayRegister` keeps the program to what `README.md:64` demands ("This
MUST be called before the node enters the tree"). `SameAudience` restricts `ReparentNode`
in `Spec`; `SpecReparent` lifts that, and shows what then happens.

**NodeIds.** `parent`, `ids` and `sent` belong to the server, `copies`, `under`, `queued`
and `cids` to the client; `down` and `up` are the ordered reliable channels. Which nodes
are shown is left open: `Visibility` is about that. `RecvRemove`, `RecvAdd` and `FrameEnd`
are `update_visibility` and the end of the client's frame, `Batch` the messages it
handles in one. Whether all goes well when that is more than one depends on
`NoStomping` (in `NodeIdsProofs`): no node comes under the identifier of a copy that waits
to be freed. It is what the assertion of `repository.gd:37` means to say, and does not: it
looks the identifier up in `object_to_id`, whose keys are objects, so `AddObjectWithId` of
`Repository` accepts an identifier in use, and overwrites its entry.

**Rpc.** `stack` has the handlers a process is in, `remote_sender` is the variable of the
code; `srs_override` shows in the name under which `Sent` sends. A broadcast a server
runs is sent on when its handler returns (`Return`), whatever that handler did. A call
that a client makes while it does not see the node is sent on by a broadcast all the
same, and dropped when it is for one client: that is what the code does, and `Intended`
says so.

**Connection.** `link` is what the client's `SceneMultiplayer` has come to, `awaiting`
the coroutine at `_connect_await_end`, `loop` the `start_multi_connect` that awaits its attempt.
`loops` are those that run: while there is one the thread is inside that function, and only
handlers of `connection_failed` and `connection_success` can run. A handler may end the
loop it was called by and start another one, which runs inside it: that one comes first in
`loops`. `_currently_multi_connecting` is one flag for all of them (`multi`), so an outer
loop that was cancelled so goes on when the inner one returns or awaits. `MaxHandled` bounds
the loops that handlers start. Simplified: a server restarts, and takes
the client again, only after the old session was noticed to be over.

**Database.** An object's values are one number that grows; `requests` has what was asked
of the database, and the answers that were not handled yet. `setup` is chosen once: the
key of each object, and whether the database answers later (PostgresDB) or at once
(TextDB), where every request is finished before anything else runs. The program tracks
one object at a time under a key.

**NetBarrier.** The variables after `round` record what happened in a round, for the
properties only. `ReceiveEnd` ends where `complete.emit()` calls its handlers (`emitting`), which may start
and end the next round; `Emitted` is what follows: it kills the timer that runs then
(`net_barrier.gd:49-50`). `clean` says that no answer and no timer of an earlier
round was left when this one was started, `dropped` that its timer was killed by the one before.

**ClientScenes.** One name s stands for the maker's node, the server's node that answers it,
its copies and its identifier (`NodeIds` is about identifiers that are drawn again). `phase`
is what the maker's node has come to: its key in `_object_awaits` is there while it is
"asked". `waiting` has the coroutines in `await_for_id`, those of calls and, with n = 0, the one of
`request_replication` for a parent; `Resume` is the `process_frame` that lets them
go on, in the order in which they came, after the messages of that frame. `Accept` is one
step, as `add_child` in `_accept_replication` runs `_ready`, both deferred visibility calls
and the message to the others before the identifier is sent. The listener that accepts
does so at once or never. `mayAsk` is what the replication data says of `_request_replication`.
That of the add-on gives it `send_filter` 1 (`replication_data.tres:125-133`), the server only: `outbound_rpc`
refuses the request of a client (`rpc.gd:84-86`), which has put the node into `_object_awaits` by
then. `Ask` and `Resume` have both cases. Identifiers and calls go on one ordered channel; the properties are read when
the messages before them are handled.

**Zone.** `interest` and `old_interest` are the variables of `Zone`, `copy` those of the
`ClientZone` of a peer, `shown` its visibility, `wire` the messages to it. `present` is kept by
a watcher that reads `interest` when the zone is ready and then follows the signals.
`remove_zone` iterates over a dictionary that `remove_interest` changes: `Leave` leaves open
which peers that loop reaches.

**SteamPeer.** A client instance, its connection and its peer id have one name k, as
`client_root.gd` makes a new peer per attempt. `end`, `air`, `calls` and `ccalls` are Steam's: the
states of the two ends, what is on its way, the callbacks not yet run. `conns` and `peers` are the two
maps of the server, `pid` the `peer_id` of each `SteamConnection`, `pend` the packets kept for a
retry. Crashes, lost handshakes and refused sends are actions, or choices in them. At the server,
receiving and reading are two steps: `Deliver` puts a packet into `inbox` (`incoming_packets`), `ServerRead`
is `_get_packet_peer` and `_get_packet`, and between two reads a handler may disconnect anyone. A packet
whose sender is in no map any more ends the process (`ServerCrash`: the `CRASH_COND` of
`hash_map.hpp:499-503`). A client has one sender, and reads in the step that receives.

**HashMap, List.** Tables with the capacities and the probe of the code (hash, home,
distance), elements with `next` and `prev`; an iterator that others change the map under.
The loops of both (`_insert_with_hash`, `_resize_and_rehash`, `clear`, `operator=`,
`sort_custom_inplace`) are recursive functions of the number of steps taken.

## 3. The runs

| run | what it shows |
|---|---|
| `visibility` | exact views (`ToldIsVisible`), a coherent cache, exact differences, refinement of `SceneView`: a scene, a node packed in it, a script below either; a peer that connects and leaves |
| `node_ids` | trees and identifiers agree once all is handled (`SameTree`, `OneCopy`), the server's calls arrive; three identifiers for four objects, so that they are reused |
| `node_ids_stomp` | *violated*: a removal and an addition under one identifier in one frame lose the identifier of the new copy (with it, `OneCopy` fails later too) |
| `client_scenes` | everybody agrees in the end on nodes and identifiers (`ScenesAgree`), calls made before the identifier came keep their order, the server's calls find their node, only what was refused or not accepted is waited for (`AnswersCome`); whether clients may ask or not |
| `rpc` | each call runs once, where it is meant to, under its caller |
| `connection` | sessions, awaits, timers and peers match the state; equal versions; attempts and cancelled loops end |
| `services` | repository: identifiers lead to objects that carry them, only an addition under an identifier in use hides a live object, the search ends; database: tracking ends, what a database that answers at once holds is never replaced by less; barrier: complete comes, and not early; hash map: sound, and an ordered dictionary; list: sound, and a sequence; rate limiter: the limit |
| `database_tracks` | *violated*: with three objects two pass the barrier of `track_object` together |
| `steam_peer` | packets are heard in order, each read from the announced peer it came from; the server's maps agree and no connection is orphaned; who is gone is noticed, a handshake ends |
| `steam_reconnect` | *violated*: the end of a user's old connection disconnects the new one |
| `zone` | each client that has heard all has the zones it has interest in, with the right peers; no value comes before its zone or after it; joins are told; removed zones go |
| `zone_leave` | *violated*: a client is not told of the first peer that leaves a zone it was sent |

The type invariants are parts of the inductive invariants, checked inside the proofs.
Each violated property is something the code's comments, documentation or assertions
say; `findings` quotes them.

**Known limits of the code that no run is kept for.** The models show them as soon as the
constant or the restriction named here is changed.

- `Connection` with versions 1 and 257: they are compared as one byte, and meet
  (`OneByteVersionsAgree` has the hypothesis that excludes this).
- `Connection` with `AuthTimeout` FALSE (`authentication_timeout` 0): `AttemptEnds` fails. The timer
  of the attempt does nothing once the peers authenticate (`client_root.gd:155`), and a
  peer whose version differs is never told.
- `Connection`: a `start_multi_connect` without a limit whose attempts fail at once never
  gives the main thread back; `AttemptEnds` excludes that by `Frozen`.
- After TIMEOUT or AUTH_TIMEOUT the state is not the DISCONNECTED that the assertion of
  `start_multi_connect` (`multiplayer_root.gd:152`) demands, although `start_connection` accepts it.
- `NodeIds`: a client's call that is under way while its node is freed runs on the node
  that takes the identifier next; `RecvCall` finds it with `ids.id_to_object`.
- `Rpc` with `Nesting` TRUE: a handler that makes a call of a call_local method reads 0 in
  `remote_sender` afterwards (`rpc.gd:172`).
- `Database` with `async`: the autosave, an untrack or a free can save an object's initial
  values over those that `track_object` is still reading, and writes can overtake
  each other (`NoProgressLost` is about a database that answers at once).
- `NetBarrier`: the timer and the answers of one round count in the next, which completes
  early (`NotEarly` without `clean`); a round that a handler of `complete` starts and ends
  loses its timer when the last answer set the signal off, and never completes when a peer is silent (`EndCompletes`
  without `dropped`); one round can complete twice, since a timer started after the last answer
  runs on (`net_barrier.gd:42-50`).
- `Connection`: a handler of `connection_failed` that ends the loop and starts another one
  does not end the outer loop. The flag is set again, and the outer one goes on beside the new
  one (`multiplayer_root.gd:151-163`); `CancelledLoopEnds` lets that case through (`Len(loops) > 1`).
- `Repository`: the assertion of `repository.gd:37` never fails, so a node added under an identifier in use
  takes it (`OnlyStompingLoses` says that nothing else does); `node_ids_stomp` shows where that happens.
- `Visibility` with `SpecReparent`: a node reparented to where other peers see it is not
  sent to them (`ToldIsVisible`, `replication_service.gd:145`).
- `Rpc` with `ClientTargets` `AllTargets`: a client's call to all but one peer reaches
  nobody (`CallsReachTheirTargets`, `rpc.gd:318`).
- `ClientScenes`: with the replication data of the add-on no client can ask at all (`mayAsk` FALSE):
  each scene, and each call on it, waits for ever, and the server would block the request as well
  (`rpc.gd:218-221`). Where clients may ask, a request that is not accepted, or whose parent is gone, is not answered;
  the node and all that waits for it wait for ever (`replication_service.gd:441`).
  With `InReady`, calls the server's node makes in `_ready` reach the maker before its
  identifier and are dropped (line 459). With `Handlers`, a call made by a handler in the
  poll that brings the identifier overtakes those that wait (`rpc.gd:59`).
- Client-created scenes, seen while reading: a node whose parent still waits is in no
  dictionary, so that calls on it are refused until then (lines 410, 419); the maker counts
  as an observer for ever (line 230), also after it disconnected or lost the node with its
  parent, which is not sent to it again; other nodes below such a scene are never sent to
  its maker; the children of a packed scene get no identifiers at the maker, although
  line 400 calls the node replicated; a node that its maker frees stays at the server.
- Steam: a packet that waits in `incoming_packets` when a handler of an earlier one of the same poll
  disconnects its sender ends the server's process (`ServerCrash`; `steam_multiplayer_peer.cpp:104`).
- Steam: `kick` of a peer whose entry a reconnect took over can make the new connection deaf, or
  return early; the handshake is sent unreliably, once (`TRANSFER_MODE_RELIABLE` is 2,
  Steam's bit is 8); `close()` while connecting leaks the handle, and a client whose
  attempt breaks then is not told; the end of a connection whose handshake is still to be
  polled announces a peer that is gone, which only the authentication timeout removes; loopback clients
  do not notice that the host closes; what was refused is tried again only with the next packet;
  with two loopback clients, identities depend on Steam.
- Zone: `remove_zone` erases from the dictionary it iterates over, and the peers behind get no
  `interest_removed` at the server; interest of a peer that is not connected any more stays;
  a zone shown again in the frame it was hidden in meets what `node_ids_stomp` shows.
- `list.hpp:641`: `move_before` with a null place leaves the old last element's `next_ptr`
  unset. Nobody calls it so; the model has it with a place.
- `replication_service.gd:568` tests the identifier instead of the node: identifier 0 is
  refused, and a node that is not there is used. `rpc.gd` keeps rate limits of freed configurations.

**Bounds.** `Visibility`: three nodes give a path with a packed node and a node that can
be moved, the longest chain in which a setting, the cache entry of a descendant and a
descendant of another scene differ; one waiting call per node, as the second one of a
setter is an error; one peer. Once the peer has left only the scene is explored. These bounds are the constants and the state constraints of `MCVisibility`; the
theorems have none, and settle that peers are not confused with each other. `NodeIds`:
`MaxId` 3 makes three nodes and the root reuse identifiers, `MaxSent` 2 lets a node come
back, `MaxNet` bounds messages under way, `Batch` is 1: one message a frame. `Rpc`: an owner, another client, and a
third one as a bystander of a single call (the constraint `Bystander`); `MaxCalls` 2 lets a call overtake or nest in another; `Wrap` stands for
2^32, only its being larger than twice any peer matters. `Connection`: one and two attempts, so that
the last one and one before it differ, and loops without a limit; handlers start two loops (`MaxHandled`), one within the other or one after
it. `Database`: two objects, under one key or each under its own, of which one waits while the other is tracked; `TracksEnd` and `NoProgressLost` hold
with three as well (284,672 states), but too slowly for a run that is repeated; `MaxProgress` 1 is enough to lose. `NetBarrier`: two rounds of two clients, of which it may
wait for some, so that timers and answers of the one reach the other. `ClientScenes`: two clients and two scenes, of one client or both, one in the
other or not; two calls on one of them, so that order matters and calls and a
request can wait together; `MaxWire` 1 message on its way to a client when the server acts by itself.
`SteamPeer`: two instances of one user, or loopback clients; two packets from the first, which may
be kept, swapped, or wait to be read together while it is kicked or its user comes back, and one to the second. That two packets to
a client keep their order is proved, and not part of the run. `LinksBreak` is empty: links that break while
both ends live multiply the states; the theorems have them. `Zone`: three peers in one zone or two peers in two;
`MaxWire` 1. `Repository`: three objects, two identifiers. `HashMap`: five keys, two of which collide in every table and two more next to them, through
the first resizes. `List`: four elements of two values. `RateLimiter`: two requests in a
duration of two, until the time is 7. Objects and clients are symmetric in
`node_ids` and `client_scenes`, which check no liveness.
Every run switches the deadlock check off: a bounded program stops when its
bounds are used up, and all these systems may rest.

**Fairness.** Only what the code's scheduling gives: Godot's timers go off, signals of
what has arrived are delivered when a frame is polled, and a coroutine that was resumed
goes on (`Connection`), and handlers return (`Connection`, `NetBarrier`); the database answers each request of `track_object`
(`Database`: `HTTPRequest` is used without a time limit, so this is an assumption about
the database, which one that never answers would break). For `SteamPeer`: callbacks are run and
messages polled and read in each frame, and Steam tells an end in the end that the other is up, or
gone; nothing is assumed of a handshake on its way but that it is lost or arrives. For `Zone`: frames
end, and a reliable message arrives. Nothing is assumed of
programs, of servers that start or of clients that answer. `ClientScenes` has no fairness:
`AnswersCome` is about the states in which nothing is under way.

## 4. The proofs

**Visibility** (`VisibilityProofs`, any set of nodes and peers, any scenes; assumes
`ServerAssumption`, `SceneAssumption`). `ToldIsVisible` is not inductive: a difference is
right only when both lookups are, so it needs `CacheCoherent`; that a setter clears enough
of the cache needs the paths to form a forest of scenes with a visibility at each
root (`Shape`, `Linear`); that a peer that connects starts from nothing needs what absent
peers leave behind (`Absent`). `IInv` is their conjunction, with the types. One lemma
shows that a lookup through a coherent cache is the true visibility, one that filling
leaves it coherent, one that the setters clear every entry their change could touch. From
`IInv` follow `TypeCorrect`, `ViewsAreExact`, `CacheIsCoherent`, `DiffsExact` and
`Refinement` (each action of `Visibility` is one of `SceneView`, or a stutter).

**ClientScenes** (`ClientScenesProofs`; any clients, scenes, places below each
other and numbers of calls; assumes `NotAScene` and `NotAClient`, that the names of
the model differ). `ScenesAgree` is about a client that has heard everything, so the invariant has to say what
is still under way. `At(c, k, x)` is what place x will be at client c once the first k
messages to it are heard: a message shows it, and none after that hides it
or a place above. `ViewRight` says that after all of them
this is what the server shows. `Core` is its conjunction with: the tree of the nodes and what a node that
is gone leaves behind (`Structure`); messages come parents first and a maker sees its own
scenes by other means (`View`); coroutines wait for what can still come (`Waiting`, `StillWait`);
a scene that waits has one request under way, or one answer, or is not going to be answered (`Asking`,
`AskedFor`); a call is in one place, under the identifier that its node was given (`Calling`,
`Naming`, `NoneYet`). One theorem says that all actions keep it, the listed ones follow:
`AlwaysAgree`, and `AlwaysAnswered`: what waits between frames waits for a node that
has asked, and when nothing is under way that one was refused or not accepted.
`Core` is kept by the steps of clients that may ask (`SentNext`, which `WhenSent` shows to be those of
`Next` then). Where they may not, nothing is sent but the Place, no coroutine goes on and every
scene stays unanswered: `Idle`, which gives the same four properties.
`AlwaysFound` has the hypothesis that `InReady` is false. It adds `CallsFind`: each call is behind
the message that brings its node or its identifier. Calls from `_ready` are not: section 3.
`AlwaysInOrder` has the hypothesis that `Handlers` is false. For each scene (`Ordered`)
the calls not yet run are all on the channel or waiting (`NoneIsLost`), and each has the one before
it ahead of it, there (`CallsUp`) or in the row of coroutines (`CallsWait`).
A call that does not wait goes straight to the channel; that it leaves none behind is what
`StillWait` is for: between frames nothing waits any more for a node that has its
identifier. It does so within a frame, and a handler's calls overtake.

**NodeIds** (`NodeIdsProofs`; any nodes, identifiers, messages under way and in a frame;
assumes `BoundAssumption` and `NamesDiffer`). `SameTree` speaks of a client that has heard everything, so the
invariant has to say what is still under way. A *view* is a set of copies with parents and
identifiers: that of the client (`ClientView`) and that of what the server shows (`ServerView`). It is `Sound` when
it is a tree and no identifier, nor node, is in it twice. The invariant `Inv` says that
the messages under way lead from the one to the other (`Leads`): there is a row of sound views,
each message makes of one the next (`Takes`), and a call finds its node in the one it is handled in. Steps of the
server add views at the end of the row, without looking at the client; a message that is handled
takes the first one away, without looking at the server. It is the channel's order that makes
reused identifiers safe: `Free` and a later `Show` under the same identifier are two places
in the row. The rest of `Inv` is that on both sides the dictionaries are inverse of each other and have
the objects that exist (`ServerIds`, `ClientIds`), that the server's nodes are a tree, and that
the client's copies are its tree and, apart from it, what waits to be freed (`ClientTree`).
`SentOnce` adds that no copy comes twice. `OneCopy` is that the first view is sound,
`CallsArrive` that the first message leads to the second, `SameTree` that a row without
messages is one view. These have the hypothesis `[][RecvAdd => NoStomping]_vars`, without
which `node_ids_stomp` shows them fail; nothing is assumed of how many messages the client
handles in a frame. (A client that handles one has the condition for free.)

**Connection** (`ConnectionProofs`, any versions, any numbers of attempts, with or
without authentication timeouts, loops started by handlers as often as one likes; assumes `AttemptsAssumption`). `StateIsConsistent` is
inductive with its types. For `VersionsAgree` the invariant adds `Agreed`: what both sides
sent is equal as soon as one has completed. Equal bytes are equal versions only below
256: the theorem has that hypothesis (section 3).

**Rpc** (`RpcProofs`, any clients, configurations and number of calls; assumes the constants' named
assumptions, and the hypothesis `Program`: handlers make no calls of call_local methods,
clients none to all but one - without it the limits above apply). `CallsReachTheirTargets` is about
calls that are over; the invariant counts, for each call and peer, its copies under way,
running and run (`Counted`), which only works when every copy is for a peer it is meant for
(`DownIsMeant`), names its caller (`UpIsOwn`), a process is in one handler at most
(`Shallow`), and what a handler of the server still has to send on is a broadcast
(`RunningIsForServer`, `Positive`). `SendersAreCallers` follows from the same invariant.

**The small services** (`ServicesProofs`, any objects, identifiers, keys, clients and limits;
assumes `IdAssumption`, `NoneAssumption`, `SetupsAssumption`, `LimitAssumption`).

- Repository: `IdentifiersHaveOwners` is inductive with the types, with additions under identifiers
  in use and all. `OnlyStompingHides` needs it too: an identifier that is drawn, or removed, is not that of another
  live object that is found. `SearchEnds` is
  counted: the identifiers in use are fewer than the objects registered, because freed
  objects keep their entry in one dictionary; the cardinality facts of the library apply since only
  finitely many objects are registered at a time.
- DatabaseService: a `track_object` that is reading or saving has the one request that its
  phase names, and no other (`Awaited`); that is all there is with a barrier that several
  pass together. `NothingLost` is `NoProgressLost` for a database that answers at once, and needs that
  such a database has one request at a time and one tracked object per key (`Serial`), and that what is stored
  is never more than the value that may be stored over it (`Behind`).
- NetBarrier, for any number of rounds: `NotEarly` is inductive with what a round that started clean has of its own: the
  answers on their way and the timer are of this round, and before the first nothing happened.
- RateLimiter: what is kept is the last part of the log, at most `count` long (`IsSuffix`), all before
  it has left the window (`OthersAreOld`), and the log is in order (`InOrder`): then what is
  fresh is exactly what is recent, and a request is allowed only when the one `count` before it is old.

**The containers** (`ConnectionProofs`; any elements, values and lists that are assigned; any keys, hash
function, capacities asked for and maps that are assigned, as long as the keys fit into the largest table; assumes
`ListAssumption` and `HashAssumption`).

- List, for any elements, values and lists that are assigned. The invariant `ListInv` says that
  there is a sequence of all elements, each once, along which the pointers lead (`Chain`,
  `IsList`). Each operation has a lemma that names the sequence it leaves: one element less
  (`Less`) or more (`More`), two exchanged, values reversed. A move is one of each. That a walk along the
  pointers gives the sequence, and what the loops of `clear`, `operator=` and
  `sort_custom_inplace` have done after each turn, is by `UpTo`: what is true at 0, and after
  each number of which it is true, is true up to n. `ListHolds` and `ListActs` follow in
  every state; that the sort in place leaves the same elements in order is in the latter.
- HashMap. The invariant says that the list is a sequence of the elements in the map, each once, and that the table has
  each of them in one slot, with an empty slot left; that all slots from a key's home to its own are taken, by keys that are
  at least as far from theirs, is what makes a lookup that stops early right, and what the
  exchange of `_insert_with_hash` and the backward shift of `erase` keep. Insertion, erasure and a rehash that
  puts in the elements one by one are a lemma each. `MapHolds` and `MapIsDictionary`
  (that each operation is one of `OrderedMap`, or a stutter) follow.

**SteamPeer** (`SteamPeerProofs`, any numbers of instances, users and packets, any links
that break). `IInv`: types, every entry has an owner of the right kind (`Owned`, `Made`), a
connection's peer id is its own (`OwnId`), and `MapsAgree`. `OnlyFromAnnounced` is an action
property; it needs that each packet in `inbox` was received from the peer that the entry of its Steam id still leads to,
unless there is no entry any more (`BoxInv`): a new entry is made in a callback, before which every packet has been read. `NoOrphan` needs in addition that loopback clients have no
callback of a connection that is up, and a closed server no open connection (`Quiet`).
`HeardInOrder` follows each packet through what Steam carries and what is kept for a retry, as one
sequence (`OnWay`): to the server what was heard and what is on its way are all that was
sent, with nothing left out (`UpOrder`); to a client the same from the first packet after the handshake
(`DownOrder`). A connection tells its id before a reliable packet (`Pinged`, `Untold`), and that no
end is ever added, or told its id, twice needs that each has one callback that says it is
up (`Once`, `ClientOnce`).

**Zone** (`ZoneProofs`, any peers, zones and messages). `View(w, C, S)` says that the
messages w lead from the zones C to the zones S, without recursion: those about one zone add
and remove it in turn, the first fits C and the last S. It composes over
concatenation (`ViewsJoin`), and holds of the rest when the first message is heard. The
invariant says that what is under way leads each client to what is shown to it, with the
server's interest (`Views`, `Values`), that only
connected peers with interest are shown a zone, and that the watchers know who is in
(`Known`, `Informed`). From it follow `ViewsAgree`, `NothingIsDropped`, `InterestIsSight`,
`JoinsAreTold` and that the server's signals are exact.

**Only model-checked:** all that is
live (`AttemptEnds`, `CancelledLoopEnds`, `TracksEnd`, `EndCompletes`, `GoneIsNoticed`,
`HandshakeEnds`, `RemovedZonesGo`): fairness and ENABLED are beyond the prover. Where a proof
needs an induction over the places of a sequence or the numbers of calls, it argues about the
least one that is wrong instead.

## 5. What is not modelled, and why

Left out for good: the editor plugin, profiler, logs, terminal, lobbies and demos (no
logic of the system), PostgRESTNode (text of requests), extension registration, service
setup (one pass, nothing interleaves), replication data (one resource that both sides
read; who may send a call is in `Rpc` and `ClientScenes`). Encodings are left out where only their existence matters; where
their width does (targets of calls, versions) they are in the models. Of godot-cpp, which
is vendored, only the containers that the Steam transport stands on are modelled: the rest
is bindings, generated code, vector arithmetic, and containers (`CowData`, `RBMap`,
`RID_Owner`...) that nothing here uses. As that is most of the C++ of the repository and the core
logic is GDScript, the models cover little of the former by lines.

Smooth properties of SyncService. `_process` awaits inside its loop over `_config_cache`
(`sync_service.gd:96`) while nodes enter and leave it; the last update of a property is
sent once and unreliably (line 115), so there is no promise that values ever agree; a peer that
joins gets an intermediate value, and with both Server and Owner as senders a value
echoes. A model would have hardly a property to check that the code claims. Its requested
properties are in `Zone`.

Signal replication and node owner messages: their counters and tests are local to one call.

Simplified: one client in `NodeIds`; ordered reliable channels everywhere (objects
may be given channels of their own); `dominant_replication`; nodes that are taken
out of the tree and put back; registering a packed node that was sent before; packed
nodes below each other (`EnterTree` puts each one directly below the root of its scene, so that none without
a visibility of its own is below one that has one: `replication_service.gd:689-707`, `845-847`, `860-872`); the rate limits
within `Rpc`; script errors, such as that of an object freed while its values are read, or
those of a handler that changes a container under `_poll`'s iterator; a Steam host that is
created again; re-entrant handlers of the signals of `Zone`; files below one write.

What is left to do, in this order:

1. A second client in `NodeIds`.
2. `ClientScenes` over `NodeIds`: identifiers that are drawn again while a request is on its
   way.
3. Signals, and smooth properties as far as a promise can be stated.
