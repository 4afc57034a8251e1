----------------------------- MODULE Connection -----------------------------
(***************************************************************************)
(* The connection of a ClientRoot to a ServerRoot: start_connection and    *)
(* the signals it awaits, repeated attempts (start_multi_connect), the     *)
(* exchange of versions before a peer is let in, and the session (the      *)
(* parts of the api and the services) that exists while connected.         *)
(*                                                                         *)
(* The transport and SceneMultiplayer are external: `link' is what the     *)
(* client's peer has come to, and the peers authenticate each other.       *)
(*                                                                         *)
(* A loop of start_multi_connect awaits its attempt, or runs; when it runs *)
(* it may be in a handler of connection_failed or connection_success, and  *)
(* that may end the connection or the loop, and start another loop.        *)
(***************************************************************************)
EXTENDS Integers, Sequences

CONSTANTS
  Version,     \* the values of MultiplayerConfig.version
  AuthTimeout, \* whether authentication_timeout is greater than 0
  Creatable,   \* whether create_client may, or may not, succeed
  Attempts,    \* the numbers of attempts asked for, -1 for no limit
  MaxHandled   \* bound: loops started by handlers of other loops

ASSUME VersionAssumption  == Version \subseteq Nat
ASSUME CreateAssumption   == Creatable \subseteq BOOLEAN /\ AuthTimeout \in BOOLEAN
ASSUME AttemptsAssumption == Attempts \subseteq Int

VARIABLES
  connection_state,
  awaiting,  \* start_connection awaits _connect_await_end, its signals connected
  timer,     \* _client_setup_timer runs
  multi,     \* _currently_multi_connecting
  loop,      \* the loop that awaits its attempt, and the attempts it has left
  loops,     \* the loops that run: the first does, the others are in the handler that
             \* has started the one before
  handled,   \* how many loops handlers have started
  session,   \* the repository, the rpcs and the services exist
  link,      \* the client's peer: "none", "connecting", "auth" or "up"
  completed, \* the sides that have called complete_auth
  admitted,  \* the server has emitted peer_connected for the client
  server,    \* the server runs
  versions   \* the version of each side

client == <<connection_state, awaiting, timer, multi, loop, loops, handled, session>>
vars   == <<client, link, completed, admitted, server, versions>>

Side   == {"client", "server"}
Trying == {"WAITING", "AUTHENTICATING"}
NoLoop == [at |-> "none", attempts |-> 0]

\* The main thread is inside start_multi_connect: nothing else runs, but the
\* handlers of the signals that an attempt ends with.
Busy      == loops # <<>>
InHandler == Busy => Head(loops).at \in {"failed", "success"}

-----------------------------------------------------------------------------
Init ==
  /\ connection_state = "DISCONNECTED"
  /\ awaiting = FALSE /\ timer = FALSE
  /\ multi = FALSE /\ loop = NoLoop /\ loops = <<>> /\ handled = 0
  /\ session = FALSE
  /\ link = "none" /\ completed = {} /\ admitted = FALSE
  /\ server \in BOOLEAN
  /\ versions \in [Side -> Version]

\* start_connection goes on beyond its first test, and up to its await.
Startable == connection_state \notin Trying \cup {"CONNECTED"}

Begin ==
  /\ Startable /\ TRUE \in Creatable
  /\ connection_state' = "WAITING"
  /\ awaiting' = TRUE /\ timer' = TRUE
  /\ link' = "connecting" /\ completed' = {}

\* start_connection returns false at once: there is an attempt or a connection,
\* or no peer can be made.
Refused ==
  /\ ~ Startable
  /\ UNCHANGED <<connection_state, awaiting, timer, link, completed>>

NotCreated ==
  /\ Startable /\ FALSE \in Creatable
  /\ connection_state' = "DISCONNECTED"
  /\ UNCHANGED <<awaiting, timer, link, completed>>

\* Also from a handler.
StartConnection ==
  /\ InHandler
  /\ Begin \/ Refused \/ NotCreated
  /\ UNCHANGED <<multi, loop, loops, handled, session, admitted, server, versions>>

\* The loop that runs goes on like this.
Continues(at, attempts) == loops' = <<[at |-> at, attempts |-> attempts]>> \o Tail(loops)

\* start_multi_connect, called as its assertion wants it.
StartMultiConnect(n) ==
  /\ InHandler /\ ~ multi
  /\ connection_state = "DISCONNECTED"
  /\ Busy => handled < MaxHandled
  /\ handled' = IF Busy THEN handled + 1 ELSE handled
  /\ multi' = TRUE
  /\ loops' = <<[at |-> "try", attempts |-> n]>> \o loops
  /\ UNCHANGED <<connection_state, awaiting, timer, loop, session,
                 link, completed, admitted, server, versions>>

\* The attempts left after another one; without a limit it does not matter.
Fewer(n) == IF n < 0 THEN n ELSE n - 1

\* A round of the loop calls start_connection, which emits nothing when there is
\* an attempt or a connection, and connection_failed when no peer is made.
TryOnce(n) ==
  \/ Begin /\ loop' = [at |-> "await", attempts |-> n] /\ loops' = Tail(loops)
  \/ Refused /\ Continues("try", Fewer(n)) /\ UNCHANGED loop
  \/ NotCreated /\ Continues("failed", n) /\ UNCHANGED loop

\* start_multi_connect's loop.  One that has used up its attempts ends whatever
\* loop there is.
TryAgain ==
  /\ Busy /\ Head(loops).at = "try"
  /\ IF Head(loops).attempts = 0
       THEN /\ multi' = FALSE /\ loops' = Tail(loops)
            /\ UNCHANGED <<connection_state, awaiting, timer, loop, link, completed>>
       ELSE TryOnce(Head(loops).attempts) /\ UNCHANGED multi
  /\ UNCHANGED <<handled, session, admitted, server, versions>>

\* Fault: the loop does not look whether it was cancelled.
KeepTrying ==
  /\ Busy /\ Head(loops).at = "failed"
  /\ Continues("try", Fewer(Head(loops).attempts))
  /\ UNCHANGED <<connection_state, awaiting, timer, multi, loop, handled, session,
                 link, completed, admitted, server, versions>>

\* An attempt of the loop has failed, and the handlers of that have returned.
AttemptFailed ==
  /\ Busy /\ Head(loops).at = "failed"
  /\ IF multi THEN Continues("try", Fewer(Head(loops).attempts)) ELSE loops' = Tail(loops)
  /\ UNCHANGED <<connection_state, awaiting, timer, multi, loop, handled, session,
                 link, completed, admitted, server, versions>>

\* An attempt of the loop has succeeded, and the handlers have returned.
Succeeded ==
  /\ Busy /\ Head(loops).at = "success"
  /\ multi' = FALSE /\ loops' = Tail(loops)
  /\ UNCHANGED <<connection_state, awaiting, timer, loop, handled, session,
                 link, completed, admitted, server, versions>>

EndMultiConnect ==
  /\ InHandler
  /\ multi' = FALSE
  /\ UNCHANGED <<connection_state, awaiting, timer, loop, loops, handled, session,
                 link, completed, admitted, server, versions>>

-----------------------------------------------------------------------------
\* The loop that awaits the attempt runs again.
Resumed(at) ==
  /\ loop' = NoLoop
  /\ loops' = IF loop.at = "await" THEN <<[at |-> at, attempts |-> loop.attempts]>> ELSE <<>>

\* _connect_await_result with a failure, and the rest of start_connection:
\* the peer is closed, and whoever started the attempt goes on.
Failed(state) ==
  /\ awaiting /\ awaiting' = FALSE
  /\ timer' = FALSE
  /\ connection_state' = state
  /\ link' = "none" /\ completed' = {}
  /\ Resumed("failed")
  /\ UNCHANGED <<multi, handled, session, admitted, server, versions>>

\* connection_failed: there is no server to answer.
ConnectionFailed ==
  /\ ~ Busy
  /\ link = "connecting" /\ ~ server
  /\ Failed("DISCONNECTED")

\* Fault: the timer of the attempt is taken for that of the authentication.
TimeoutIgnored ==
  /\ ~ Busy
  /\ timer /\ timer' = FALSE
  /\ UNCHANGED <<connection_state, awaiting, multi, loop, loops, handled, session,
                 link, completed, admitted, server, versions>>

\* The connection timer, which does nothing once the peers authenticate.
Timeout ==
  /\ ~ Busy
  /\ timer
  /\ IF connection_state = "AUTHENTICATING"
       THEN /\ timer' = FALSE
            /\ UNCHANGED <<connection_state, awaiting, multi, loop, loops, handled, session,
                           link, completed, admitted, server, versions>>
       ELSE Failed("TIMEOUT")

\* peer_authenticating, on both sides: each sends its version.
Authenticating ==
  /\ ~ Busy
  /\ link = "connecting" /\ server /\ ~ admitted
  /\ link' = "auth" /\ completed' = {}
  /\ connection_state' = "AUTHENTICATING"
  /\ UNCHANGED <<awaiting, timer, multi, loop, loops, handled, session, admitted, server, versions>>

\* peer_authentication_failed: the time is up, on either side, or the server
\* has gone.
AuthenticationFailed ==
  /\ ~ Busy
  /\ link = "auth"
  /\ AuthTimeout \/ ~ server
  /\ Failed("AUTH_TIMEOUT")

\* The version is one byte of what is sent and compared.
Sent(side) == versions[side] % 256

\* Fault: whatever was sent is good.
AnyAuth(side) ==
  /\ ~ Busy
  /\ link = "auth" /\ server
  /\ completed' = completed \cup {side}
  /\ UNCHANGED <<client, link, admitted, server, versions>>

\* client_receive_auth, server_receive_auth.
ReceiveAuth(side) ==
  /\ ~ Busy
  /\ link = "auth" /\ server
  /\ Sent("client") = Sent("server")
  /\ completed' = completed \cup {side}
  /\ UNCHANGED <<client, link, admitted, server, versions>>

\* connected_to_server, and the rest of start_connection: the parts of the
\* api are made, and connection_success sets up the services.
Connected ==
  /\ ~ Busy
  /\ link = "auth" /\ completed = Side
  /\ link' = "up"
  /\ awaiting' = FALSE /\ timer' = FALSE
  /\ connection_state' = "CONNECTED"
  /\ session' = TRUE
  /\ Resumed("success")
  /\ UNCHANGED <<multi, handled, completed, admitted, server, versions>>

\* on_peer_connected, at the server.
PeerConnected ==
  /\ link \in {"auth", "up"} /\ server /\ completed = Side
  /\ admitted' = TRUE
  /\ UNCHANGED <<client, link, completed, server, versions>>

\* Fault: the state is left as it is.
StateKept ==
  /\ session' = FALSE
  /\ link' = "none" /\ completed' = {}
  /\ UNCHANGED <<connection_state, awaiting, timer, multi, loop, loops, handled, admitted, server, versions>>

Ended ==
  /\ connection_state' = "DISCONNECTED"
  /\ session' = FALSE
  /\ link' = "none" /\ completed' = {}
  /\ UNCHANGED <<awaiting, timer, multi, loop, loops, handled, admitted, server, versions>>

\* end_connection of the client; and of a client whose server has gone
\* (_on_client_peer_disconnect).
EndConnection   == InHandler /\ connection_state = "CONNECTED" /\ Ended
ServerLost      == ~ Busy /\ connection_state = "CONNECTED" /\ ~ server /\ Ended

\* peer_disconnected, at the server.
PeerDisconnected ==
  /\ admitted /\ link \notin {"auth", "up"}
  /\ admitted' = FALSE
  /\ UNCHANGED <<client, link, completed, server, versions>>

\* start_connection and end_connection of the server.
ServerStart ==
  /\ ~ server /\ link \notin {"auth", "up"}
  /\ server' = TRUE
  /\ UNCHANGED <<client, link, completed, admitted, versions>>

ServerEnd ==
  /\ server
  /\ server' = FALSE /\ admitted' = FALSE
  /\ UNCHANGED <<client, link, completed, versions>>

Next ==
  \/ StartConnection \/ \E n \in Attempts : StartMultiConnect(n)
  \/ TryAgain \/ AttemptFailed \/ Succeeded \/ EndMultiConnect
  \/ ConnectionFailed \/ Timeout \/ Authenticating \/ AuthenticationFailed
  \/ \E side \in Side : ReceiveAuth(side)
  \/ Connected \/ PeerConnected \/ EndConnection \/ ServerLost \/ PeerDisconnected
  \/ ServerStart \/ ServerEnd

\* Timers go off, SceneMultiplayer hands on what has arrived, and the main
\* thread does not stop inside a function; the server and the program promise
\* nothing.
Fairness ==
  /\ WF_vars(Timeout) /\ WF_vars(AuthenticationFailed)
  /\ WF_vars(Connected) /\ \A side \in Side : WF_vars(ReceiveAuth(side))
  /\ WF_vars(TryAgain) /\ WF_vars(AttemptFailed) /\ WF_vars(Succeeded)

Spec == Init /\ [][Next]_vars /\ Fairness

-----------------------------------------------------------------------------
(* Properties *)

\* The variables have their shapes.
TypeOK ==
  /\ connection_state \in Trying \cup {"DISCONNECTED", "TIMEOUT", "AUTH_TIMEOUT", "CONNECTED"}
  /\ {awaiting, timer, multi, session, admitted, server} \subseteq BOOLEAN
  /\ loop \in {NoLoop} \cup [at : {"await"}, attempts : Int]
  /\ loops \in Seq([at : {"try", "failed", "success"}, attempts : Int])
  /\ handled \in 0 .. MaxHandled
  /\ link \in {"none", "connecting", "auth", "up"}
  /\ completed \subseteq Side /\ versions \in [Side -> Version]

\* Whatever order the signals, the timer and the calls come in: the services
\* exist exactly while connected, an attempt is awaited exactly while it is
\* under way, and no peer, timer or loop is left behind.
StateIsConsistent ==
  /\ session <=> connection_state = "CONNECTED"
  /\ awaiting <=> connection_state \in Trying
  /\ link = "connecting" <=> connection_state = "WAITING"
  /\ link = "auth" <=> connection_state = "AUTHENTICATING"
  /\ link = "up" <=> connection_state = "CONNECTED"
  /\ timer => awaiting
  /\ loop.at = "await" => awaiting

\* multiplayer_config.gd: the authentication prevents a server from accepting
\* a client that provides a different version number.
VersionsAgree ==
  connection_state = "CONNECTED" \/ admitted => versions["client"] = versions["server"]

\* Every attempt to connect comes to an end: "How long the ServerRoot/ClientRoot
\* should attempt to create a connection before timing out".  (Only a loop
\* without a limit may keep the main thread, and with it the timer.)
Frozen      == \E i \in 1 .. Len(loops) : loops[i].attempts < 0
AttemptEnds == awaiting ~> ~ awaiting \/ Frozen

\* "Cancels multi-connecting once the current connection attempt is complete": a
\* start_multi_connect that was cancelled ends, unless a handler of the signal its
\* attempt ends with starts another.
CancelledLoopEnds == ~ multi ~> (loop = NoLoop /\ loops = <<>>) \/ Len(loops) > 1
=============================================================================
