--------------------------------- MODULE Rpc ---------------------------------
(***************************************************************************)
(* Remote calls of one method of one node (api/rpc.gd, with the filters    *)
(* and modifiers that ReplicationService installs in it).  Clients talk to *)
(* the server only, which runs a call, sends it on to other clients, or    *)
(* both.  A handler may make calls of its own before it returns.           *)
(*                                                                         *)
(* Each process is single-threaded: it has a stack of the handlers it is   *)
(* in.  Between processes there are reliable, ordered channels.  Clients   *)
(* have a copy of the node, with its identifier, as NodeIds has it.        *)
(*                                                                         *)
(* The target of a call is a peer p, 0 for every peer, or -p for all but p.*)
(***************************************************************************)
EXTENDS Integers, Sequences, FiniteSets, SequencesExt

CONSTANTS
  Client,        \* the identifiers of the clients; the server has 1
  Owner,         \* the node owner
  Configs,       \* the method's configurations
  ClientTargets, \* the targets clients use
  Wrap,          \* 2^32: targets are written with 32 bits
  Nesting,       \* whether handlers make calls of a call_local method
  MaxCalls       \* bound: calls

Peer == Client \cup {1}
Role == {"Server", "Owner", "Client"}
Targets == Peer \cup {0} \cup {-p : p \in Peer}

ASSUME PeerAssumption   == Client \subseteq Nat \ {0, 1} /\ Owner \in Peer
ASSUME BoundAssumption  == MaxCalls \in Nat
ASSUME WrapAssumption   == Wrap \in Nat /\ \A p \in Peer : 2 * p < Wrap
ASSUME TargetAssumption == ClientTargets \subseteq Targets
ASSUME ConfigAssumption ==
  Configs \subseteq [send : SUBSET Role, recv : SUBSET Role, call_local : BOOLEAN]

VARIABLES
  config,        \* the method's configuration
  observers,     \* the clients that see the node
  calls,         \* the calls made: who made them, and what for
  up,            \* up[c]: calls on their way from client c to the server
  down,          \* down[c]: those on their way to client c, with their sender
  stack,         \* the handlers each process is in
  remote_sender, \* of each process
  got            \* got[k][p]: how often call k ran at peer p

vars == <<config, observers, calls, up, down, stack, remote_sender, got>>

RoleOf(p) == IF p = 1 THEN "Server" ELSE IF p = Owner THEN "Owner" ELSE "Client"

CanSend(p) == RoleOf(p) \in config.send

CanRecv(p) == RoleOf(p) \in config.recv

\* The clients the server sends a call to: _target_peer_modifier keeps those
\* that see the node, and the peer a call comes from is skipped.
Recipients(from, to) ==
  {c \in Client : /\ to = 0 \/ to = c \/ (to < 0 /\ to # -c)
                  /\ CanRecv(c) /\ c \in observers /\ c # from}

\* The queues to the clients once call k is sent, under the name of `from'.
Sent(k, from, to) ==
  [c \in Client |-> IF c \in Recipients(from, to)
                      THEN Append(down[c], [call |-> k, from |-> from]) ELSE down[c]]

Begun(p, k, from, remote) ==
  /\ stack' = [stack EXCEPT ![p] = Append(@, [call |-> k, from |-> from, remote |-> remote])]
  /\ remote_sender' = [remote_sender EXCEPT ![p] = from]
  /\ got' = [got EXCEPT ![k][p] = @ + 1]

-----------------------------------------------------------------------------
Init ==
  /\ config \in Configs
  /\ observers \in SUBSET Client
  /\ calls = << >>
  /\ up = [c \in Client |-> << >>]
  /\ down = [c \in Client |-> << >>]
  /\ stack = [p \in Peer |-> << >>]
  /\ remote_sender = [p \in Peer |-> 0]
  /\ got = [k \in 1 .. MaxCalls |-> [p \in Peer |-> 0]]

\* outbound_rpc, called at the top or in a handler: the call is sent, then
\* run at once when it is call_local.
OutboundRpc(p, to) ==
  LET k == Len(calls) + 1
  IN  /\ k <= MaxCalls
      /\ stack[p] = << >> \/ (Len(stack[p]) = 1 /\ (config.call_local => Nesting))
      /\ p = 1 \/ CanSend(p)
      /\ calls' = Append(calls, [from |-> p, to |-> to, seen |-> observers])
      /\ IF p = 1
           THEN down' = Sent(k, 1, to) /\ UNCHANGED up
           ELSE /\ up' = [up EXCEPT ![p] = IF to = p THEN @ ELSE Append(@, k)]
                /\ UNCHANGED down
      /\ IF config.call_local THEN Begun(p, k, p, FALSE)
                              ELSE UNCHANGED <<stack, remote_sender, got>>
      /\ UNCHANGED <<config, observers>>

\* The target as the server reads it.
Wired(to) == to % Wrap

Received(c) ==
  /\ stack[1] = << >> /\ up[c] # << >>
  /\ up' = [up EXCEPT ![c] = Tail(@)]
  /\ calls' = [calls EXCEPT ![Head(up[c])].seen = observers]
  /\ UNCHANGED <<config, observers>>

\* inbound_rpc drops a call: _rpc_filter wants both clients to see the node.
Filtered(c, to) == to > 1 /\ ~ {c, to} \subseteq observers

InboundFiltered(c) ==
  /\ Received(c)
  /\ Filtered(c, Wired(calls[Head(up[c])].to))
  /\ UNCHANGED <<down, stack, remote_sender, got>>

\* inbound_rpc of a call for the server, or for every peer: its handler runs.
InboundRun(c) ==
  LET k == Head(up[c]) IN
  /\ Received(c)
  /\ Wired(calls[k].to) \in {0, 1} /\ CanRecv(1)
  /\ Begun(1, k, c, TRUE)
  /\ UNCHANGED down

\* Fault: a call is sent on in the name of the server.
ForwardedAsServer(k) == Sent(k, 1, Wired(calls[k].to))

\* What is sent on of call k, in the name of its caller (srs_override).
Forwarded(k) ==
  IF Wired(calls[k].to) = 1 THEN down ELSE Sent(k, calls[k].from, Wired(calls[k].to))

\* inbound_rpc of a call for another client, or for all when the server does
\* not run it.
InboundForward(c) ==
  LET k == Head(up[c]) IN
  /\ Received(c)
  /\ ~ Filtered(c, Wired(calls[k].to))
  /\ Wired(calls[k].to) \in {0, 1} => ~ CanRecv(1)
  /\ down' = Forwarded(k)
  /\ UNCHANGED <<stack, remote_sender, got>>

\* inbound_rpc at a client.
InboundClient(c) ==
  /\ stack[c] = << >> /\ down[c] # << >>
  /\ down' = [down EXCEPT ![c] = Tail(@)]
  /\ Begun(c, Head(down[c]).call, Head(down[c]).from, TRUE)
  /\ UNCHANGED <<config, observers, calls, up>>

\* Fault: a broadcast the server has run goes no further.
ReturnOnly(p) ==
  /\ stack[p] # << >>
  /\ stack' = [stack EXCEPT ![p] = Front(@)]
  /\ remote_sender' = [remote_sender EXCEPT ![p] = 0]
  /\ UNCHANGED <<config, observers, calls, up, down, got>>

\* A handler returns.  The server sends on the broadcast of a client it ran.
Return(p) ==
  /\ stack[p] # << >>
  /\ stack' = [stack EXCEPT ![p] = Front(@)]
  /\ remote_sender' = [remote_sender EXCEPT ![p] = 0]
  /\ IF p = 1 /\ Last(stack[p]).remote
       THEN /\ down' = Forwarded(Last(stack[p]).call)
            /\ calls' = [calls EXCEPT ![Last(stack[p]).call].seen = observers]
       ELSE UNCHANGED <<calls, down>>
  /\ UNCHANGED <<config, observers, up, got>>

\* ReplicationService shows the node to a client, or hides it.
Observe(c) ==
  /\ observers' = IF c \in observers THEN observers \ {c} ELSE observers \cup {c}
  /\ UNCHANGED <<config, calls, up, down, stack, remote_sender, got>>

Next ==
  \/ \E to \in Targets : OutboundRpc(1, to)
  \/ \E c \in Client, to \in ClientTargets : OutboundRpc(c, to)
  \/ \E c \in Client : \/ InboundFiltered(c) \/ InboundRun(c) \/ InboundForward(c)
                       \/ InboundClient(c) \/ Observe(c)
  \/ \E p \in Peer : Return(p)

Spec == Init /\ [][Next]_vars

-----------------------------------------------------------------------------
(* Properties *)

\* The variables have their shapes.
TypeOK ==
  /\ config \in Configs /\ observers \subseteq Client
  /\ Len(calls) <= MaxCalls
  /\ \A k \in 1 .. Len(calls) :
       calls[k] \in [from : Peer, to : Targets, seen : SUBSET Client]
  /\ up \in [Client -> Seq(1 .. MaxCalls)]
  /\ down \in [Client -> Seq([call : 1 .. MaxCalls, from : Peer])]
  /\ stack \in [Peer -> Seq([call : 1 .. MaxCalls, from : Peer, remote : BOOLEAN])]
  /\ remote_sender \in [Peer -> Peer \cup {0}]
  /\ got \in [1 .. MaxCalls -> [Peer -> Nat]]

\* A handler always finds in remote_sender the peer that made its call, over
\* the server too, and whatever calls it has made itself so far.
SenderIsCaller ==
  \A p \in Peer : stack[p] # << >> =>
    /\ remote_sender[p] = calls[Last(stack[p]).call].from

\* The peers that are to run a call, from the configuration of the method and
\* the clients that saw the node when the server sent it, or sent it on.
Intended(k) ==
  LET from == calls[k].from
      to   == calls[k].to
      meant(p) == to = 0 \/ to = p \/ (to < 0 /\ to # -p)
      sees(p) == p = 1 \/ p \in calls[k].seen
  IN  {p \in Peer \ {from} :
         /\ meant(p) /\ CanRecv(p) /\ sees(p)
         /\ to > 1 => sees(from)}
      \cup {p \in {from} : config.call_local}

\* Once nothing is under way, every call has run once, whichever way it got
\* there, at the peers that were meant and allowed to run it, and at no other:
\* not again where it was made, or at the server on the way.
CallsReachTheirTargets ==
  (\A c \in Client : up[c] = << >> /\ down[c] = << >>) /\ (\A p \in Peer : stack[p] = << >>) =>
    \A k \in 1 .. Len(calls), p \in Peer : got[k][p] = IF p \in Intended(k) THEN 1 ELSE 0
=============================================================================
