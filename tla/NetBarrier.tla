----------------------------- MODULE NetBarrier -----------------------------
(***************************************************************************)
(* NetBarrier: the server names the peers it waits for (start); each of    *)
(* them, and the server, says when it is done (end).  The signal complete  *)
(* is emitted when the last of the peers has said so, or some time after   *)
(* the server has.                                                         *)
(*                                                                         *)
(* A round lasts from one start to the next.  What a client says is an     *)
(* rpc: it takes its time, and is lost with its client.  Handlers of       *)
(* complete may start the next round, and end it, before the signal that a *)
(* last answer emits has returned.                                         *)
(***************************************************************************)
EXTENDS Naturals

CONSTANTS
  Peer,      \* the clients
  MaxRounds  \* bound: rounds

VARIABLES
  awaiting_peers,
  timer,       \* _timeout_ival runs
  emitting,    \* _receive_end is in complete.emit(): handlers run, nothing else
  connected,   \* the clients that are connected
  coming,      \* clients' calls of _receive_end on their way
  round,
  asked,       \* the peers that this round was started for
  clean,       \* nothing of an earlier round was left when this one was started
  said,        \* who has called end in this round; 0 is the server
  heard,       \* whose end of this round the server has handled
  elapsed,     \* the timeout of an end of this round has passed
  completed,   \* how often complete was emitted in this round
  dropped      \* the timer of this round was killed by the round before

history == <<asked, clean, said, heard, elapsed, completed, dropped>>
vars == <<awaiting_peers, timer, emitting, connected, coming, round, history>>

-----------------------------------------------------------------------------
Init ==
  /\ awaiting_peers = {} /\ timer = FALSE /\ emitting = FALSE
  /\ connected = Peer /\ coming = {}
  /\ round = 0 /\ asked = {} /\ clean = TRUE /\ said = {} /\ heard = {}
  /\ elapsed = FALSE /\ completed = 0 /\ dropped = FALSE

\* start, also from a handler of complete.  (There a timer that still runs is
\* about to be killed.)
Start(S) ==
  /\ round < MaxRounds
  /\ round' = round + 1
  /\ awaiting_peers' = S /\ asked' = S
  /\ clean' = (coming = {} /\ (timer => emitting))
  /\ said' = {} /\ heard' = {} /\ elapsed' = FALSE /\ completed' = 0 /\ dropped' = FALSE
  /\ UNCHANGED <<timer, emitting, connected, coming>>

\* end, at a client.
ClientEnd(p) ==
  /\ round > 0
  /\ p \in connected \ said
  /\ said' = said \cup {p}
  /\ coming' = coming \cup {[peer |-> p, round |-> round]}
  /\ UNCHANGED <<awaiting_peers, timer, emitting, connected, round, asked, clean,
                 heard, elapsed, completed, dropped>>

\* end, at the server: a timer that already runs is replaced.
ServerEnd ==
  /\ round > 0
  /\ 0 \notin said
  /\ said' = said \cup {0}
  /\ timer' = TRUE
  /\ UNCHANGED <<awaiting_peers, emitting, connected, coming, round, asked, clean,
                 heard, elapsed, completed, dropped>>

\* Fault: complete is emitted for the first peer.
CheckedFirst(now) ==
  IF awaiting_peers # {} /\ now # awaiting_peers
    THEN completed' = completed + 1 /\ emitting' = TRUE /\ UNCHANGED timer
    ELSE UNCHANGED <<completed, emitting, timer>>

\* Fault: the timer is killed by every answer.
CheckedKilling(now) ==
  /\ timer' = FALSE
  /\ IF awaiting_peers # {} /\ now = {}
       THEN completed' = completed + 1 /\ emitting' = TRUE
       ELSE UNCHANGED <<completed, emitting>>

\* What the server does once awaiting_peers has been brought up to date, up to
\* the end of complete.emit().
Checked(now) ==
  /\ IF awaiting_peers # {} /\ now = {}
       THEN completed' = completed + 1 /\ emitting' = TRUE
       ELSE UNCHANGED <<completed, emitting>>
  /\ UNCHANGED timer

\* _receive_end
ReceiveEnd(m) ==
  /\ ~ emitting
  /\ coming' = coming \ {m}
  /\ awaiting_peers' = awaiting_peers \ {m.peer}
  /\ heard' = IF m.round = round THEN heard \cup {m.peer} ELSE heard
  /\ Checked(awaiting_peers')
  /\ UNCHANGED <<connected, round, asked, clean, said, elapsed, dropped>>

\* The handlers have returned, and _receive_end kills whatever timer runs: also
\* the one of a round that they have started and ended.
Emitted ==
  /\ emitting /\ emitting' = FALSE
  /\ timer' = FALSE
  /\ dropped' = (dropped \/ (0 \in said /\ completed = 0))
  /\ UNCHANGED <<awaiting_peers, connected, coming, round, asked, clean, said, heard,
                 elapsed, completed>>

\* The tween of end comes to its callback.
Elapse ==
  /\ ~ emitting
  /\ timer /\ timer' = FALSE
  /\ elapsed' = (0 \in said)
  /\ completed' = completed + 1
  /\ UNCHANGED <<awaiting_peers, emitting, connected, coming, round, asked, clean, said,
                 heard, dropped>>

\* A client disconnects; the barrier does not take it out.
Disconnect(p) ==
  /\ p \in connected
  /\ connected' = connected \ {p}
  /\ coming' = {m \in coming : m.peer # p}
  /\ UNCHANGED <<awaiting_peers, timer, emitting, round, history>>

Next ==
  \/ \E S \in SUBSET connected : Start(S)
  \/ \E p \in Peer : ClientEnd(p) \/ Disconnect(p)
  \/ ServerEnd \/ Elapse \/ Emitted
  \/ \E m \in coming : ReceiveEnd(m)

\* Timers go off, and handlers return.
Fairness == WF_vars(Elapse) /\ WF_vars(Emitted)

Spec == Init /\ [][Next]_vars /\ Fairness

-----------------------------------------------------------------------------
(* Properties *)

\* The variables have their shapes.  An emission of complete is a last peer's,
\* that of this round's timer or that of an older one.
TypeOK ==
  /\ awaiting_peers \subseteq Peer /\ asked \subseteq Peer /\ connected \subseteq Peer
  /\ coming \subseteq [peer : Peer, round : 1 .. MaxRounds]
  /\ round \in 0 .. MaxRounds /\ said \subseteq Peer \cup {0} /\ heard \subseteq Peer
  /\ {timer, emitting, clean, elapsed, dropped} \subseteq BOOLEAN
  /\ completed \in 0 .. 3

\* complete is not emitted before all the peers of the round have said that
\* they are done, or the time has passed since the server has: "All clients must
\* call this function for the complete signal to be emitted".  That is so in a
\* round that is started when no answer is on its way and no timer runs; an
\* answer carries no round, and a timer outlives its own.
NotEarly ==
  clean /\ completed > 0 => elapsed \/ (asked # {} /\ asked \subseteq heard)

\* Once the server has said so the round completes, or another one is started,
\* whoever never answers: but not when start and end were called by a handler of
\* complete that a last answer has set off.
EndCompletes ==
  \A r \in 1 .. MaxRounds :
    round = r /\ 0 \in said ~> completed > 0 \/ round > r \/ dropped
=============================================================================
