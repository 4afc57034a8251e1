------------------------------- MODULE Services -------------------------------
(* Small parts, which have nothing to do with each other: the repository of    *)
(* identifiers, DatabaseService, NetBarrier and RateLimiter. One module puts   *)
(* them side by side, each with its own constants and variables, so that they  *)
(* are checked and proved about together.                                      *)
EXTENDS Repository, Sequences

CONSTANTS
  Saved, Key, Setups, MaxProgress,  \* DatabaseService: the objects it tracks
  Peer, MaxRounds,                  \* NetBarrier
  count, duration, MaxTime          \* RateLimiter, for the same clients

VARIABLES
  setup, phase, tracked, locked, value, store, requests,
  awaiting_peers, timer, emitting, connected, coming, round,
  asked, clean, said, heard, elapsed, completed, dropped,
  now, ids, log

D == INSTANCE Database WITH Object <- Saved
B == INSTANCE NetBarrier
L == INSTANCE RateLimiter WITH Peers <- Peer

\* Setups: every object has a key, and the database one way to answer.
ASSUME SetupsAssumption == Setups \subseteq [key : [Saved -> Key], async : BOOLEAN] /\ MaxProgress \in Nat
ASSUME LimitAssumption  == count \in Nat /\ duration \in Nat

(* The properties of the parts: what each says, of which code, is there. *)

\* DatabaseService: one object is tracked at a time, which is so with two objects
\* and not with three.
OneTrackAtATime == D!OneTrackAtATime
\* DatabaseService: every track_object ends.
TracksEnd == D!TracksEnd
\* DatabaseService: what a database that answers at once holds is not replaced by less.
NoProgressLost == D!NoProgressLost
\* NetBarrier: complete is not emitted before all have answered or the time is up,
\* in a round that nothing of an earlier one reaches into.
NotEarly == B!NotEarly
\* NetBarrier: a round that the server has ended completes, whoever never answers.
EndCompletes == B!EndCompletes
\* RateLimiter: count + 1 requests take longer than duration, and what is compared
\* with count are the requests of the last duration.
LimitIsExact == L!NeverTooMany /\ L!WindowIsExact
==============================================================================
