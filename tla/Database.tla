------------------------------ MODULE Database ------------------------------
(***************************************************************************)
(* DatabaseService: objects whose values are read from a database when     *)
(* they are tracked, and written back then, by the autosave, and when they *)
(* are untracked or freed.  TextDB answers at once; PostgresDB answers     *)
(* later, every request in its own time, and the callers await it.         *)
(*                                                                         *)
(* The values of an object are its progress, a number that only grows and  *)
(* starts at 0; 0 in the database is a key without an entry.               *)
(***************************************************************************)
EXTENDS Naturals

CONSTANTS
  Object,
  Key,
  Setups,     \* the programs: [key, async], the key of each object
              \* and whether the database answers later
  MaxProgress \* bound: the progress of an object

VARIABLES
  setup,         \* the program at hand, and whether its database answers later
  phase,         \* what track_object has come to for each object
  tracked,       \* _tracked_objects
  locked,        \* _track_locked
  value,         \* the values of each object
  store,         \* the database
  requests       \* requests to the database, until the caller goes on

vars == <<setup, phase, tracked, locked, value, store, requests>>

Phase == {"new", "waiting", "reading", "saving", "done"}

Read(o) == [op |-> "read", object |-> o, value |-> 0, served |-> FALSE]

\* save_object: the values are those of this moment.
Write(op, o) == [op |-> op, object |-> o, value |-> value[o], served |-> FALSE]

\* With TextDB no function of the service stops half-way.
MayRun == setup.async \/ requests = {}

Waiting == {o \in Object : phase[o] = "waiting"}

-----------------------------------------------------------------------------
Init ==
  /\ setup \in Setups
  /\ phase = [o \in Object |-> "new"]
  /\ tracked = {}
  /\ locked = FALSE
  /\ value = [o \in Object |-> 0]
  /\ store = [k \in Key |-> 0]
  /\ requests = {}

\* track_object past its barrier, for the objects in O.
Tracking(O) ==
  /\ locked' = (O # {})
  /\ tracked' = tracked \cup O

\* Fault: the barrier is not there.
TrackAtOnce(o) ==
  /\ MayRun /\ phase[o] = "new"
  /\ \A q \in Object : setup.key[q] = setup.key[o] => phase[q] = "new" \/ (phase[q] = "done" /\ q \notin tracked)
  /\ Tracking({o})
  /\ phase' = [phase EXCEPT ![o] = "reading"]
  /\ requests' = requests \cup {Read(o)}
  /\ UNCHANGED <<value, store>>

\* track_object, up to its barrier or to the read.  The program tracks one
\* object at a time under a key.
TrackObject(o) ==
  /\ MayRun
  /\ phase[o] = "new"
  /\ \A q \in Object : setup.key[q] = setup.key[o] => phase[q] = "new" \/ (phase[q] = "done" /\ q \notin tracked)
  /\ IF locked
       THEN /\ phase' = [phase EXCEPT ![o] = "waiting"]
            /\ UNCHANGED <<locked, tracked, requests>>
       ELSE /\ Tracking({o})
            /\ phase' = [phase EXCEPT ![o] = "reading"]
            /\ requests' = requests \cup {Read(o)}
  /\ UNCHANGED <<value, store>>

\* Fault: the barrier is not opened again.
CompleteSilently(o, rest) ==
  /\ phase' = [phase EXCEPT ![o] = "done"]
  /\ requests' = rest
  /\ UNCHANGED <<locked, tracked>>

\* What track_object awaits at each request.
Awaiting == [read |-> "reading", save |-> "saving"]

\* The end of track_object: _track_complete wakes everyone at the barrier.
Complete(o, rest) ==
  /\ phase' = [q \in Object |-> IF q = o THEN "done"
                                ELSE IF q \in Waiting THEN "reading" ELSE phase[q]]
  /\ Tracking(Waiting)
  /\ requests' = rest \cup {Read(q) : q \in Waiting}

\* The database handles a request.
Serve(r) ==
  /\ ~ r.served
  /\ IF r.op = "read"
       THEN /\ requests' = (requests \ {r}) \cup
                             {[r EXCEPT !.served = TRUE, !.value = store[setup.key[r.object]]]}
            /\ UNCHANGED store
       ELSE /\ requests' = (requests \ {r}) \cup {[r EXCEPT !.served = TRUE]}
            /\ store' = [store EXCEPT ![setup.key[r.object]] = r.value]
  /\ UNCHANGED <<phase, tracked, locked, value>>

\* Fault: what was read is not applied.
NotApplied(o, v) == value

Applied(o, v) == IF v = 0 THEN value ELSE [value EXCEPT ![o] = v]

\* track_object goes on with what it read: it saves the object, unless that is
\* not tracked any more.
ReadDone(r) ==
  LET o == r.object IN
  /\ r.op = "read" /\ r.served
  /\ value' = Applied(o, r.value)
  /\ IF o \in tracked
       THEN /\ phase' = [phase EXCEPT ![o] = "saving"]
            /\ requests' = (requests \ {r}) \cup
                 {[op |-> "save", object |-> o, value |-> value'[o], served |-> FALSE]}
            /\ UNCHANGED <<tracked, locked>>
       ELSE Complete(o, requests \ {r})
  /\ UNCHANGED store

\* A write is done; only track_object has more to do.
WriteDone(r) ==
  /\ r.op # "read" /\ r.served
  /\ IF r.op = "save"
       THEN Complete(r.object, requests \ {r})
       ELSE requests' = requests \ {r} /\ UNCHANGED <<phase, tracked, locked>>
  /\ UNCHANGED <<value, store>>

\* untrack_object, also of an object about to be freed.
UntrackObject(o) ==
  /\ MayRun
  /\ o \in tracked
  /\ requests' = requests \cup {Write("untrack", o)}
  /\ tracked' = tracked \ {o}
  /\ UNCHANGED <<phase, locked, value, store>>

\* _autosave: it saves what is tracked, and awaits each write.
Autosave(o) ==
  /\ MayRun
  /\ o \in tracked
  /\ \A r \in requests : r.op # "autosave"
  /\ requests' = requests \cup {Write("autosave", o)}
  /\ UNCHANGED <<phase, tracked, locked, value, store>>

\* The game goes on.
Play(o) ==
  /\ MayRun
  /\ phase[o] = "done" /\ o \in tracked
  /\ value[o] < MaxProgress
  /\ value' = [value EXCEPT ![o] = @ + 1]
  /\ UNCHANGED <<phase, tracked, locked, store, requests>>

Next ==
  /\ \/ \E o \in Object : TrackObject(o) \/ UntrackObject(o) \/ Autosave(o) \/ Play(o)
     \/ \E r \in requests : Serve(r) \/ ReadDone(r) \/ WriteDone(r)
  /\ UNCHANGED setup

\* The database answers the requests of every track_object, and that goes on,
\* however many other requests there are.
Fairness ==
  \A o \in Object :
    WF_vars(\E r \in requests : /\ r.object = o /\ r.op \in {"read", "save"}
                                /\ Serve(r) \/ ReadDone(r) \/ WriteDone(r)
                                /\ UNCHANGED setup)

Spec == Init /\ [][Next]_vars /\ Fairness

-----------------------------------------------------------------------------
(* Properties *)

\* The variables have their shapes, and each object being tracked has the one
\* request its track_object awaits.
TypeOK ==
  /\ setup \in Setups
  /\ phase \in [Object -> Phase]
  /\ tracked \subseteq Object /\ locked \in BOOLEAN
  /\ value \in [Object -> 0 .. MaxProgress] /\ store \in [Key -> 0 .. MaxProgress]
  /\ requests \subseteq [op : {"read", "save", "untrack", "autosave"}, object : Object,
                         value : 0 .. MaxProgress, served : BOOLEAN]
  /\ \A o \in Object, op \in {"read", "save"} :
       (\E r \in requests : r.object = o /\ r.op = op) <=> phase[o] = Awaiting[op]

\* database_service.gd: "Barrier to prevent multiple concurrent tracks".
OneTrackAtATime ==
  \A o, p \in Object : {phase[o], phase[p]} \subseteq {"reading", "saving"} => o = p

\* Every object whose tracking was asked for is tracked in the end: nobody
\* stays at the barrier.
TracksEnd == \A o \in Object : phase[o] # "new" ~> phase[o] = "done"

\* What a database that answers at once holds is never replaced by less: an
\* object's values are saved over those stored only once those have been applied
\* to it.  (One that answers later orders nothing: the autosave may overtake the
\* read of track_object, and one write another.)
NoProgressLost == [][setup.async \/ \A k \in Key : store'[k] >= store[k]]_vars
=============================================================================
