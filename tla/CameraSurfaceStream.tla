-------------------------- MODULE CameraSurfaceStream --------------------------
(***************************************************************************)
(* A camera shown on a Surface by a thread of its own                      *)
(* (ArGlassCameraSurfaceStream) and a camera lent to one writer at a time  *)
(* (LeasedFactory, LeasedSurfaceWriter).  The application starts and       *)
(* closes the stream from one thread; its listener, which a run calls on   *)
(* the run's own thread, may close the stream too.  Each start() that      *)
(* takes effect makes a run, and a run opens a reader of its own; the      *)
(* frames are not modelled.                                                *)
(***************************************************************************)
EXTENDS Naturals, FiniteSets

CONSTANTS
    MaxRuns,   \* bound on the threads started
    MaxCloses, \* bound on the listener's calls of close()
    Writers,   \* the attempts to open a leased writer
    None       \* no run

VARIABLES
    running,   \* running
    writer,    \* writer: the run whose writer it is
    thread,    \* thread: the run it is of
    run,       \* per run: where it is in run()
    reader,    \* per run: the camera behind its writer
    call,      \* per actor: where it is in start() or close()
    current,   \* per actor: the thread it has made, or has read and joins
    closes,    \* how often the listener has called close()
    early,     \* the runs that close() did not wait for (history: how many)
    lease,     \* lease of the factory
    leased,    \* per leased writer: where it is in its life
    again      \* leased writers that were closed twice

streamVars == <<running, writer, thread, run, reader, call, current, closes, early>>
leaseVars == <<lease, leased, again>>
surfaceVars == <<streamVars, leaseVars>>

SurfaceAssumption ==
    /\ MaxRuns \in Nat /\ MaxCloses \in Nat
    /\ None \notin 0..MaxRuns
    /\ IsFiniteSet(Writers)

App == 0
Runs == 1..MaxRuns
Actors == {App} \cup Runs
Live == {r \in Runs : run[r] \notin {"none", "done"}}

SurfaceInit ==
    /\ running = FALSE /\ writer = None /\ thread = None
    /\ run = [r \in Runs |-> "none"] /\ reader = [r \in Runs |-> "none"]
    /\ call = [c \in Actors |-> "none"] /\ current = [c \in Actors |-> None]
    /\ closes = 0 /\ early = 0
    /\ lease = FALSE /\ leased = [w \in Writers |-> "none"] /\ again = {}

-----------------------------------------------------------------------------
(* start() and close().  thread is neither volatile nor guarded by a lock: *)
(* each access to it is a step of its own.                                 *)

Goto(c, from, to) == call[c] = from /\ call' = [call EXCEPT ![c] = to]

\* The thread runs before the field names it.
Start(r) ==
    /\ run[r] = "none" /\ \A q \in Runs : q < r => run[q] # "none"
    /\ Goto(App, "none", "assign")
    /\ ~running /\ running' = TRUE
    /\ run' = [run EXCEPT ![r] = "opening"] /\ current' = [current EXCEPT ![App] = r]
    /\ UNCHANGED <<writer, thread, reader, closes, early, leaseVars>>

Assign ==
    /\ Goto(App, "assign", "none")
    /\ thread' = current[App] /\ current' = [current EXCEPT ![App] = None]
    /\ UNCHANGED <<running, writer, run, reader, closes, early, leaseVars>>

\* Where run() calls the listener: the camera cannot be opened, is open, a frame is
\* shown or missing (writeFrame() reports its status), showing it has failed.
InListener == {"failed", "opened", "frame", "threw"}

\* Whoever calls it; a listener does so on the thread of its run, which then waits
\* for nobody to end that run.
Close(c) ==
    /\ Goto(c, "none", "writer")
    /\ running' = FALSE
    /\ IF c = App THEN UNCHANGED <<closes, early>>
       ELSE /\ run[c] \in InListener /\ closes < MaxCloses
            /\ closes' = closes + 1 /\ early' = early + 1
    /\ UNCHANGED <<writer, thread, run, reader, current, leaseVars>>

\* The writer is closed under its thread, which may be reading a frame.
CloseWriter(c) ==
    /\ Goto(c, "writer", "thread")
    /\ reader' = [r \in Runs |-> IF r = writer THEN "closed" ELSE reader[r]]
    /\ UNCHANGED <<running, writer, thread, run, current, closes, early, leaseVars>>

\* Mutant of ReadThread: the thread is not joined.
ReadThreadOnly(c) ==
    /\ Goto(c, "thread", "forget")
    /\ current' = [current EXCEPT ![c] = thread]
    /\ UNCHANGED <<running, writer, thread, run, reader, closes, early, leaseVars>>

\* A thread does not join itself.
ReadThread(c) ==
    /\ Goto(c, "thread", IF thread \in {None, c} THEN "forget" ELSE "join")
    /\ current' = [current EXCEPT ![c] = thread]
    /\ UNCHANGED <<running, writer, thread, run, reader, closes, early, leaseVars>>

\* join(1500), which also gives up when the caller's own thread is interrupted.
Join(c) ==
    /\ Goto(c, "join", "forget")
    /\ early' = IF c = App /\ current[c] \in Live THEN early + 1 ELSE early
    /\ UNCHANGED <<running, writer, thread, run, reader, current, closes, leaseVars>>

\* Whatever the field says by now: it may be the thread of a start() that came after
\* the listener's close() began.
Forget(c) ==
    /\ Goto(c, "forget", "none")
    /\ thread' = None /\ current' = [current EXCEPT ![c] = None]
    /\ early' = IF c # App /\ thread \in Live \ {c} THEN early + 1 ELSE early
    /\ UNCHANGED <<running, writer, run, reader, closes, leaseVars>>

-----------------------------------------------------------------------------
(* run(), which goes on when the listener has returned *)

Turn(r, from, to) ==
    /\ run[r] = from /\ call[r] = "none" /\ run' = [run EXCEPT ![r] = to]
    /\ UNCHANGED <<thread, call, current, closes, early, leaseVars>>

Open(r) ==
    /\ Turn(r, "opening", "opened")
    /\ reader' = [reader EXCEPT ![r] = "open"] /\ writer' = r
    /\ UNCHANGED running

\* It throws, or there is no camera.
OpenFails(r) == Turn(r, "opening", "failed") /\ UNCHANGED <<running, writer, reader>>

\* Whoever else has started the stream meanwhile finds it not running.
FailedStop(r) ==
    /\ Turn(r, "failed", "done")
    /\ running' = FALSE
    /\ UNCHANGED <<writer, reader>>

Loop(r) ==
    /\ running /\ Turn(r, "loop", "frame")
    /\ UNCHANGED <<running, writer, reader>>

\* The listener was told that the camera is open, or the frame was written.
LoopOn(r) ==
    /\ Turn(r, "opened", "loop") \/ Turn(r, "frame", "loop")
    /\ UNCHANGED <<running, writer, reader>>

\* running is down, the surface is not valid, or writeFrame() returns false; or it
\* throws, of which the listener is told if the stream is still running.
LoopEnds(r) ==
    /\ \/ Turn(r, "loop", "close")
       \/ Turn(r, "frame", "close")
       \/ running /\ Turn(r, "frame", "threw")
       \/ Turn(r, "threw", "close")
    /\ UNCHANGED <<running, writer, reader>>

\* The finally clause, step by step; it looks at nobody else's writer.
FinallyClose(r) ==
    /\ Turn(r, "close", "forget")
    /\ reader' = [reader EXCEPT ![r] = "closed"]
    /\ UNCHANGED <<running, writer>>

FinallyForget(r) ==
    /\ Turn(r, "forget", "stop")
    /\ writer' = None
    /\ UNCHANGED <<running, reader>>

FinallyStop(r) ==
    /\ Turn(r, "stop", "done")
    /\ running' = FALSE
    /\ UNCHANGED <<writer, reader>>

-----------------------------------------------------------------------------
(* The leased factory *)

Lend(w, from, to) ==
    /\ leased[w] = from /\ leased' = [leased EXCEPT ![w] = to]
    /\ UNCHANGED streamVars

TakeLease(w) ==
    /\ Lend(w, "none", "opening")
    /\ ~lease /\ lease' = TRUE
    /\ UNCHANGED again

OpenLeased(w) == Lend(w, "opening", "open") /\ UNCHANGED <<lease, again>>

\* No camera, or open() throws: there is no writer then, and another try is one.
OpenLeasedFails(w) ==
    /\ Lend(w, "opening", "none")
    /\ lease' = FALSE
    /\ UNCHANGED again

\* LeasedSurfaceWriter.close(): the camera first, then the lease.
CloseLeased(w) == Lend(w, "open", "free") /\ UNCHANGED <<lease, again>>

FreeLease(w) ==
    /\ Lend(w, "free", "closed")
    /\ lease' = FALSE
    /\ UNCHANGED again

\* close() once more, after the first or beside it: the lease may be another
\* writer's by now.
CloseAgain(w) ==
    /\ leased[w] \in {"free", "closed"} /\ w \notin again
    /\ lease' = FALSE /\ again' = again \cup {w}
    /\ UNCHANGED <<streamVars, leased>>

StreamNext ==
    \/ Assign
    \/ \E c \in Actors : Close(c) \/ CloseWriter(c) \/ ReadThread(c) \/ Join(c) \/ Forget(c)
    \/ \E r \in Runs :
         \/ Start(r) \/ OpenFails(r) \/ FailedStop(r) \/ Open(r) \/ Loop(r) \/ LoopOn(r)
         \/ LoopEnds(r) \/ FinallyClose(r) \/ FinallyForget(r) \/ FinallyStop(r)

LeaseNext ==
    \E w \in Writers :
        \/ TakeLease(w) \/ OpenLeased(w) \/ OpenLeasedFails(w)
        \/ CloseLeased(w) \/ FreeLease(w) \/ CloseAgain(w)

SurfaceNext == StreamNext \/ LeaseNext

SurfaceSpec == SurfaceInit /\ [][SurfaceNext]_surfaceVars

-----------------------------------------------------------------------------
SurfaceTypeOK ==
    /\ running \in BOOLEAN /\ lease \in BOOLEAN /\ early \in Nat
    /\ closes \in 0..MaxCloses
    /\ writer \in Runs \cup {None} /\ thread \in Runs \cup {None}
    /\ run \in [Runs -> {"none", "opening", "failed", "opened", "loop", "frame", "threw",
                         "close", "forget", "stop", "done"}]
    /\ reader \in [Runs -> {"none", "open", "closed"}]
    /\ call \in [Actors -> {"none", "assign", "writer", "thread", "join", "forget"}]
    /\ current \in [Actors -> Runs \cup {None}]
    /\ leased \in [Writers -> {"none", "opening", "open", "free", "closed"}]
    /\ again \subseteq Writers

\* Only the application starts, and a run is in close() only from its listener.
CallsAreInPlace ==
    \A r \in Runs :
        /\ call[r] # "assign" /\ (call[r] # "none" => run[r] \in InListener)
        /\ call[App] = "assign" /\ running /\ current[App] = r => call[r] = "none"

\* A stream that says it is running has a run that will take it back: no start() is
\* refused for ever.
Latest(r) == run[r] # "none" /\ \A q \in Runs : q > r => run[q] = "none"
RunningHasRun == running => \E r \in Live : Latest(r)
RunsAreInOrder == \A q, r \in Runs : q < r /\ run[q] = "none" => run[r] = "none"

\* The run that a close() of the application joins, or one that begins now would; a
\* run that is being closed by its own listener is waited for by nobody.
Known == IF thread \in Runs /\ call[thread] = "none" THEN thread ELSE None
Waited ==
    CASE call[App] = "none"                 -> IF running THEN Known ELSE None
      [] call[App] = "assign"               -> IF running THEN current[App] ELSE None
      [] call[App] \in {"writer", "thread"} -> Known
      [] call[App] = "join"                 -> current[App]
      [] call[App] = "forget"               -> None

\* All other runs have a close() to account for them: a join that gave up; a close()
\* of the listener, which waits for its own run never; and one that has forgotten
\* the thread of a start() that came between its steps.
RunsAreAccounted == Cardinality(Live \ {Waited}) <= early

\* So two runs show the camera only if close() did not wait, and a stream that was
\* closed by the application, or has ended, has no camera open unless it did not.
OneRun == Cardinality(Live) <= 1 + early
ClosedLeavesNothing ==
    call[App] = "none" /\ ~running /\ early = 0 => \A r \in Runs : reader[r] # "open"

\* A reader is open only where its run will close it.
OpenIsClosed ==
    \A r \in Runs : reader[r] = "open" => run[r] \in {"opened", "loop", "frame", "threw", "close"}

\* A lease that is up has its owner, one that is down has none, and there is one at a
\* time, but for one more with each writer that was closed twice.
Owners == {w \in Writers : leased[w] \in {"opening", "open", "free"}}
LeaseIsExclusive ==
    /\ lease => Owners # {}
    /\ Cardinality(Owners) <= Cardinality(again) + (IF lease THEN 1 ELSE 0)

SurfaceInv ==
    /\ SurfaceTypeOK
    /\ CallsAreInPlace
    /\ RunsAreInOrder
    /\ RunningHasRun
    /\ RunsAreAccounted
    /\ OneRun
    /\ ClosedLeavesNothing
    /\ OpenIsClosed
    /\ LeaseIsExclusive
=============================================================================
