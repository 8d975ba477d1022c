-------------------------- MODULE TransportsProofs --------------------------
(***************************************************************************)
(* Proofs about the parts that MCTransports composes, and of the           *)
(* composition: the parts share no state, so an invariant of a part that   *)
(* its steps keep is one of every behaviour of the composition.            *)
(***************************************************************************)
EXTENDS MCTransports, FiniteSetTheorems, TLAPS

\* What the parts of OwnerInv are made of.
LEMMA OwnerStep ==
    ASSUME Owner!OwnerAssumption, Owner!OwnerInv, Owner!OwnerNext
    PROVE  Owner!OwnerInv'
<1> USE DEF Owner!OwnerAssumption, Owner!OwnerInv, Owner!OwnerTypeOK, Owner!HeldIsOpened,
        Owner!ClosedInsideOut, Owner!ReaderIsOutlived, Owner!CloseLeavesNothing,
        Owner!FailedOpenLeaves, Owner!Opened, Owner!Wanted, Owner!Sessions, Owner!UsbSessions,
        Owner!AllInterfaces, Owner!Native, Owner!Resources, Owner!setup, Owner!threads,
        Owner!resources, Owner!Gets, Owner!Failed, Owner!Thrown, Owner!Claim, Owner!Closing,
        Owner!ReaderCalls, Owner!DisplayUses, Owner!Deleted
<1>1. CASE Owner!OpenDevice
  <2>1. Owner!OwnerTypeOK'
    <3>1. opens' \in 0..MaxOpens /\ owned' \subseteq Owner!Resources
      BY <1>1 DEF Owner!OpenDevice
    <3> QED BY <1>1, <3>1 DEF Owner!OpenDevice
  <2>2. Owner!HeldIsOpened'
    BY <1>1 DEF Owner!OpenDevice
  <2> QED
    BY <1>1, <2>1, <2>2 DEF Owner!OpenDevice
<1>2. CASE Owner!InitContext
    BY <1>2 DEF Owner!InitContext
<1>3. CASE Owner!WrapSysDevice
    BY <1>3 DEF Owner!WrapSysDevice
<1>4. CASE Owner!XrealClaims
    BY <1>4 DEF Owner!XrealClaims
<1>5. CASE Owner!GoovisClaims
    BY <1>5 DEF Owner!GoovisClaims
<1>6. CASE Owner!UsbClaims
    BY <1>6 DEF Owner!UsbClaims
<1>7. CASE Owner!StartReading
    BY <1>7 DEF Owner!StartReading
<1>8. CASE Owner!EnableFails
    BY <1>8 DEF Owner!EnableFails
<1>9. CASE Owner!Probed
    BY <1>9 DEF Owner!Probed
<1>10. CASE Owner!ProbeUnanswered
  <2>1. Owner!OwnerTypeOK'
    BY <1>10 DEF Owner!ProbeUnanswered
  <2>2. Owner!HeldIsOpened'
    BY <1>10 DEF Owner!ProbeUnanswered
  <2> QED
    BY <1>10, <2>1, <2>2 DEF Owner!ProbeUnanswered
<1>11. CASE Owner!ProbeNotSent
  <2>1. Owner!OwnerTypeOK'
    BY <1>11 DEF Owner!ProbeNotSent
  <2>2. Owner!HeldIsOpened'
    BY <1>11 DEF Owner!ProbeNotSent
  <2> QED
    BY <1>11, <2>1, <2>2 DEF Owner!ProbeNotSent
<1>12. CASE Owner!UsbReads
    BY <1>12 DEF Owner!UsbReads
<1>13. CASE Owner!GoovisReads
    BY <1>13 DEF Owner!GoovisReads
<1>14. CASE Owner!ReaderReturns
    BY <1>14 DEF Owner!ReaderReturns
<1>15. CASE Owner!ReaderEnds
    BY <1>15 DEF Owner!ReaderEnds
<1>16. CASE Owner!UsbDisplay
    BY <1>16 DEF Owner!UsbDisplay
<1>17. CASE Owner!GoovisDisplay
    BY <1>17 DEF Owner!GoovisDisplay
<1>18. CASE Owner!DisplayReturns
    BY <1>18 DEF Owner!DisplayReturns
<1>19. CASE Owner!Close
  <2>1. Owner!OwnerTypeOK'
    BY <1>19 DEF Owner!Close
  <2>2. Owner!HeldIsOpened'
    BY <1>19 DEF Owner!Close
  <2> QED
    BY <1>19, <2>1, <2>2 DEF Owner!Close
<1>20. CASE Owner!DisableImu
    BY <1>20 DEF Owner!DisableImu
<1>21. CASE Owner!Join
  <2>1. Owner!OwnerTypeOK'
    BY <1>21 DEF Owner!Join
  <2>2. Owner!HeldIsOpened'
    BY <1>21 DEF Owner!Join
  <2> QED
    BY <1>21, <2>1, <2>2 DEF Owner!Join
<1>22. CASE Owner!NativeReleases
  <2>1. Owner!OwnerTypeOK'
    BY <1>22 DEF Owner!NativeReleases
  <2>2. Owner!HeldIsOpened'
    BY <1>22 DEF Owner!NativeReleases
  <2> QED
    BY <1>22, <2>1, <2>2 DEF Owner!NativeReleases
<1>23. CASE Owner!UsbReleases
    BY <1>23 DEF Owner!UsbReleases
<1>24. CASE Owner!CloseHandle
  <2>1. Owner!OwnerTypeOK'
    BY <1>24 DEF Owner!CloseHandle, Owner!Inside
  <2>2. Owner!HeldIsOpened'
    BY <1>24 DEF Owner!CloseHandle, Owner!Inside
  <2> QED
    BY <1>24, <2>1, <2>2 DEF Owner!CloseHandle, Owner!Inside
<1>25. CASE Owner!CloseConnection
    BY <1>25 DEF Owner!CloseConnection
<1> QED
    BY <1>1, <1>2, <1>3, <1>4, <1>5, <1>6, <1>7, <1>8, <1>9, <1>10, <1>11, <1>12, <1>13, <1>14,
       <1>15, <1>16, <1>17, <1>18, <1>19, <1>20, <1>21, <1>22, <1>23, <1>24, <1>25
       DEF Owner!OwnerNext

LEMMA OwnerInitial ==
    ASSUME Owner!OwnerAssumption, Owner!OwnerInit
    PROVE  Owner!OwnerInv
<1>1. Owner!OwnerTypeOK
    <2>1. opens \in 0..MaxOpens
        BY DEF Owner!OwnerAssumption, Owner!OwnerInit
    <2> QED BY <2>1 DEF Owner!OwnerInit, Owner!OwnerTypeOK
<1>2. Owner!HeldIsOpened
    BY DEF Owner!OwnerInit, Owner!HeldIsOpened, Owner!Opened
<1> QED
    BY <1>1, <1>2 DEF Owner!OwnerInit, Owner!OwnerInv, Owner!ClosedInsideOut,
       Owner!ReaderIsOutlived, Owner!CloseLeavesNothing, Owner!FailedOpenLeaves

LEMMA OwnerStutters ==
    ASSUME Owner!OwnerInv, UNCHANGED Owner!ownerVars
    PROVE  Owner!OwnerInv'
BY DEF Owner!ownerVars, Owner!OwnerInv, Owner!OwnerTypeOK, Owner!HeldIsOpened,
       Owner!ClosedInsideOut, Owner!ReaderIsOutlived, Owner!CloseLeavesNothing,
       Owner!FailedOpenLeaves, Owner!Opened, Owner!Wanted

\* Each instance has a Cardinality of its own, which is the one of FiniteSets.
LEMMA SurfaceCardinality ==
    ASSUME NEW S
    PROVE  Surface!Cardinality(S) = Cardinality(S) /\ (Surface!IsFiniteSet(S) <=> IsFiniteSet(S))
BY DEF Surface!Cardinality, Cardinality, Surface!IsFiniteSet, IsFiniteSet

\* Sets of runs are finite, and one more or less counts one.
LEMMA RunsCount ==
    ASSUME Surface!SurfaceAssumption, NEW S \in SUBSET Surface!Runs, NEW x
    PROVE  /\ Cardinality(S) \in Nat
           /\ Cardinality(S) = 0 <=> S = {}
           /\ Cardinality(S \ {x}) = IF x \in S THEN Cardinality(S) - 1 ELSE Cardinality(S)
<1>1. IsFiniteSet(Surface!Runs)
    BY FS_Interval DEF Surface!Runs, Surface!SurfaceAssumption
<1>2. IsFiniteSet(S)
    BY <1>1, FS_Subset
<1> QED BY <1>2, FS_RemoveElement, FS_CardinalityType, FS_EmptySet

\* So do sets of leased writers.
LEMMA WritersCount ==
    ASSUME Surface!SurfaceAssumption, NEW S \in SUBSET Writers, NEW x
    PROVE  /\ Cardinality(S) \in Nat
           /\ Cardinality(S \ {x}) = IF x \in S THEN Cardinality(S) - 1 ELSE Cardinality(S)
           /\ Cardinality(S \cup {x}) = IF x \in S THEN Cardinality(S) ELSE Cardinality(S) + 1
<1>1. IsFiniteSet(S)
    BY SurfaceCardinality, FS_Subset DEF Surface!SurfaceAssumption
<1> QED BY <1>1, FS_AddElement, FS_RemoveElement, FS_CardinalityType

\* The application is no run, and a run is nobody.
LEMMA SurfaceNames ==
    ASSUME Surface!SurfaceAssumption
    PROVE  /\ Surface!App \notin Surface!Runs /\ None \notin Surface!Actors
           /\ Surface!Runs \subseteq Nat /\ Surface!Actors = Surface!Runs \cup {Surface!App}
BY DEF Surface!SurfaceAssumption, Surface!App, Surface!Runs, Surface!Actors

LEMMA SurfaceTypes ==
    ASSUME Surface!SurfaceAssumption, Surface!SurfaceTypeOK, Surface!SurfaceNext
    PROVE  Surface!SurfaceTypeOK'
<1> USE SurfaceNames
        DEF Surface!SurfaceTypeOK, Surface!leaseVars, Surface!streamVars, Surface!Goto,
            Surface!Turn, Surface!Lend
<1>1. CASE Surface!Assign
    BY <1>1 DEF Surface!Assign
<1>2. ASSUME NEW c \in Surface!Actors, Surface!Close(c)
      PROVE  Surface!SurfaceTypeOK'
    <2>1. closes' \in 0..MaxCloses /\ early' \in Nat
        BY <1>2 DEF Surface!Close, Surface!SurfaceAssumption
    <2> QED BY <1>2, <2>1 DEF Surface!Close
<1>3. ASSUME NEW c \in Surface!Actors, Surface!CloseWriter(c) \/ Surface!ReadThread(c)
      PROVE  Surface!SurfaceTypeOK'
    BY <1>3 DEF Surface!CloseWriter, Surface!ReadThread
<1>4. ASSUME NEW c \in Surface!Actors, Surface!Join(c) \/ Surface!Forget(c)
      PROVE  Surface!SurfaceTypeOK'
    <2>1. early' \in Nat
        BY <1>4 DEF Surface!Join, Surface!Forget
    <2> QED BY <1>4, <2>1 DEF Surface!Join, Surface!Forget
<1>5. ASSUME NEW r \in Surface!Runs,
             Surface!OpenFails(r) \/ Surface!FailedStop(r) \/ Surface!Open(r) \/ Surface!Loop(r)
      PROVE  Surface!SurfaceTypeOK'
    BY <1>5 DEF Surface!OpenFails, Surface!FailedStop, Surface!Open, Surface!Loop
<1>6. ASSUME NEW r \in Surface!Runs,
             \/ Surface!LoopOn(r) \/ Surface!LoopEnds(r) \/ Surface!FinallyClose(r)
             \/ Surface!FinallyForget(r) \/ Surface!FinallyStop(r)
      PROVE  Surface!SurfaceTypeOK'
    BY <1>6 DEF Surface!LoopOn, Surface!LoopEnds, Surface!FinallyClose, Surface!FinallyForget,
                Surface!FinallyStop
<1>8. ASSUME NEW r \in Surface!Runs, Surface!Start(r)
      PROVE  Surface!SurfaceTypeOK'
    <2>1. current' \in [Surface!Actors -> Surface!Runs \cup {None}]
        BY <1>8 DEF Surface!Start
    <2>2. surfaceCall' \in [Surface!Actors ->
                            {"none", "assign", "writer", "thread", "join", "forget"}]
        BY <1>8 DEF Surface!Start
    <2>3. surfaceRunning' \in BOOLEAN
        BY <1>8 DEF Surface!Start
    <2> QED BY <1>8, <2>1, <2>2, <2>3 DEF Surface!Start
<1>7. ASSUME NEW w \in Writers,
             \/ Surface!TakeLease(w) \/ Surface!OpenLeased(w) \/ Surface!OpenLeasedFails(w)
             \/ Surface!CloseLeased(w) \/ Surface!FreeLease(w) \/ Surface!CloseAgain(w)
      PROVE  Surface!SurfaceTypeOK'
    BY <1>7 DEF Surface!TakeLease, Surface!OpenLeased, Surface!OpenLeasedFails,
                Surface!CloseLeased, Surface!FreeLease, Surface!CloseAgain
<1> QED BY <1>1, <1>2, <1>3, <1>4, <1>5, <1>6, <1>7, <1>8
        DEF Surface!SurfaceNext, Surface!StreamNext, Surface!LeaseNext

\* A step of the stream is one of its callers', or moves one run on; this names what a
\* run's step on its own thread leaves alone.
OnItsWay(r) ==
    \/ Surface!OpenFails(r) \/ Surface!Open(r) \/ Surface!Loop(r) \/ Surface!LoopOn(r)
    \/ Surface!LoopEnds(r) \/ Surface!FinallyClose(r) \/ Surface!FinallyForget(r)
Ends(r) == Surface!FailedStop(r) \/ Surface!FinallyStop(r)

LEMMA RunGoesOn ==
    ASSUME Surface!SurfaceTypeOK, NEW r \in Surface!Runs, OnItsWay(r)
    PROVE  /\ Surface!Live' = Surface!Live
           /\ \A q \in Surface!Runs : run'[q] = "none" <=> run[q] = "none"
           /\ \A q \in Surface!Runs : q # r => run'[q] = run[q]
           /\ run'[r] # "none" /\ surfaceCall[r] = "none"
           /\ UNCHANGED <<surfaceRunning, thread, surfaceCall, current, early>>
BY DEF Surface!SurfaceTypeOK, Surface!Live, Surface!Turn, OnItsWay, Surface!OpenFails,
       Surface!Open, Surface!Loop, Surface!LoopOn, Surface!LoopEnds, Surface!FinallyClose,
       Surface!FinallyForget

LEMMA RunEnds ==
    ASSUME Surface!SurfaceTypeOK, NEW r \in Surface!Runs, Ends(r)
    PROVE  /\ r \in Surface!Live /\ Surface!Live' = Surface!Live \ {r}
           /\ \A q \in Surface!Runs : run'[q] = "none" <=> run[q] = "none"
           /\ \A q \in Surface!Runs : q # r => run'[q] = run[q]
           /\ surfaceCall[r] = "none" /\ surfaceRunning' = FALSE
           /\ UNCHANGED <<thread, surfaceCall, current, early, camera>>
BY DEF Surface!SurfaceTypeOK, Surface!Live, Surface!Turn, Ends, Surface!FailedStop,
       Surface!FinallyStop

LEMMA RunStarts ==
    ASSUME Surface!SurfaceTypeOK, NEW r \in Surface!Runs, Surface!Start(r)
    PROVE  r \notin Surface!Live /\ Surface!Live' = Surface!Live \cup {r}
BY DEF Surface!SurfaceTypeOK, Surface!Live, Surface!Start

\* The steps of a call leave the runs alone.
Calls(c) ==
    \/ Surface!Close(c) \/ Surface!CloseWriter(c) \/ Surface!ReadThread(c)
    \/ Surface!Join(c) \/ Surface!Forget(c)

LEMMA CallStays ==
    ASSUME Surface!SurfaceTypeOK, NEW c \in Surface!Actors, Calls(c)
    PROVE  /\ run' = run /\ Surface!Live' = Surface!Live
           /\ surfaceRunning' = surfaceRunning \/ ~surfaceRunning'
           /\ \A d \in Surface!Actors : d # c => surfaceCall'[d] = surfaceCall[d]
BY DEF Surface!SurfaceTypeOK, Surface!Live, Surface!Goto, Calls, Surface!Close,
       Surface!CloseWriter, Surface!ReadThread, Surface!Join, Surface!Forget

\* The disjuncts of a step, as the proofs below tell them apart.
LEMMA SurfaceCases ==
    ASSUME Surface!SurfaceNext
    PROVE  \/ Surface!Assign
           \/ \E c \in Surface!Actors : Calls(c)
           \/ \E r \in Surface!Runs : Surface!Start(r) \/ Ends(r) \/ OnItsWay(r)
           \/ UNCHANGED Surface!streamVars /\ Surface!LeaseNext
BY DEF Surface!SurfaceNext, Surface!StreamNext, Surface!LeaseNext, Calls, Ends, OnItsWay,
       Surface!Lend, Surface!TakeLease, Surface!OpenLeased, Surface!OpenLeasedFails,
       Surface!CloseLeased, Surface!FreeLease, Surface!CloseAgain

LEMMA SurfaceCalls ==
    ASSUME Surface!SurfaceAssumption, Surface!SurfaceTypeOK, Surface!CallsAreInPlace,
           Surface!SurfaceNext
    PROVE  Surface!CallsAreInPlace'
<1> USE SurfaceNames DEF Surface!SurfaceTypeOK, Surface!CallsAreInPlace
<1>1. CASE Surface!Assign
    BY <1>1 DEF Surface!Assign, Surface!Goto
<1>2. ASSUME NEW c \in Surface!Actors, Calls(c)
      PROVE  Surface!CallsAreInPlace'
    <2>1. CASE c = Surface!App
        <3>1. surfaceCall'[Surface!App] # "assign"
            BY <1>2, <2>1 DEF Calls, Surface!Close, Surface!CloseWriter, Surface!ReadThread,
               Surface!Join, Surface!Forget, Surface!Goto
        <3> QED BY <1>2, <2>1, <3>1, CallStays
    <2>2. CASE c \in Surface!Runs
        <3>1. /\ surfaceCall'[c] # "assign"
              /\ surfaceCall'[c] # "none" => run[c] \in Surface!InListener
            BY <1>2, <2>2 DEF Calls, Surface!Close, Surface!CloseWriter, Surface!ReadThread,
               Surface!Join, Surface!Forget, Surface!Goto
        <3>2. current'[Surface!App] = current[Surface!App]
            BY <1>2, <2>2 DEF Calls, Surface!Close, Surface!CloseWriter, Surface!ReadThread,
               Surface!Join, Surface!Forget
        <3>3. surfaceRunning' /\ surfaceCall'[c] # "none" => surfaceCall[c] # "none"
            BY <1>2, <2>2 DEF Calls, Surface!Close, Surface!CloseWriter, Surface!ReadThread,
               Surface!Join, Surface!Forget, Surface!Goto
        <3> SUFFICES ASSUME NEW r \in Surface!Runs
                     PROVE  /\ surfaceCall'[r] # "assign"
                            /\ surfaceCall'[r] # "none" => run'[r] \in Surface!InListener
                            /\ /\ surfaceCall'[Surface!App] = "assign" /\ surfaceRunning'
                               /\ current'[Surface!App] = r
                               => surfaceCall'[r] = "none"
            OBVIOUS
        <3>4. /\ run' = run /\ surfaceCall'[Surface!App] = surfaceCall[Surface!App]
              /\ surfaceRunning' => surfaceRunning
              /\ r # c => surfaceCall'[r] = surfaceCall[r]
            BY <1>2, <2>2, CallStays
        <3>5. CASE r = c
            BY <3>1, <3>2, <3>3, <3>4, <3>5
        <3>6. CASE r # c
            BY <3>2, <3>4, <3>6
        <3> QED BY <3>5, <3>6
    <2> QED BY <2>1, <2>2
<1>3. ASSUME NEW r \in Surface!Runs, Surface!Start(r)
      PROVE  Surface!CallsAreInPlace'
    BY <1>3 DEF Surface!Start, Surface!Goto, Surface!InListener
<1>4. ASSUME NEW r \in Surface!Runs, Ends(r)
      PROVE  Surface!CallsAreInPlace'
    BY <1>4, RunEnds
<1>5. ASSUME NEW r \in Surface!Runs, OnItsWay(r)
      PROVE  Surface!CallsAreInPlace'
    BY <1>5, RunGoesOn
<1>6. CASE UNCHANGED Surface!streamVars
    BY <1>6 DEF Surface!streamVars
<1> QED BY <1>1, <1>2, <1>3, <1>4, <1>5, <1>6, SurfaceCases

\* The runs that close() does not wait for: what a step takes out of, or adds to, those
\* that count is at most what it charges.
LEMMA AccountStays ==
    ASSUME Surface!SurfaceAssumption,
           NEW L \in SUBSET Surface!Runs, NEW W, NEW e \in Nat, Cardinality(L \ {W}) <= e
    PROVE  /\ Cardinality(L \ {None}) <= e + 1
           /\ W \notin L => Cardinality(L \ {None}) <= e
           /\ \A r \in L : /\ Cardinality((L \ {r}) \ {W}) <= e
                           /\ Cardinality((L \ {r}) \ {None}) <= e
<1>1. L \ {None} = L
    BY SurfaceNames
<1>2. /\ Cardinality(L) \in Nat
      /\ Cardinality(L \ {W}) = IF W \in L THEN Cardinality(L) - 1 ELSE Cardinality(L)
    BY RunsCount
<1>3. ASSUME NEW r \in L
      PROVE  /\ Cardinality((L \ {r}) \ {W}) <= e
             /\ Cardinality((L \ {r}) \ {None}) <= e
    <2>1. /\ Cardinality(L \ {r}) = Cardinality(L) - 1
          /\ Cardinality((L \ {r}) \ {W}) = IF W \in L \ {r} THEN Cardinality(L \ {r}) - 1
                                            ELSE Cardinality(L \ {r})
        BY RunsCount
    <2>2. (L \ {r}) \ {None} = L \ {r}
        BY <1>1
    <2> QED BY <1>2, <2>1, <2>2
<1>4. Cardinality(L \ {None}) <= e + 1 /\ (W \notin L => Cardinality(L \ {None}) <= e)
    BY <1>1, <1>2
<1> QED BY <1>3, <1>4

\* A call counts the runs as before, or one less as waited for and charges it.
LEMMA CallAccounts ==
    ASSUME Surface!SurfaceAssumption, Surface!SurfaceTypeOK, Surface!CallsAreInPlace,
           NEW c \in Surface!Actors, Calls(c)
    PROVE  \/ Surface!Waited' = Surface!Waited /\ early' \in {early, early + 1}
           \/ Surface!Waited' = None /\ early' = early + 1
           \/ Surface!Waited' = None /\ Surface!Waited \notin Surface!Live /\ early' = early
           \/ Surface!Waited = None /\ early' = early
<1> USE SurfaceNames DEF Surface!SurfaceTypeOK, Surface!CallsAreInPlace, Surface!Goto
<1> DEFINE At == surfaceCall[Surface!App]
<1>1. CASE c = Surface!App
    <2>0. \A d \in Surface!Runs : surfaceCall'[d] = surfaceCall[d]
        BY <1>1, CallStays
    <2>1. CASE Surface!Close(c)
        <3>1. Surface!Known' = Surface!Known /\ early' = early
            BY <1>1, <2>0, <2>1 DEF Surface!Close, Surface!Known
        <3>2. At = "none" /\ At' = "writer"
            BY <1>1, <2>1 DEF Surface!Close
        <3> QED BY <3>1, <3>2 DEF Surface!Waited
    <2>2. CASE Surface!CloseWriter(c)
        <3>1. Surface!Known' = Surface!Known /\ early' = early
            BY <1>1, <2>0, <2>2 DEF Surface!CloseWriter, Surface!Known
        <3>2. At = "writer" /\ At' = "thread"
            BY <1>1, <2>2 DEF Surface!CloseWriter
        <3> QED BY <3>1, <3>2 DEF Surface!Waited
    <2>3. CASE Surface!ReadThread(c)
        <3>1. early' = early /\ current'[Surface!App] = thread
            BY <1>1, <2>3 DEF Surface!ReadThread
        <3>2. /\ At = "thread"
              /\ At' = IF thread \in {None, Surface!App} THEN "forget" ELSE "join"
            BY <1>1, <2>3 DEF Surface!ReadThread
        <3>3. Surface!Waited = Surface!Known
            BY <3>2 DEF Surface!Waited
        <3>4. CASE thread = None
            BY <3>1, <3>2, <3>3, <3>4 DEF Surface!Waited, Surface!Known
        <3>5. CASE thread \in Surface!Runs
            <4>1. Surface!Waited' = thread
                BY <3>1, <3>2, <3>5 DEF Surface!Waited
            <4>2. Surface!Known \in {thread, None}
                BY DEF Surface!Known
            <4> QED BY <3>1, <3>3, <4>1, <4>2
        <3> QED BY <3>4, <3>5
    <2>4. CASE Surface!Join(c)
        <3>1. early' = IF current[c] \in Surface!Live THEN early + 1 ELSE early
            BY <1>1, <2>4 DEF Surface!Join
        <3>2. At = "join" /\ At' = "forget"
            BY <1>1, <2>4 DEF Surface!Join
        <3>3. Surface!Waited = current[c] /\ Surface!Waited' = None
            BY <1>1, <3>2 DEF Surface!Waited
        <3> QED BY <3>1, <3>3
    <2>5. CASE Surface!Forget(c)
        <3>1. At = "forget" /\ early' = early
            BY <1>1, <2>5 DEF Surface!Forget
        <3>2. Surface!Waited = None
            BY <3>1 DEF Surface!Waited
        <3> QED BY <3>1, <3>2
    <2> QED BY <2>1, <2>2, <2>3, <2>4, <2>5 DEF Calls
<1>2. CASE c \in Surface!Runs
    <2>0. /\ \A d \in Surface!Actors : d # c => surfaceCall'[d] = surfaceCall[d]
          /\ At' = At
        BY <1>2, CallStays
    <2>1. CASE Surface!Close(c)
        <3>1. /\ early' = early + 1 /\ surfaceRunning' = FALSE
              /\ UNCHANGED <<thread, current>> /\ surfaceCall'[c] # "none"
            BY <1>2, <2>1 DEF Surface!Close
        <3>2. Surface!Known' \in {Surface!Known, None}
            BY <2>0, <3>1 DEF Surface!Known
        <3>3. Surface!Waited' \in {Surface!Waited, None}
            BY <2>0, <3>1, <3>2 DEF Surface!Waited
        <3> QED BY <3>1, <3>3
    <2>2. CASE Surface!CloseWriter(c) \/ Surface!ReadThread(c) \/ Surface!Join(c)
        <3>1. /\ UNCHANGED <<thread, early, surfaceRunning>> /\ surfaceCall[c] # "none"
              /\ surfaceCall'[c] # "none" /\ current'[Surface!App] = current[Surface!App]
            BY <1>2, <2>2 DEF Surface!CloseWriter, Surface!ReadThread, Surface!Join
        <3>2. Surface!Known' = Surface!Known
            BY <2>0, <3>1 DEF Surface!Known
        <3>3. Surface!Waited' = Surface!Waited
            BY <2>0, <3>1, <3>2 DEF Surface!Waited
        <3> QED BY <3>1, <3>3
    <2>3. CASE Surface!Forget(c)
        <3>1. /\ surfaceCall[c] # "none" /\ thread' = None /\ surfaceRunning' = surfaceRunning
              /\ current'[Surface!App] = current[Surface!App]
              /\ early' = IF thread \in Surface!Live \ {c} THEN early + 1 ELSE early
            BY <1>2, <2>3 DEF Surface!Forget
        <3>2. Surface!Known' = None
            BY <3>1 DEF Surface!Known
        <3>3. Surface!Known \in Surface!Live => thread \in Surface!Live \ {c}
            BY <3>1 DEF Surface!Known, Surface!Live
        <3>4. \/ Surface!Waited' = Surface!Waited
              \/ Surface!Waited = Surface!Known /\ Surface!Waited' = None
            BY <2>0, <3>1, <3>2 DEF Surface!Waited
        <3> QED BY <3>1, <3>3, <3>4
    <2> QED BY <2>1, <2>2, <2>3 DEF Calls
<1> QED BY <1>1, <1>2

LEMMA SurfaceAccounts ==
    ASSUME Surface!SurfaceAssumption, Surface!SurfaceTypeOK, Surface!CallsAreInPlace,
           Surface!RunsAreAccounted, Surface!SurfaceNext
    PROVE  Surface!RunsAreAccounted'
<1> DEFINE L == Surface!Live
           W == Surface!Waited
<1>1. /\ L \in SUBSET Surface!Runs /\ early \in Nat
      /\ Cardinality(L \ {W}) <= early
    BY SurfaceCardinality
       DEF Surface!SurfaceTypeOK, Surface!Live, Surface!RunsAreAccounted
<1> SUFFICES Cardinality(L' \ {W'}) <= early'
    BY SurfaceCardinality DEF Surface!RunsAreAccounted
<1>2. /\ Cardinality(L \ {None}) <= early + 1
      /\ W \notin L => Cardinality(L \ {None}) <= early
      /\ \A r \in L : /\ Cardinality((L \ {r}) \ {W}) <= early
                      /\ Cardinality((L \ {r}) \ {None}) <= early
    BY <1>1, AccountStays
<1>3. Cardinality(L \ {W}) \in Nat
    BY <1>1, RunsCount
<1> HIDE DEF L, W
<1>4. CASE Surface!Assign
    <2>1. L' = L /\ early' = early
        BY <1>4 DEF Surface!Assign, Surface!Live, L
    <2>2. W' = W
        BY <1>4, SurfaceNames DEF Surface!SurfaceTypeOK, Surface!CallsAreInPlace, Surface!Assign,
           Surface!Goto, Surface!Waited, Surface!Known, W
    <2> QED BY <1>1, <2>1, <2>2
<1>5. ASSUME NEW c \in Surface!Actors, Calls(c)
      PROVE  Cardinality(L' \ {W'}) <= early'
    <2>1. L' = L
        BY <1>5, CallStays DEF L
    <2>2. \/ W' = W /\ early' \in {early, early + 1}
          \/ W' = None /\ early' = early + 1
          \/ W' = None /\ W \notin L /\ early' = early
          \/ W = None /\ early' = early
        BY <1>5, CallAccounts DEF W, L
    <2>3. CASE W = None /\ early' = early
        BY <1>1, <2>1, <2>3, SurfaceNames, RunsCount
    <2> QED BY <1>1, <1>2, <1>3, <2>1, <2>2, <2>3
<1>6. ASSUME NEW r \in Surface!Runs, Surface!Start(r)
      PROVE  Cardinality(L' \ {W'}) <= early'
    <2>1. r \notin L /\ L' = L \cup {r} /\ W = None /\ W' = r /\ early' = early
        BY <1>6, RunStarts, SurfaceNames
           DEF Surface!SurfaceTypeOK, Surface!Start, Surface!Goto, Surface!Waited, L, W
    <2>2. L' \ {W'} = L \ {W}
        BY <1>1, <2>1, SurfaceNames
    <2> QED BY <1>1, <2>1, <2>2
<1>7. ASSUME NEW r \in Surface!Runs, Ends(r)
      PROVE  Cardinality(L' \ {W'}) <= early'
    <2>1. r \in L /\ L' = L \ {r} /\ early' = early
        BY <1>7, RunEnds DEF L
    <2>2. W' \in {W, None}
        <3>1. surfaceRunning' = FALSE /\ UNCHANGED <<thread, surfaceCall, current>>
            BY <1>7, RunEnds
        <3>2. surfaceCall[Surface!App] \in {"none", "assign", "writer", "thread", "join", "forget"}
            BY SurfaceNames DEF Surface!SurfaceTypeOK
        <3> QED BY <3>1, <3>2 DEF Surface!Waited, Surface!Known, W
    <2> QED BY <1>2, <2>1, <2>2
<1>8. ASSUME NEW r \in Surface!Runs, OnItsWay(r)
      PROVE  Cardinality(L' \ {W'}) <= early'
    <2>1. L' = L /\ UNCHANGED <<surfaceRunning, thread, surfaceCall, current, early>>
        BY <1>8, RunGoesOn DEF L
    <2>2. W' = W
        BY <2>1 DEF Surface!Waited, Surface!Known, W
    <2> QED BY <1>1, <2>1, <2>2
<1>9. CASE UNCHANGED Surface!streamVars
    <2>1. L' = L /\ W' = W /\ early' = early
        BY <1>9 DEF Surface!streamVars, Surface!Live, Surface!Waited, Surface!Known, L, W
    <2> QED BY <1>1, <2>1
<1> QED BY <1>4, <1>5, <1>6, <1>7, <1>8, <1>9, SurfaceCases

LEMMA SurfaceRuns ==
    ASSUME Surface!SurfaceAssumption, Surface!SurfaceTypeOK, Surface!RunsAreInOrder,
           Surface!RunningHasRun, Surface!SurfaceNext
    PROVE  Surface!RunsAreInOrder' /\ Surface!RunningHasRun'
<1> USE DEF Surface!RunsAreInOrder, Surface!RunningHasRun, Surface!Latest
<1>1. CASE run' = run /\ (surfaceRunning' = surfaceRunning \/ ~surfaceRunning')
    BY <1>1 DEF Surface!Live
<1>2. ASSUME NEW c \in Surface!Actors, Calls(c)
      PROVE  run' = run /\ (surfaceRunning' = surfaceRunning \/ ~surfaceRunning')
    BY <1>2, CallStays
<1>3. ASSUME NEW r \in Surface!Runs, Surface!Start(r)
      PROVE  Surface!RunsAreInOrder' /\ Surface!RunningHasRun'
    <2>1. /\ run[r] = "none" /\ run' = [run EXCEPT ![r] = "opening"]
          /\ \A q \in Surface!Runs : q < r => run[q] # "none"
        BY <1>3 DEF Surface!Start
    <2>2. /\ r \in Surface!Live' /\ run'[r] # "none"
          /\ \A q \in Surface!Runs : q # r => run'[q] = run[q]
        BY <1>3, <2>1, RunStarts DEF Surface!SurfaceTypeOK
    <2>3. \A q \in Surface!Runs : q > r => run'[q] = "none" /\ run[q] = "none"
        BY <2>1, <2>2, SurfaceNames
    <2>4. Surface!RunningHasRun'
        BY <2>2, <2>3
    <2>5. Surface!RunsAreInOrder'
        BY <2>1, <2>2, <2>3, SurfaceNames
    <2> QED BY <2>4, <2>5
<1>4. ASSUME NEW r \in Surface!Runs, Ends(r)
      PROVE  Surface!RunsAreInOrder' /\ Surface!RunningHasRun'
    BY <1>4, RunEnds
<1>5. ASSUME NEW r \in Surface!Runs, OnItsWay(r)
      PROVE  Surface!RunsAreInOrder' /\ Surface!RunningHasRun'
    <2>1. /\ Surface!Live' = Surface!Live /\ surfaceRunning' = surfaceRunning
          /\ \A q \in Surface!Runs : run'[q] = "none" <=> run[q] = "none"
        BY <1>5, RunGoesOn
    <2>2. Surface!RunsAreInOrder'
        BY <2>1
    <2>3. Surface!Live \subseteq Surface!Runs
        BY DEF Surface!Live
    <2>4. Surface!RunningHasRun'
        BY <2>1, <2>3
    <2> QED BY <2>2, <2>4
<1> QED BY <1>1, <1>2, <1>3, <1>4, <1>5, SurfaceCases DEF Surface!Assign, Surface!streamVars

LEMMA SurfaceCloses ==
    ASSUME Surface!SurfaceTypeOK, Surface!OpenIsClosed, Surface!SurfaceNext
    PROVE  Surface!OpenIsClosed'
<1> USE DEF Surface!SurfaceTypeOK, Surface!OpenIsClosed
<1>1. ASSUME NEW c \in Surface!Actors, Calls(c)
      PROVE  Surface!OpenIsClosed'
    <2>1. /\ run' = run
          /\ \A r \in Surface!Runs : camera'[r] = "open" => camera[r] = "open"
        BY <1>1 DEF Calls, Surface!Close, Surface!CloseWriter, Surface!ReadThread, Surface!Join,
           Surface!Forget
    <2> QED BY <2>1
<1>2. ASSUME NEW r \in Surface!Runs, Surface!Start(r)
      PROVE  Surface!OpenIsClosed'
    BY <1>2 DEF Surface!Start
<1>3. ASSUME NEW r \in Surface!Runs, Ends(r)
      PROVE  Surface!OpenIsClosed'
    BY <1>3 DEF Ends, Surface!FailedStop, Surface!FinallyStop, Surface!Turn
<1>4. ASSUME NEW r \in Surface!Runs, OnItsWay(r)
      PROVE  Surface!OpenIsClosed'
    BY <1>4 DEF OnItsWay, Surface!OpenFails, Surface!Open, Surface!Loop, Surface!LoopOn,
       Surface!LoopEnds, Surface!FinallyClose, Surface!FinallyForget, Surface!Turn
<1>5. CASE Surface!Assign \/ UNCHANGED Surface!streamVars
    BY <1>5 DEF Surface!Assign, Surface!streamVars
<1> QED BY <1>1, <1>2, <1>3, <1>4, <1>5, SurfaceCases

\* The owners of a lease and those that were closed twice.
LEMMA SurfaceLeases ==
    ASSUME Surface!SurfaceAssumption, Surface!SurfaceTypeOK, Surface!LeaseIsExclusive,
           Surface!SurfaceNext
    PROVE  Surface!LeaseIsExclusive'
<1> DEFINE O == Surface!Owners
           Counted == Cardinality(O) <= Cardinality(again) + (IF lease THEN 1 ELSE 0)
<1>1. /\ O \in SUBSET Writers /\ again \in SUBSET Writers /\ lease \in BOOLEAN
      /\ Cardinality(O) \in Nat /\ Cardinality(again) \in Nat
    BY WritersCount DEF Surface!Owners, Surface!SurfaceTypeOK
<1>2. (lease => O # {}) /\ Counted
    BY SurfaceCardinality DEF Surface!LeaseIsExclusive
<1> SUFFICES (lease' => O' # {}) /\ Counted'
    BY SurfaceCardinality DEF Surface!LeaseIsExclusive
<1> USE DEF Surface!SurfaceTypeOK, Surface!Owners, Surface!Lend
<1>3. CASE UNCHANGED Surface!leaseVars
    BY <1>2, <1>3 DEF Surface!leaseVars
<1>4. ASSUME NEW w \in Writers, Surface!TakeLease(w)
      PROVE  (lease' => O' # {}) /\ Counted'
    <2>1. O' = O \cup {w} /\ w \notin O /\ lease' = TRUE /\ again' = again /\ lease = FALSE
        BY <1>4 DEF Surface!TakeLease
    <2>2. Cardinality(O \cup {w}) = Cardinality(O) + 1
        BY <1>1, <2>1, WritersCount
    <2> HIDE DEF O
    <2> QED BY <1>1, <1>2, <2>1, <2>2
<1>5. ASSUME NEW w \in Writers, Surface!OpenLeased(w) \/ Surface!CloseLeased(w)
      PROVE  (lease' => O' # {}) /\ Counted'
    <2>1. O' = O /\ UNCHANGED <<lease, again>>
        BY <1>5 DEF Surface!OpenLeased, Surface!CloseLeased
    <2> HIDE DEF O
    <2> QED BY <1>2, <2>1
<1>6. ASSUME NEW w \in Writers, Surface!OpenLeasedFails(w) \/ Surface!FreeLease(w)
      PROVE  (lease' => O' # {}) /\ Counted'
    <2>1. w \in O /\ O' = O \ {w} /\ lease' = FALSE /\ again' = again
        BY <1>6 DEF Surface!OpenLeasedFails, Surface!FreeLease
    <2>2. Cardinality(O \ {w}) = Cardinality(O) - 1
        BY <1>1, <2>1, WritersCount
    <2> HIDE DEF O
    <2> QED BY <1>1, <1>2, <2>1, <2>2
<1>7. ASSUME NEW w \in Writers, Surface!CloseAgain(w)
      PROVE  (lease' => O' # {}) /\ Counted'
    <2>1. O' = O /\ lease' = FALSE /\ again' = again \cup {w} /\ w \notin again
        BY <1>7 DEF Surface!CloseAgain, Surface!streamVars
    <2>2. Cardinality(again \cup {w}) = Cardinality(again) + 1
        BY <1>1, <2>1, WritersCount
    <2> HIDE DEF O
    <2> QED BY <1>1, <1>2, <2>1, <2>2
<1>8. Surface!StreamNext => UNCHANGED Surface!leaseVars
    BY DEF Surface!StreamNext, Surface!Turn, Surface!Assign, Surface!Close, Surface!CloseWriter,
       Surface!ReadThread, Surface!Join, Surface!Forget, Surface!Start, Surface!OpenFails,
       Surface!FailedStop, Surface!Open, Surface!Loop, Surface!LoopOn, Surface!LoopEnds,
       Surface!FinallyClose, Surface!FinallyForget, Surface!FinallyStop
<1> QED BY <1>3, <1>4, <1>5, <1>6, <1>7, <1>8 DEF Surface!SurfaceNext, Surface!LeaseNext

\* What follows from the account of the runs.
LEMMA SurfaceFollows ==
    ASSUME Surface!SurfaceAssumption, Surface!SurfaceTypeOK, Surface!RunsAreAccounted,
           Surface!OpenIsClosed
    PROVE  Surface!OneRun /\ Surface!ClosedLeavesNothing
<1> DEFINE L == Surface!Live
           W == Surface!Waited
<1>1. L \in SUBSET Surface!Runs /\ early \in Nat /\ Cardinality(L \ {W}) <= early
    BY SurfaceCardinality DEF Surface!RunsAreAccounted, Surface!SurfaceTypeOK, Surface!Live
<1>2. /\ Cardinality(L) \in Nat /\ (Cardinality(L) = 0 <=> L = {})
      /\ Cardinality(L \ {W}) = IF W \in L THEN Cardinality(L) - 1 ELSE Cardinality(L)
    BY <1>1, RunsCount
<1>3. Surface!OneRun
    <2> HIDE DEF L, W
    <2>1. Cardinality(L) <= 1 + early
        BY <1>1, <1>2
    <2> QED BY <2>1, SurfaceCardinality DEF Surface!OneRun, L
<1>4. ASSUME surfaceCall[Surface!App] = "none", ~surfaceRunning, early = 0,
             NEW r \in Surface!Runs
      PROVE  camera[r] # "open"
    <2>1. W \notin L
        BY <1>1, <1>4, SurfaceNames DEF Surface!Waited
    <2>2. L = {}
        BY <1>1, <1>2, <1>4, <2>1
    <2> QED BY <2>2 DEF Surface!OpenIsClosed, Surface!Live
<1> QED BY <1>3, <1>4 DEF Surface!ClosedLeavesNothing

LEMMA SurfaceStep ==
    ASSUME Surface!SurfaceAssumption, Surface!SurfaceInv, Surface!SurfaceNext
    PROVE  Surface!SurfaceInv'
<1>1. /\ Surface!SurfaceTypeOK' /\ Surface!CallsAreInPlace' /\ Surface!RunsAreAccounted'
      /\ Surface!OpenIsClosed' /\ Surface!RunsAreInOrder' /\ Surface!RunningHasRun'
      /\ Surface!LeaseIsExclusive'
    BY SurfaceTypes, SurfaceCalls, SurfaceAccounts, SurfaceCloses, SurfaceRuns, SurfaceLeases
       DEF Surface!SurfaceInv
<1>2. Surface!OneRun' /\ Surface!ClosedLeavesNothing'
    BY <1>1, SurfaceFollows, PTL
<1> QED BY <1>1, <1>2 DEF Surface!SurfaceInv

LEMMA SurfaceInitial ==
    ASSUME Surface!SurfaceAssumption, Surface!SurfaceInit
    PROVE  Surface!SurfaceInv
<1> USE SurfaceNames DEF Surface!SurfaceInit
<1>0. 0 \in 0..MaxCloses
    BY DEF Surface!SurfaceAssumption
<1>1. Surface!SurfaceTypeOK
    BY <1>0 DEF Surface!SurfaceTypeOK
<1>7. Surface!CallsAreInPlace /\ Surface!OpenIsClosed
    BY DEF Surface!CallsAreInPlace, Surface!OpenIsClosed
<1>2. Surface!RunsAreInOrder /\ Surface!RunningHasRun
    BY DEF Surface!RunsAreInOrder, Surface!RunningHasRun
<1>3. Surface!Live \ {Surface!Waited} = {} /\ Cardinality({}) = 0
    BY FS_EmptySet DEF Surface!Live
<1>4. Surface!RunsAreAccounted
    BY <1>3, SurfaceCardinality DEF Surface!RunsAreAccounted
<1>5. Surface!Owners = {} /\ ~lease
    BY DEF Surface!Owners
<1>6. Surface!LeaseIsExclusive
    BY <1>3, <1>5, SurfaceCardinality DEF Surface!LeaseIsExclusive
<1> QED BY <1>1, <1>2, <1>4, <1>6, <1>7, SurfaceFollows DEF Surface!SurfaceInv

LEMMA SurfaceStutters ==
    ASSUME Surface!SurfaceInv, UNCHANGED Surface!surfaceVars
    PROVE  Surface!SurfaceInv'
<1>1. UNCHANGED <<Surface!Live, Surface!Waited, Surface!Owners>>
    BY DEF Surface!surfaceVars, Surface!streamVars, Surface!leaseVars, Surface!Live,
           Surface!Waited, Surface!Known, Surface!Owners
<1> QED BY <1>1
       DEF Surface!surfaceVars, Surface!streamVars, Surface!leaseVars, Surface!SurfaceInv,
           Surface!SurfaceTypeOK, Surface!CallsAreInPlace, Surface!RunsAreInOrder,
           Surface!RunningHasRun, Surface!Latest, Surface!RunsAreAccounted, Surface!OneRun,
           Surface!ClosedLeavesNothing, Surface!OpenIsClosed, Surface!LeaseIsExclusive

\* What the steps do to the call of a thread.
LEMMA GotoTypes ==
    ASSUME Handle!HandleTypeOK, NEW t \in Threads, NEW at \in Handle!Ats, Handle!Goto(t, at)
    PROVE  /\ call' \in [Threads -> Handle!Calls]
           /\ call'[t].at = at
           /\ call'[t].op = call[t].op /\ call'[t].i = call[t].i /\ call'[t].r = call[t].r
           /\ \A u \in Threads \ {t} : call'[u] = call[u]
BY DEF Handle!HandleTypeOK, Handle!Calls, Handle!Goto

LEMMA GotoWithTypes ==
    ASSUME Handle!HandleTypeOK, NEW t \in Threads, NEW at \in Handle!Ats, NEW r \in Handle!Answers,
           Handle!GotoWith(t, at, r)
    PROVE  /\ call' \in [Threads -> Handle!Calls]
           /\ call'[t].at = at /\ call'[t].r = r
           /\ call'[t].op = call[t].op /\ call'[t].i = call[t].i
           /\ \A u \in Threads \ {t} : call'[u] = call[u]
BY DEF Handle!HandleTypeOK, Handle!Calls, Handle!GotoWith

LEMMA CallTypes ==
    ASSUME Handle!HandleTypeOK, NEW t \in Threads, NEW c \in Handle!Calls,
           call' = [call EXCEPT ![t] = c]
    PROVE  /\ call' \in [Threads -> Handle!Calls]
           /\ call'[t] = c
           /\ \A u \in Threads \ {t} : call'[u] = call[u]
BY DEF Handle!HandleTypeOK

LEMMA ReturnTypes ==
    ASSUME Handle!HandleAssumption, Handle!HandleTypeOK, NEW t \in Threads, Handle!Return(t)
    PROVE  /\ call' \in [Threads -> Handle!Calls]
           /\ call'[t].op = "none" /\ call'[t].at = "idle"
           /\ \A u \in Threads \ {t} : call'[u] = call[u]
<1>1. Handle!Idle \in Handle!Calls
    BY DEF Handle!HandleAssumption, Handle!Idle, Handle!Call, Handle!Calls, Handle!Ats,
           Handle!Answers, Handle!Interfaces
<1> QED BY <1>1, CallTypes DEF Handle!Return, Handle!Idle, Handle!Call

LEMMA ResetNextTypes ==
    ASSUME Handle!HandleAssumption, Handle!HandleTypeOK, NEW t \in Threads, NEW r \in Handle!Answers,
           Handle!ResetNext(t, r)
    PROVE  /\ call' \in [Threads -> Handle!Calls]
           /\ IF call[t].i = LastInterface THEN call'[t].op = "none" /\ call'[t].at = "idle" /\ lock' = NoThread
              ELSE /\ call'[t].op = "reset" /\ call'[t].i = call[t].i + 1
                   /\ call'[t].at = "reclaim" /\ call'[t].r = r
                   /\ call[t].i + 1 \in Handle!Interfaces /\ lock' = lock
           /\ \A u \in Threads \ {t} : call'[u] = call[u]
<1>1. CASE call[t].i = LastInterface
    BY <1>1, ReturnTypes DEF Handle!ResetNext
<1>2. CASE call[t].i # LastInterface
    <2>1. call[t].i + 1 \in Handle!Interfaces
        BY <1>2 DEF Handle!HandleTypeOK, Handle!Calls, Handle!HandleAssumption, Handle!Interfaces
    <2>2. Handle!Call("reset", call[t].i + 1, "reclaim", r) \in Handle!Calls
        BY <2>1 DEF Handle!Call, Handle!Calls, Handle!Ops, Handle!Ats
    <2> QED BY <1>2, <2>1, <2>2, CallTypes DEF Handle!ResetNext, Handle!Call
<1> QED BY <1>1, <1>2

LEMMA BeginsTypes ==
    ASSUME Handle!HandleAssumption, Handle!HandleTypeOK, NEW t \in Threads, NEW op \in Handle!Ops,
           NEW i \in Handle!Interfaces, NEW at \in Handle!Ats, Handle!Begins(t, op, i, at)
    PROVE  /\ call' \in [Threads -> Handle!Calls]
           /\ call'[t].op = op /\ call'[t].i = i /\ call'[t].at = at /\ call'[t].r = "ok"
           /\ \A u \in Threads \ {t} : call'[u] = call[u]
<1>1. Handle!Call(op, i, at, "ok") \in Handle!Calls
    BY DEF Handle!Call, Handle!Calls, Handle!Answers
<1> QED BY <1>1, CallTypes DEF Handle!Begins, Handle!Call

\* Every call begins like this.
LEMMA CallsBegin ==
    ASSUME Handle!HandleAssumption, NEW t \in Threads,
           \/ Handle!SetConfigurationBegins(t) \/ Handle!ResetDeviceBegins(t)
           \/ \E i \in Handle!Interfaces : Handle!CallBegins(t, i)
    PROVE  \E op \in Handle!Ops, i \in Handle!Interfaces,
              at \in {"lock", "ioctl", "release", "getDriver"} :
              at \in Handle!Places(op) /\ (at = "getDriver" => op = "detach")
              /\ (op = "reset" => at = "release") /\ Handle!Begins(t, op, i, at)
<1>0. 0 \in Handle!Interfaces
    BY DEF Handle!HandleAssumption, Handle!Interfaces
<1> USE DEF Handle!Ops, Handle!Places, Handle!Claiming
<1>1. CASE Handle!SetConfigurationBegins(t) \/ Handle!ResetDeviceBegins(t)
    BY <1>0, <1>1 DEF Handle!SetConfigurationBegins, Handle!ResetDeviceBegins
<1>2. ASSUME NEW i \in Handle!Interfaces, Handle!CallBegins(t, i)
      PROVE  \E op \in Handle!Ops, at \in {"lock", "ioctl", "release", "getDriver"} :
                 at \in Handle!Places(op) /\ (at = "getDriver" => op = "detach")
                 /\ (op = "reset" => at = "release") /\ Handle!Begins(t, op, i, at)
    BY <1>2 DEF Handle!CallBegins, Handle!ClaimInterfaceBegins, Handle!ReleaseInterfaceBegins,
         Handle!SetAltSettingBegins, Handle!ClearHaltBegins, Handle!DetachKernelDriverBegins,
         Handle!AttachKernelDriverBegins
<1> QED BY <1>1, <1>2

LEMMA HandleTypes ==
    ASSUME Handle!HandleAssumption, Handle!HandleTypeOK,
           Handle!HandleNext
    PROVE  Handle!HandleTypeOK'
<1>0. \A u \in Threads :
        call[u] \in Handle!Calls /\ call[u].i \in Handle!Interfaces /\ call[u].r \in Handle!Answers
    BY DEF Handle!HandleTypeOK, Handle!Calls
<1> USE DEF Handle!Ats, Handle!Answers
<1> USE DEF Handle!HandleTypeOK, Handle!kernel, Handle!ours, Handle!Drivers
<1>1. ASSUME NEW t \in Threads, Handle!Lock(t)
      PROVE  Handle!HandleTypeOK'
    BY <1>0, <1>1, GotoTypes DEF Handle!Lock
<1>2. ASSUME NEW t \in Threads, Handle!ClaimAgain(t)
      PROVE  Handle!HandleTypeOK'
    BY <1>0, <1>2, ReturnTypes DEF Handle!ClaimAgain
<1>3. ASSUME NEW t \in Threads, Handle!ClaimInterface(t)
      PROVE  Handle!HandleTypeOK'
    BY <1>0, <1>3, GotoTypes DEF Handle!ClaimInterface
<1>4. ASSUME NEW t \in Threads, Handle!PlainClaim(t)
      PROVE  Handle!HandleTypeOK'
    <2>1. PICK r \in {"ok", "busy", "noDevice"} :
                 Handle!Bind(call[t].i, r) /\ Handle!GotoWith(t, "claimed", r)
        BY <1>4 DEF Handle!PlainClaim
    <2>2. call' \in [Threads -> Handle!Calls]
        BY <2>1, GotoWithTypes
    <2> QED BY <1>0, <1>4, <2>1, <2>2 DEF Handle!PlainClaim, Handle!Bind
<1>5. ASSUME NEW t \in Threads, Handle!DetachClaim(t)
      PROVE  Handle!HandleTypeOK'
    <2>1. PICK r \in {"ok", "busy", "noDevice"} :
                 Handle!Bind(call[t].i, r) /\ Handle!GotoWith(t, "claimed", r)
        BY <1>5 DEF Handle!DetachClaim
    <2>2. call' \in [Threads -> Handle!Calls]
        BY <2>1, GotoWithTypes
    <2> QED BY <1>0, <1>5, <2>1, <2>2 DEF Handle!DetachClaim, Handle!Bind
<1>6. ASSUME NEW t \in Threads, Handle!DetachClaimFallback(t)
      PROVE  Handle!HandleTypeOK'
    BY <1>0, <1>6, GotoTypes DEF Handle!DetachClaimFallback
<1>7. ASSUME NEW t \in Threads, Handle!GetDriver(t)
      PROVE  Handle!HandleTypeOK'
    BY <1>0, <1>7, GotoTypes, GotoWithTypes, ReturnTypes DEF Handle!GetDriver, Handle!Detached
<1>8. ASSUME NEW t \in Threads, Handle!DisconnectDriver(t)
      PROVE  Handle!HandleTypeOK'
    BY <1>0, <1>8, GotoTypes, GotoWithTypes, ReturnTypes
       DEF Handle!DisconnectDriver, Handle!Detached
<1>9. ASSUME NEW t \in Threads, Handle!Claimed(t)
      PROVE  Handle!HandleTypeOK'
    BY <1>0, <1>9, ReturnTypes DEF Handle!Claimed
<1>10. ASSUME NEW t \in Threads, Handle!ReleaseUnclaimed(t)
      PROVE  Handle!HandleTypeOK'
    BY <1>0, <1>10, ReturnTypes DEF Handle!ReleaseUnclaimed
<1>11. ASSUME NEW t \in Threads, Handle!ReleaseInterface(t)
      PROVE  Handle!HandleTypeOK'
    BY <1>0, <1>11, GotoTypes, GotoWithTypes DEF Handle!ReleaseInterface, Handle!Release
<1>12. ASSUME NEW t \in Threads, Handle!Released(t)
      PROVE  Handle!HandleTypeOK'
    BY <1>0, <1>12, ReturnTypes DEF Handle!Released
<1>13. ASSUME NEW t \in Threads, Handle!AttachKernelDriver(t)
      PROVE  Handle!HandleTypeOK'
    <2>1. call' \in [Threads -> Handle!Calls]
        BY <1>13, GotoTypes, ReturnTypes DEF Handle!AttachKernelDriver
    <2>2. PICK d \in {"none", "driver", bound[call[t].i]} : bound' = [bound EXCEPT ![call[t].i] = d]
        BY <1>13 DEF Handle!AttachKernelDriver
    <2> QED BY <1>0, <1>13, <2>1, <2>2 DEF Handle!AttachKernelDriver
<1>14. ASSUME NEW t \in Threads, Handle!SetInterfaceAltSetting(t)
      PROVE  Handle!HandleTypeOK'
    BY <1>0, <1>14, GotoTypes, ReturnTypes DEF Handle!SetInterfaceAltSetting
<1>15. ASSUME NEW t \in Threads, Handle!InterfaceIoctl(t)
      PROVE  Handle!HandleTypeOK'
    BY <1>0, <1>15, ReturnTypes DEF Handle!InterfaceIoctl, Handle!TakeImplicitly
<1>16. ASSUME NEW t \in Threads, Handle!ResetReleases(t)
      PROVE  Handle!HandleTypeOK'
    <2>1. call' \in [Threads -> Handle!Calls]
        <3>1. Handle!Call("reset", 0, "lock", "ok") \in Handle!Calls
            BY DEF Handle!Call, Handle!Calls, Handle!Ops, Handle!HandleAssumption, Handle!Interfaces
        <3>2. call[t].i # LastInterface => Handle!Call("reset", call[t].i + 1, "release", "ok") \in Handle!Calls
            BY <1>0
               DEF Handle!Call, Handle!Calls, Handle!Ops, Handle!HandleAssumption,
                   Handle!Interfaces
        <3> QED BY <1>16, <3>1, <3>2, CallTypes DEF Handle!ResetReleases
    <2> QED BY <1>0, <1>16, <2>1 DEF Handle!ResetReleases, Handle!Release
<1>17. ASSUME NEW t \in Threads, Handle!ResetDevice(t)
      PROVE  Handle!HandleTypeOK'
    BY <1>0, <1>17, GotoTypes DEF Handle!ResetDevice
<1>18. ASSUME NEW t \in Threads, Handle!ResetFails(t)
      PROVE  Handle!HandleTypeOK'
    BY <1>0, <1>18, ReturnTypes DEF Handle!ResetFails
<1>19. ASSUME NEW t \in Threads, Handle!ResetReclaims(t)
      PROVE  Handle!HandleTypeOK'
    <2>1. call' \in [Threads -> Handle!Calls] /\ lock' \in {lock, NoThread}
        BY <1>0, <1>19, ResetNextTypes, GotoTypes DEF Handle!ResetReclaims
    <2> QED BY <1>0, <1>19, <2>1 DEF Handle!ResetReclaims
<1>20. ASSUME NEW t \in Threads, Handle!ResetReclaimed(t)
      PROVE  Handle!HandleTypeOK'
    <2>1. call' \in [Threads -> Handle!Calls] /\ lock' \in {lock, NoThread}
        BY <1>0, <1>20, ResetNextTypes, GotoTypes DEF Handle!ResetReclaimed
    <2> QED BY <1>0, <1>20, <2>1 DEF Handle!ResetReclaimed
<1>21. ASSUME NEW t \in Threads, Handle!SetConfiguration(t)
      PROVE  Handle!HandleTypeOK'
    BY <1>0, <1>21, ReturnTypes DEF Handle!SetConfiguration
<1>22. ASSUME NEW t \in Threads, NEW op \in Handle!Ops, NEW i \in Handle!Interfaces,
             NEW at \in {"lock", "ioctl", "release", "getDriver"}, at \in Handle!Places(op),
             at = "getDriver" => op = "detach",
             Handle!Begins(t, op, i, at)
      PROVE  Handle!HandleTypeOK'
    BY <1>22, BeginsTypes DEF Handle!Begins
<1>23. CASE Handle!SetAutoDetachKernelDriver
    BY <1>23 DEF Handle!SetAutoDetachKernelDriver
<1>24. CASE Handle!Unplug
    BY <1>24 DEF Handle!Unplug
<1>25. CASE Handle!Disconnected
    BY <1>25 DEF Handle!Disconnected
<1>26. ASSUME NEW i \in Handle!Interfaces, Handle!OtherBinds(i)
      PROVE  Handle!HandleTypeOK'
    BY <1>26 DEF Handle!OtherBinds
<1> QED
    BY <1>1, <1>2, <1>3, <1>4, <1>5, <1>6, <1>7, <1>8, <1>9, <1>10, <1>11, <1>12, <1>13, <1>14,
       <1>15, <1>16, <1>17, <1>18, <1>19, <1>20, <1>21, <1>22, <1>23, <1>24, <1>25, <1>26,
       CallsBegin
       DEF Handle!HandleNext, Handle!Step

\* A thread is in a place of its call, and the others stay where they are.
LEMMA PlacesStep ==
    ASSUME Handle!HandleAssumption, Handle!HandleTypeOK, Handle!CallsAreInPlace,
           NEW t \in Threads, Handle!Step(t)
    PROVE  /\ call'[t].at \in Handle!Places(call'[t].op)
           /\ \A u \in Threads \ {t} : call'[u] = call[u]
<1>0. /\ call[t].at \in Handle!Places(call[t].op) /\ call[t].op \in Handle!Ops \cup {"none"}
      /\ call[t].r \in Handle!Answers /\ call[t].i \in Handle!Interfaces
    BY DEF Handle!CallsAreInPlace, Handle!HandleTypeOK, Handle!Calls
<1> USE DEF Handle!Ats, Handle!Answers, Handle!At, Handle!Places, Handle!Claiming, Handle!Ops
<1>1. CASE Handle!Lock(t)
    BY <1>0, <1>1, GotoTypes DEF Handle!Lock
<1>2. CASE Handle!ClaimAgain(t)
    BY <1>0, <1>2, ReturnTypes DEF Handle!ClaimAgain
<1>3. CASE Handle!ClaimInterface(t)
    BY <1>0, <1>3, GotoTypes DEF Handle!ClaimInterface
<1>4. CASE Handle!PlainClaim(t)
    BY <1>0, <1>4, GotoWithTypes DEF Handle!PlainClaim
<1>5. CASE Handle!DetachClaim(t)
    BY <1>0, <1>5, GotoWithTypes DEF Handle!DetachClaim
<1>6. CASE Handle!DetachClaimFallback(t)
    BY <1>0, <1>6, GotoTypes DEF Handle!DetachClaimFallback
<1>7. CASE Handle!GetDriver(t)
    BY <1>0, <1>7, GotoTypes, GotoWithTypes, ReturnTypes DEF Handle!GetDriver, Handle!Detached
<1>8. CASE Handle!DisconnectDriver(t)
    BY <1>0, <1>8, GotoTypes, GotoWithTypes, ReturnTypes
       DEF Handle!DisconnectDriver, Handle!Detached
<1>9. CASE Handle!Claimed(t)
    BY <1>0, <1>9, ReturnTypes DEF Handle!Claimed
<1>10. CASE Handle!ReleaseUnclaimed(t)
    BY <1>0, <1>10, ReturnTypes DEF Handle!ReleaseUnclaimed
<1>11. CASE Handle!ReleaseInterface(t)
    BY <1>0, <1>11, GotoTypes, GotoWithTypes DEF Handle!ReleaseInterface
<1>12. CASE Handle!Released(t)
    BY <1>0, <1>12, ReturnTypes DEF Handle!Released
<1>13. CASE Handle!AttachKernelDriver(t)
    BY <1>0, <1>13, GotoTypes, ReturnTypes DEF Handle!AttachKernelDriver
<1>14. CASE Handle!SetInterfaceAltSetting(t)
    BY <1>0, <1>14, GotoTypes, ReturnTypes DEF Handle!SetInterfaceAltSetting
<1>15. CASE Handle!InterfaceIoctl(t)
    BY <1>0, <1>15, ReturnTypes DEF Handle!InterfaceIoctl
<1>16. CASE Handle!ResetReleases(t)
    BY <1>0, <1>16, CallTypes DEF Handle!ResetReleases, Handle!Call, Handle!Calls
<1>17. CASE Handle!ResetDevice(t)
    BY <1>0, <1>17, GotoTypes DEF Handle!ResetDevice
<1>18. CASE Handle!ResetFails(t)
    BY <1>0, <1>18, ReturnTypes DEF Handle!ResetFails
<1>19. CASE Handle!ResetReclaims(t)
    BY <1>0, <1>19, GotoTypes, ResetNextTypes DEF Handle!ResetReclaims
<1>20. CASE Handle!ResetReclaimed(t)
    BY <1>0, <1>20, ResetNextTypes DEF Handle!ResetReclaimed
<1>21. CASE Handle!SetConfiguration(t)
    BY <1>0, <1>21, ReturnTypes DEF Handle!SetConfiguration
<1> QED
    BY <1>1, <1>2, <1>3, <1>4, <1>5, <1>6, <1>7, <1>8, <1>9, <1>10, <1>11, <1>12, <1>13, <1>14,
       <1>15, <1>16, <1>17, <1>18, <1>19, <1>20, <1>21
       DEF Handle!Step

LEMMA LocksStep ==
    ASSUME Handle!HandleAssumption, Handle!HandleTypeOK, Handle!CallsAreInPlace,
           Handle!LockIsHeldInside, NEW t \in Threads, Handle!Step(t)
    PROVE  /\ lock' = lock \/ (lock \in {t, NoThread} /\ lock' \in {t, NoThread})
           /\ lock' = t <=> /\ call'[t].op \in {"claim", "release", "reset", "alt"}
                           /\ call'[t].at \notin {"lock", "release", "ioctl"}
<1>0. /\ call[t].at \in Handle!Places(call[t].op) /\ call[t].op \in Handle!Ops \cup {"none"}
      /\ call[t].r \in Handle!Answers /\ call[t].i \in Handle!Interfaces
      /\ lock = t <=> /\ call[t].op \in {"claim", "release", "reset", "alt"}
                      /\ call[t].at \notin {"lock", "release", "ioctl"}
      /\ t # NoThread
    BY DEF Handle!CallsAreInPlace, Handle!HandleTypeOK, Handle!Calls, Handle!LockIsHeldInside,
           Handle!HandleAssumption
<1> USE DEF Handle!Ats, Handle!Answers, Handle!At, Handle!Places, Handle!Claiming, Handle!Ops
<1>1. CASE Handle!Lock(t)
    BY <1>0, <1>1, GotoTypes DEF Handle!Lock
<1>2. CASE Handle!ClaimAgain(t)
    BY <1>0, <1>2, ReturnTypes DEF Handle!ClaimAgain
<1>3. CASE Handle!ClaimInterface(t)
    BY <1>0, <1>3, GotoTypes DEF Handle!ClaimInterface
<1>4. CASE Handle!PlainClaim(t)
    BY <1>0, <1>4, GotoWithTypes DEF Handle!PlainClaim
<1>5. CASE Handle!DetachClaim(t)
    BY <1>0, <1>5, GotoWithTypes DEF Handle!DetachClaim
<1>6. CASE Handle!DetachClaimFallback(t)
    BY <1>0, <1>6, GotoTypes DEF Handle!DetachClaimFallback
<1>7. CASE Handle!GetDriver(t)
    BY <1>0, <1>7, GotoTypes, GotoWithTypes, ReturnTypes DEF Handle!GetDriver, Handle!Detached
<1>8. CASE Handle!DisconnectDriver(t)
    BY <1>0, <1>8, GotoTypes, GotoWithTypes, ReturnTypes
       DEF Handle!DisconnectDriver, Handle!Detached
<1>9. CASE Handle!Claimed(t)
    BY <1>0, <1>9, ReturnTypes DEF Handle!Claimed
<1>10. CASE Handle!ReleaseUnclaimed(t)
    BY <1>0, <1>10, ReturnTypes DEF Handle!ReleaseUnclaimed
<1>11. CASE Handle!ReleaseInterface(t)
    BY <1>0, <1>11, GotoTypes, GotoWithTypes DEF Handle!ReleaseInterface
<1>12. CASE Handle!Released(t)
    BY <1>0, <1>12, ReturnTypes DEF Handle!Released
<1>13. CASE Handle!AttachKernelDriver(t)
    BY <1>0, <1>13, GotoTypes, ReturnTypes DEF Handle!AttachKernelDriver
<1>14. CASE Handle!SetInterfaceAltSetting(t)
    BY <1>0, <1>14, GotoTypes, ReturnTypes DEF Handle!SetInterfaceAltSetting
<1>15. CASE Handle!InterfaceIoctl(t)
    BY <1>0, <1>15, ReturnTypes DEF Handle!InterfaceIoctl
<1>16. CASE Handle!ResetReleases(t)
    BY <1>0, <1>16, CallTypes DEF Handle!ResetReleases, Handle!Call, Handle!Calls
<1>17. CASE Handle!ResetDevice(t)
    BY <1>0, <1>17, GotoTypes DEF Handle!ResetDevice
<1>18. CASE Handle!ResetFails(t)
    BY <1>0, <1>18, ReturnTypes DEF Handle!ResetFails
<1>19. CASE Handle!ResetReclaims(t)
    BY <1>0, <1>19, GotoTypes, ResetNextTypes DEF Handle!ResetReclaims
<1>20. CASE Handle!ResetReclaimed(t)
    BY <1>0, <1>20, ResetNextTypes DEF Handle!ResetReclaimed
<1>21. CASE Handle!SetConfiguration(t)
    BY <1>0, <1>21, ReturnTypes DEF Handle!SetConfiguration
<1> QED
    BY <1>1, <1>2, <1>3, <1>4, <1>5, <1>6, <1>7, <1>8, <1>9, <1>10, <1>11, <1>12, <1>13, <1>14,
       <1>15, <1>16, <1>17, <1>18, <1>19, <1>20, <1>21
       DEF Handle!Step

LEMMA HandleLocks ==
    ASSUME Handle!HandleAssumption, Handle!HandleTypeOK, Handle!CallsAreInPlace,
           Handle!LockIsHeldInside, Handle!HandleNext
    PROVE  Handle!CallsAreInPlace' /\ Handle!LockIsHeldInside'
<1>1. ASSUME NEW t \in Threads, Handle!Step(t)
      PROVE  Handle!CallsAreInPlace' /\ Handle!LockIsHeldInside'
    BY <1>1, PlacesStep, LocksStep
       DEF Handle!CallsAreInPlace, Handle!LockIsHeldInside, Handle!HandleAssumption
<1>2. ASSUME NEW t \in Threads, NEW op \in Handle!Ops, NEW i \in Handle!Interfaces,
             NEW at \in {"lock", "ioctl", "release", "getDriver"}, at \in Handle!Places(op),
             at = "getDriver" => op = "detach",
             Handle!Begins(t, op, i, at)
      PROVE  Handle!CallsAreInPlace' /\ Handle!LockIsHeldInside'
    <2>1. at \in Handle!Ats
        BY DEF Handle!Ats
    <2>2. /\ call'[t].op = op /\ call'[t].at = at
          /\ \A u \in Threads \ {t} : call'[u] = call[u]
        BY <1>2, <2>1, BeginsTypes
    <2>3. lock' = lock /\ call[t].op = "none"
        BY <1>2 DEF Handle!Begins, Handle!Idle, Handle!Call
    <2>4. lock # t
        BY <2>3 DEF Handle!LockIsHeldInside
    <2>5. op = "detach" \/ at \in {"lock", "ioctl", "release"}
        BY <1>2
    <2>6. Handle!CallsAreInPlace'
        BY <1>2, <2>2 DEF Handle!CallsAreInPlace
    <2>7. Handle!LockIsHeldInside'
        BY <2>2, <2>3, <2>4, <2>5 DEF Handle!LockIsHeldInside
    <2> QED BY <2>6, <2>7
<1>3. CASE UNCHANGED <<call, lock>>
    BY <1>3 DEF Handle!CallsAreInPlace, Handle!LockIsHeldInside
<1> QED
    BY <1>1, <1>2, <1>3, CallsBegin
       DEF Handle!HandleNext, Handle!SetAutoDetachKernelDriver, Handle!Unplug, Handle!Disconnected,
           Handle!OtherBinds

\* A call that has not done anything yet that needs the lock.
QuietCall(c) ==
    /\ c.op = "claim" => c.at \in {"lock", "locked"}
    /\ c.op = "release" => c.at \in {"lock", "locked"} /\ c.r = "ok"
    /\ c.op = "reset" => c.at = "release" \/ (c.at \in {"lock", "locked"} /\ c.i = 0)

\* What is under way in a call.
UnderWay(t) ==
    Handle!ClaimIsUnderWay(t) /\ Handle!ReleaseIsUnderWay(t) /\ Handle!ResetIsUnderWay(t)

\* A thread outside of the lock is in such a call, and for that nothing is under way.
LEMMA QuietOutside ==
    ASSUME Handle!CallsAreInPlace, Handle!LockIsHeldInside, NEW u \in Threads, lock # u,
           Handle!ReleaseIsUnderWay(u), Handle!ResetIsUnderWay(u)
    PROVE  QuietCall(call[u])
<1>1. /\ call[u].at \in Handle!Places(call[u].op)
      /\ call[u].op \in {"claim", "release", "reset", "alt"} =>
            call[u].at \in {"lock", "release", "ioctl"}
    BY DEF Handle!CallsAreInPlace, Handle!LockIsHeldInside
<1>2. CASE call[u].op = "claim"
    BY <1>1, <1>2 DEF QuietCall, Handle!Places, Handle!Claiming
<1>3. CASE call[u].op = "release"
    BY <1>1, <1>3 DEF QuietCall, Handle!Places, Handle!ReleaseIsUnderWay
<1>4. CASE call[u].op = "reset"
    BY <1>1, <1>4 DEF QuietCall, Handle!Places, Handle!Claiming, Handle!ResetIsUnderWay
<1> QED BY <1>2, <1>3, <1>4 DEF QuietCall

LEMMA QuietIsUnderWay ==
    ASSUME NEW u \in Threads, QuietCall(call'[u])
    PROVE  UnderWay(u)'
BY DEF QuietCall, UnderWay, Handle!ClaimIsUnderWay, Handle!ReleaseIsUnderWay,
       Handle!ResetIsUnderWay, Handle!Claiming

\* A step outside of the lock that claims nothing, and releases something only if
\* that is known, leaves what is under way as it is.
LEMMA HandleQuiet ==
    ASSUME Handle!HandleTypeOK, Handle!CallsAreInPlace, Handle!LockIsHeldInside,
           Handle!ClaimedIsHeld, \A u \in Threads : UnderWay(u),
           claimed' = claimed, plugged' = plugged, lost \subseteq lost',
           \A i \in Handle!Interfaces : bound'[i] = "usbfs" => bound[i] = "usbfs",
           \A i \in Handle!Interfaces : Handle!Held(i) =>
                \/ Handle!Held(i)' \/ i \in lost'
                \/ \E u \in Threads : lock # u /\ call'[u].op = "reset",
           \A u \in Threads :
                \/ call'[u] = call[u]
                \/ lock # u /\ QuietCall(call'[u]) /\ (call[u].op = "reset" => call'[u].op = "reset")
    PROVE  Handle!ClaimedIsHeld' /\ \A w \in Threads : UnderWay(w)'
<1>1. \A u \in Threads : call[u].op = "reset" => call'[u].op = "reset"
    OBVIOUS
<1>2. \A u \in Threads : lock = u => call'[u] = call[u]
    OBVIOUS
<1>3. ASSUME NEW w \in Threads, lock # w PROVE UnderWay(w)'
    <2>1. QuietCall(call[w])
        BY <1>3, QuietOutside DEF UnderWay
    <2> QED BY <1>3, <2>1, QuietIsUnderWay
<1>4. ASSUME NEW w \in Threads, lock = w PROVE UnderWay(w)'
    <2>1. call'[w] = call[w] /\ call[w].i \in Handle!Interfaces
        BY <1>2, <1>4 DEF Handle!HandleTypeOK, Handle!Calls
    <2>2. \A i \in Handle!Interfaces : Handle!Kept(w, i) => Handle!Kept(w, i)'
        BY <1>1, <1>4 DEF Handle!Kept
    <2>3. Handle!ClaimIsUnderWay(w)'
        BY <2>1, <2>2 DEF UnderWay, Handle!ClaimIsUnderWay
    <2>4. Handle!ReleaseIsUnderWay(w)'
        BY <2>1, <2>2 DEF UnderWay, Handle!ReleaseIsUnderWay
    <2>5. \A i \in Handle!Interfaces : Handle!Reclaimed(w, i)' = Handle!Reclaimed(w, i)
        BY <2>1 DEF Handle!Reclaimed
    <2>6. Handle!ResetIsUnderWay(w)'
        BY <2>1, <2>2, <2>5 DEF UnderWay, Handle!ResetIsUnderWay
    <2> QED BY <2>3, <2>4, <2>6 DEF UnderWay
<1>5. ASSUME NEW u \in Threads, NEW op \in {"claim", "release"},
             NEW at \in {"claimed", "connect", "released"}, call[u].op = op, call[u].at = at
      PROVE  call'[u] = call[u]
    BY <1>2, <1>5 DEF Handle!LockIsHeldInside
<1>6. Handle!ClaimedIsHeld'
    <2>1. ASSUME NEW i \in Handle!Interfaces, plugged', i \in claimed',
                 ~Handle!Held(i)', i \notin lost', \A t \in Threads : call'[t].op # "reset"
          PROVE  \/ \E t \in Threads : Handle!At(t, {"release"}, "connect")' /\ call'[t].i = i
                 \/ \E t \in Threads : Handle!At(t, {"release"}, "released")' /\ call'[t].i = i
        <3>1. ~Handle!Held(i) /\ i \notin lost /\ \A t \in Threads : call[t].op # "reset"
            BY <1>1, <2>1
        <3>2. PICK t \in Threads : /\ Handle!At(t, {"release"}, "connect") \/ Handle!At(t, {"release"}, "released")
                                   /\ call[t].i = i
            BY <2>1, <3>1 DEF Handle!ClaimedIsHeld
        <3>3. call'[t] = call[t]
            BY <1>5, <3>2 DEF Handle!At
        <3> QED BY <3>2, <3>3 DEF Handle!At
    <2>2. ASSUME NEW i \in Handle!Interfaces, bound'[i] = "usbfs", i \notin claimed'
          PROVE  \E t \in Threads : Handle!At(t, {"claim"}, "claimed")' /\ call'[t].i = i
        <3>1. PICK t \in Threads : Handle!At(t, {"claim"}, "claimed") /\ call[t].i = i
            BY <2>2 DEF Handle!ClaimedIsHeld
        <3>2. call'[t] = call[t]
            BY <1>5, <3>1 DEF Handle!At
        <3> QED BY <3>1, <3>2 DEF Handle!At
    <2> QED BY <2>1, <2>2 DEF Handle!ClaimedIsHeld
<1> QED BY <1>3, <1>4, <1>6

\* A device that is unplugged has nothing that could be lost.
LEMMA HandleUnplugged ==
    ASSUME Handle!HandleTypeOK, Handle!ClaimedIsHeld, \A u \in Threads : UnderWay(u), Handle!Unplug
    PROVE  Handle!ClaimedIsHeld' /\ \A w \in Threads : UnderWay(w)'
<1>1. ~plugged' /\ \A i \in Handle!Interfaces : bound'[i] = "none"
    BY DEF Handle!Unplug
<1>2. Handle!ClaimedIsHeld'
    BY <1>1 DEF Handle!ClaimedIsHeld
<1>3. ASSUME NEW w \in Threads PROVE UnderWay(w)'
    <2>1. call' = call /\ claimed' = claimed /\ call[w].i \in Handle!Interfaces
        BY DEF Handle!Unplug, Handle!ours, Handle!HandleTypeOK, Handle!Calls
    <2>2. \A i : Handle!Kept(w, i)'
        BY <1>1 DEF Handle!Kept
    <2>3. \A i \in Handle!Interfaces : Handle!Reclaimed(w, i)' = Handle!Reclaimed(w, i)
        BY <2>1 DEF Handle!Reclaimed
    <2>4. Handle!ClaimIsUnderWay(w)' /\ Handle!ReleaseIsUnderWay(w)'
        BY <1>1, <2>1, <2>2 DEF UnderWay, Handle!ClaimIsUnderWay, Handle!ReleaseIsUnderWay
    <2>5. Handle!ResetIsUnderWay(w)'
        BY <1>1, <2>1, <2>2, <2>3 DEF UnderWay, Handle!ResetIsUnderWay
    <2> QED BY <2>4, <2>5 DEF UnderWay
<1> QED BY <1>2, <1>3

\* A step of the thread that holds the lock.
Holder(t) ==
    /\ Handle!HandleTypeOK /\ Handle!CallsAreInPlace /\ Handle!LockIsHeldInside
    /\ Handle!ClaimedIsHeld /\ \A u \in Threads : UnderWay(u)
    /\ lock = t /\ plugged' = plugged
    /\ \A u \in Threads \ {t} : call'[u] = call[u]

\* What ClaimedIsHeld says when t holds the lock: only t can be in the middle of a
\* claim or a release.
HeldFor(t, i) ==
    /\ i \in claimed => \/ Handle!Kept(t, i) \/ call[t].op = "reset"
                        \/ call[t].op = "release" /\ call[t].at \in {"connect", "released"} /\ call[t].i = i
    /\ bound[i] = "usbfs" => \/ i \in claimed
                             \/ call[t].op = "claim" /\ call[t].at = "claimed" /\ call[t].i = i

LEMMA HolderBegins ==
    ASSUME NEW t \in Threads, Holder(t), NEW i \in Handle!Interfaces
    PROVE  HeldFor(t, i)
<1>1. \A u \in Threads : call[u].op \in {"claim", "release"}
                           /\ call[u].at \in {"claimed", "connect", "released"} => u = t
    BY DEF Holder, Handle!LockIsHeldInside
<1> QED BY <1>1 DEF Holder, HeldFor, Handle!ClaimedIsHeld, Handle!Kept, Handle!At

LEMMA HolderEnds ==
    ASSUME NEW t \in Threads, Holder(t), UnderWay(t)',
           \A i \in Handle!Interfaces : HeldFor(t, i)'
    PROVE  Handle!ClaimedIsHeld' /\ \A w \in Threads : UnderWay(w)'
<1>1. ASSUME NEW u \in Threads \ {t} PROVE UnderWay(u)'
    <2>1. QuietCall(call[u])
        BY QuietOutside DEF Holder, UnderWay
    <2> QED BY <2>1, QuietIsUnderWay DEF Holder
<1>2. Handle!ClaimedIsHeld'
    BY DEF HeldFor, Handle!ClaimedIsHeld, Handle!Kept, Handle!At
<1> QED BY <1>1, <1>2

\* What is kept stays so, if the step does not take it.
LEMMA KeptStays ==
    ASSUME NEW t \in Threads, Holder(t), NEW i \in Handle!Interfaces, Handle!Kept(t, i),
           Handle!Held(i) => Handle!Held(i)' \/ i \in lost',
           i \in lost => Handle!Held(i)' \/ i \in lost'
    PROVE  Handle!Kept(t, i)'
BY DEF Holder, Handle!Kept

\* The call ends, or goes on without the lock, with nothing claimed or released.
LEMMA HolderReturns ==
    ASSUME NEW t \in Threads, Holder(t), UNCHANGED <<claimed, bound, lost>>,
           call[t].at = "locked", call[t].op # "reset", call'[t].op \in {"none", "alt"}
    PROVE  Handle!ClaimedIsHeld' /\ \A w \in Threads : UnderWay(w)'
<1>1. \A i \in Handle!Interfaces : Handle!Kept(t, i) => Handle!Kept(t, i)'
    BY DEF Holder, Handle!Kept, Handle!Held
<1>2. \A i \in Handle!Interfaces : HeldFor(t, i)'
    BY <1>1, HolderBegins DEF HeldFor
<1>3. UnderWay(t)'
    BY DEF UnderWay, Handle!ClaimIsUnderWay, Handle!ReleaseIsUnderWay, Handle!ResetIsUnderWay
<1> QED BY <1>2, <1>3, HolderEnds

\* A claim, or a reset that claims again, comes nearer to it.
LEMMA HolderGoes ==
    ASSUME NEW t \in Threads, Holder(t), UNCHANGED <<claimed, bound, lost>>,
           call'[t].op = call[t].op, call'[t].i = call[t].i,
           call[t].at # "claimed", call'[t].at \in Handle!Claiming \ {"claimed"},
           \/ call[t].op = "claim" /\ call[t].i \notin claimed
           \/ /\ call[t].op = "reset" /\ call[t].i \in claimed
              /\ call[t].at \in {"reclaim"} \cup Handle!Claiming
    PROVE  Handle!ClaimedIsHeld' /\ \A w \in Threads : UnderWay(w)'
<1>0. /\ call'[t].at # "claimed"
      /\ call'[t].at \notin {"lock", "locked"}
      /\ call[t].i \in Handle!Interfaces
    BY DEF Handle!Claiming, Holder, Handle!HandleTypeOK, Handle!Calls
<1>1. \A i \in Handle!Interfaces : Handle!Kept(t, i) => Handle!Kept(t, i)'
    BY DEF Holder, Handle!Kept, Handle!Held
<1>2. \A i \in Handle!Interfaces : HeldFor(t, i)'
    BY <1>1, HolderBegins DEF HeldFor
<1>3. Handle!ClaimIsUnderWay(t)' /\ Handle!ReleaseIsUnderWay(t)'
    BY <1>0 DEF Handle!ClaimIsUnderWay, Handle!ReleaseIsUnderWay
<1>4. Handle!ResetIsUnderWay(t)'
    <2>1. \A i \in Handle!Interfaces : Handle!Reclaimed(t, i)' = Handle!Reclaimed(t, i)
        BY <1>0 DEF Handle!Reclaimed
    <2> QED BY <1>0, <1>1, <2>1 DEF Handle!ResetIsUnderWay, Holder, UnderWay
<1> QED BY <1>2, <1>3, <1>4, HolderEnds DEF UnderWay

\* The kernel has answered, and has claimed the interface if it agreed.
LEMMA HolderBinds ==
    ASSUME NEW t \in Threads, Holder(t), claimed' = claimed,
           NEW r \in {"ok", "busy", "noDevice"}, Handle!Bind(call[t].i, r),
           call[t].at \in {"plainClaim", "detachClaim"}, call[t].op \in {"claim", "reset"},
           call'[t].op = call[t].op, call'[t].i = call[t].i, call'[t].at = "claimed", call'[t].r = r
    PROVE  Handle!ClaimedIsHeld' /\ \A w \in Threads : UnderWay(w)'
<1> DEFINE i == call[t].i
<1>0. i \in Handle!Interfaces /\ bound \in [Handle!Interfaces -> Handle!Drivers]
    BY DEF Holder, Handle!HandleTypeOK, Handle!Calls
<1>1. /\ \A j \in Handle!Interfaces \ {i} : bound'[j] = bound[j] /\ (j \in lost <=> j \in lost')
      /\ bound'[i] = IF r = "ok" THEN "usbfs" ELSE bound[i]
      /\ r # "ok" => lost' = lost
    BY <1>0 DEF Handle!Bind
<1>2. \A j \in Handle!Interfaces \ {i} : Handle!Kept(t, j) => Handle!Kept(t, j)'
    BY <1>1 DEF Holder, Handle!Kept, Handle!Held
<1>3. r = "ok" => Handle!Kept(t, i)'
    BY <1>0, <1>1 DEF Handle!Kept, Handle!Held
<1>4. CASE call[t].op = "claim"
    <2>1. i \notin claimed
        BY <1>4 DEF Holder, UnderWay, Handle!ClaimIsUnderWay, Handle!Claiming
    <2>2. bound[i] # "usbfs"
        BY <1>0, <2>1, HolderBegins DEF HeldFor
    <2>3. ASSUME NEW j \in Handle!Interfaces PROVE HeldFor(t, j)'
        BY <1>1, <1>2, <1>4, <2>1, <2>2, HolderBegins DEF HeldFor
    <2>4. UnderWay(t)'
        BY <1>0, <1>1, <1>3, <1>4, <2>1, <2>2 DEF UnderWay, Handle!ClaimIsUnderWay,
           Handle!ReleaseIsUnderWay, Handle!ResetIsUnderWay
    <2> QED BY <2>3, <2>4, HolderEnds
<1>5. CASE call[t].op = "reset"
    <2>1. i \in claimed /\ \A j \in Handle!Interfaces :
                               IF j < i THEN j \in claimed => Handle!Kept(t, j) ELSE bound[j] # "usbfs"
        BY <1>0, <1>5
           DEF Holder, UnderWay, Handle!ResetIsUnderWay, Handle!Claiming, Handle!Reclaimed
    <2>2. ASSUME NEW j \in Handle!Interfaces PROVE HeldFor(t, j)'
        BY <1>1, <1>5, <2>1, HolderBegins DEF HeldFor
    <2>3. ASSUME NEW j \in Handle!Interfaces
          PROVE  IF Handle!Reclaimed(t, j)' THEN j \in claimed => Handle!Kept(t, j)' ELSE bound'[j] # "usbfs"
        <3>1. Handle!Reclaimed(t, j)' <=> j < i \/ (j = i /\ r = "ok")
            BY DEF Handle!Reclaimed
        <3>2. i \in Nat /\ j \in Nat
            BY <1>0 DEF Handle!Interfaces
        <3>3. CASE j = i
            BY <1>0, <1>1, <1>3, <2>1, <3>1, <3>2, <3>3
        <3>4. CASE j # i
            BY <1>1, <1>2, <2>1, <3>1, <3>4
        <3> QED BY <3>3, <3>4
    <2>4. UnderWay(t)'
        BY <1>5, <2>1, <2>3 DEF UnderWay, Handle!ClaimIsUnderWay, Handle!ReleaseIsUnderWay,
           Handle!ResetIsUnderWay
    <2> QED BY <2>2, <2>4, HolderEnds
<1> QED BY <1>4, <1>5

\* The driver is gone, whoever it was, before the interface is claimed.
LEMMA HolderDisconnects ==
    ASSUME NEW t \in Threads, Holder(t), claimed' = claimed,
           bound' = [bound EXCEPT ![call[t].i] = "none"],
           lost' = IF Handle!Held(call[t].i) THEN lost \cup {call[t].i} ELSE lost,
           call[t].at = "disconnect", call[t].op \in {"claim", "reset"},
           call'[t].op = call[t].op, call'[t].i = call[t].i,
           \/ call'[t].at = "plainClaim"
           \/ call'[t].at = "claimed" /\ call'[t].r = "noDevice"
    PROVE  Handle!ClaimedIsHeld' /\ \A w \in Threads : UnderWay(w)'
<1> DEFINE i == call[t].i
<1>0. i \in Handle!Interfaces /\ bound \in [Handle!Interfaces -> Handle!Drivers]
    BY DEF Holder, Handle!HandleTypeOK, Handle!Calls
<1>1. /\ \A j \in Handle!Interfaces \ {i} : bound'[j] = bound[j]
      /\ bound'[i] = "none" /\ lost \subseteq lost'
      /\ Handle!Held(i) => i \in lost'
    BY <1>0
<1>2. \A j \in Handle!Interfaces : Handle!Kept(t, j) => Handle!Kept(t, j)'
    BY <1>1 DEF Holder, Handle!Kept, Handle!Held
<1>3. CASE call[t].op = "claim"
    <2>1. i \notin claimed
        BY <1>3 DEF Holder, UnderWay, Handle!ClaimIsUnderWay, Handle!Claiming
    <2>2. ASSUME NEW j \in Handle!Interfaces PROVE HeldFor(t, j)'
        BY <1>1, <1>2, <1>3, <2>1, HolderBegins DEF HeldFor
    <2>3. UnderWay(t)'
        BY <1>0, <1>1, <1>3, <2>1 DEF UnderWay, Handle!ClaimIsUnderWay,
           Handle!ReleaseIsUnderWay, Handle!ResetIsUnderWay
    <2> QED BY <2>2, <2>3, HolderEnds
<1>4. CASE call[t].op = "reset"
    <2>1. i \in claimed /\ \A j \in Handle!Interfaces :
                               IF j < i THEN j \in claimed => Handle!Kept(t, j) ELSE bound[j] # "usbfs"
        BY <1>0, <1>4
           DEF Holder, UnderWay, Handle!ResetIsUnderWay, Handle!Claiming, Handle!Reclaimed
    <2>2. ASSUME NEW j \in Handle!Interfaces PROVE HeldFor(t, j)'
        BY <1>1, <1>4, HolderBegins DEF HeldFor
    <2>3. ASSUME NEW j \in Handle!Interfaces
          PROVE  IF Handle!Reclaimed(t, j)' THEN j \in claimed => Handle!Kept(t, j)' ELSE bound'[j] # "usbfs"
        <3>1. Handle!Reclaimed(t, j)' <=> j < i
            BY DEF Handle!Reclaimed
        <3> QED BY <1>1, <1>2, <2>1, <3>1
    <2>4. UnderWay(t)'
        BY <1>4, <2>1, <2>3 DEF UnderWay, Handle!ClaimIsUnderWay, Handle!ReleaseIsUnderWay,
           Handle!ResetIsUnderWay
    <2> QED BY <2>2, <2>4, HolderEnds
<1> QED BY <1>3, <1>4

\* op_claim_interface() has returned, and the bit is set if the kernel agreed.
LEMMA HolderClaimed ==
    ASSUME NEW t \in Threads, Holder(t), UNCHANGED <<bound, lost>>,
           call[t].op = "claim", call[t].at = "claimed", call'[t].op = "none",
           claimed' = IF call[t].r = "ok" THEN claimed \cup {call[t].i} ELSE claimed
    PROVE  Handle!ClaimedIsHeld' /\ \A w \in Threads : UnderWay(w)'
<1>1. \A i \in Handle!Interfaces : Handle!Kept(t, i) => Handle!Kept(t, i)'
    BY DEF Holder, Handle!Kept, Handle!Held
<1>2. IF call[t].r = "ok" THEN Handle!Kept(t, call[t].i) ELSE bound[call[t].i] # "usbfs"
    BY DEF Holder, UnderWay, Handle!ClaimIsUnderWay, Handle!Claiming
<1>3. \A i \in Handle!Interfaces : HeldFor(t, i)'
    BY <1>1, <1>2, HolderBegins DEF HeldFor
<1>4. UnderWay(t)'
    BY DEF UnderWay, Handle!ClaimIsUnderWay, Handle!ReleaseIsUnderWay, Handle!ResetIsUnderWay
<1> QED BY <1>3, <1>4, HolderEnds

\* The kernel has released the interface, or never had it.
LEMMA HolderReleases ==
    ASSUME NEW t \in Threads, Holder(t), UNCHANGED <<claimed, lost>>,
           call[t].op = "release", call[t].at = "locked", call[t].i \in claimed,
           Handle!Release(call[t].i), call'[t].op = "release", call'[t].i = call[t].i,
           call'[t].at \in {"connect", "released"},
           IF plugged /\ Handle!Held(call[t].i) THEN call'[t].r = call[t].r
           ELSE call'[t].r = "other" /\ call'[t].at = "released"
    PROVE  Handle!ClaimedIsHeld' /\ \A w \in Threads : UnderWay(w)'
<1> DEFINE i == call[t].i
<1>0. i \in Handle!Interfaces /\ bound \in [Handle!Interfaces -> Handle!Drivers] /\ call[t].r = "ok"
    BY DEF Holder, Handle!HandleTypeOK, Handle!Calls, UnderWay, Handle!ReleaseIsUnderWay
<1>1. /\ \A j \in Handle!Interfaces \ {i} : bound'[j] = bound[j]
      /\ bound'[i] = IF Handle!Held(i) THEN "none" ELSE bound[i]
    BY <1>0 DEF Handle!Release
<1>2. \A j \in Handle!Interfaces \ {i} : Handle!Kept(t, j) => Handle!Kept(t, j)'
    BY <1>1 DEF Holder, Handle!Kept, Handle!Held
<1>3. ~(plugged /\ Handle!Held(i)) => Handle!Kept(t, i)'
    <2>1. ~Handle!Held(i) => Handle!Kept(t, i)
        BY <1>0, HolderBegins DEF HeldFor
    <2> QED BY <1>1, <2>1 DEF Holder, Handle!Kept, Handle!Held
<1>4. ASSUME NEW j \in Handle!Interfaces PROVE HeldFor(t, j)'
    <2>1. bound'[j] = "usbfs" => bound[j] = "usbfs"
        BY <1>1
    <2> QED BY <1>2, <2>1, HolderBegins DEF HeldFor
<1>5. UnderWay(t)'
    BY <1>0, <1>1, <1>3 DEF UnderWay, Handle!ClaimIsUnderWay, Handle!ReleaseIsUnderWay,
       Handle!ResetIsUnderWay, Handle!Held
<1> QED BY <1>4, <1>5, HolderEnds

\* The driver of the kernel is attached again, or is not.
LEMMA HolderConnects ==
    ASSUME NEW t \in Threads, Holder(t), UNCHANGED <<claimed, lost>>,
           call[t].op = "release", call[t].at = "connect", call'[t].op = "release",
           call'[t].i = call[t].i, call'[t].at = "released", call'[t].r = call[t].r,
           NEW d, bound' = [bound EXCEPT ![call[t].i] = d],
           d = bound[call[t].i] \/ (bound[call[t].i] = "none" /\ d \in {"none", "driver"})
    PROVE  Handle!ClaimedIsHeld' /\ \A w \in Threads : UnderWay(w)'
<1> DEFINE i == call[t].i
<1>0. i \in Handle!Interfaces /\ bound \in [Handle!Interfaces -> Handle!Drivers]
    BY DEF Holder, Handle!HandleTypeOK, Handle!Calls
<1>1. \A j \in Handle!Interfaces : /\ bound'[j] = "usbfs" => bound[j] = "usbfs"
                                   /\ Handle!Held(j) => Handle!Held(j)'
    BY <1>0 DEF Handle!Held
<1>2. \A j \in Handle!Interfaces : Handle!Kept(t, j) => Handle!Kept(t, j)'
    BY <1>1 DEF Holder, Handle!Kept
<1>3. \A j \in Handle!Interfaces : HeldFor(t, j)'
    BY <1>1, <1>2, HolderBegins DEF HeldFor
<1>4. UnderWay(t)'
    BY <1>0, <1>1, <1>2 DEF Holder, UnderWay, Handle!ClaimIsUnderWay, Handle!ReleaseIsUnderWay,
       Handle!ResetIsUnderWay
<1> QED BY <1>3, <1>4, HolderEnds

\* op_release_interface() has returned, and the bit is cleared if the kernel agreed.
LEMMA HolderReleased ==
    ASSUME NEW t \in Threads, Holder(t), bound' = bound,
           call[t].op = "release", call[t].at = "released", call'[t].op = "none",
           claimed' = IF call[t].r = "ok" THEN claimed \ {call[t].i} ELSE claimed,
           lost' = IF call[t].r = "ok" THEN lost \ {call[t].i} ELSE lost
    PROVE  Handle!ClaimedIsHeld' /\ \A w \in Threads : UnderWay(w)'
<1> DEFINE i == call[t].i
<1>1. IF call[t].r = "ok" THEN bound[i] # "usbfs" ELSE Handle!Kept(t, i)
    BY DEF Holder, UnderWay, Handle!ReleaseIsUnderWay
<1>2. \A j \in Handle!Interfaces :
        j # i \/ call[t].r # "ok" => (Handle!Kept(t, j) => Handle!Kept(t, j)')
    BY DEF Holder, Handle!Kept, Handle!Held
<1>3. \A j \in Handle!Interfaces : HeldFor(t, j)'
    BY <1>1, <1>2, HolderBegins DEF HeldFor
<1>4. UnderWay(t)'
    BY DEF UnderWay, Handle!ClaimIsUnderWay, Handle!ReleaseIsUnderWay, Handle!ResetIsUnderWay
<1> QED BY <1>3, <1>4, HolderEnds

\* The device is reset: nothing is claimed in the kernel any more.
LEMMA HolderResets ==
    ASSUME NEW t \in Threads, Holder(t), UNCHANGED <<claimed, lost>>,
           call[t].op = "reset", call[t].at = "locked",
           bound' \in [Handle!Interfaces -> {"none", "driver"}],
           call'[t].op = "reset", call'[t].i = call[t].i, call'[t].at = "reclaim"
    PROVE  Handle!ClaimedIsHeld' /\ \A w \in Threads : UnderWay(w)'
<1>1. call[t].i = 0
    BY DEF Holder, UnderWay, Handle!ResetIsUnderWay
<1>2. \A j \in Handle!Interfaces : j \in Nat /\ bound'[j] # "usbfs"
    BY DEF Handle!Interfaces
<1>3. \A j \in Handle!Interfaces : ~Handle!Reclaimed(t, j)'
    BY <1>1, <1>2 DEF Handle!Reclaimed
<1>4. UnderWay(t)'
    BY <1>2, <1>3 DEF UnderWay, Handle!ClaimIsUnderWay, Handle!ReleaseIsUnderWay,
       Handle!ResetIsUnderWay, Handle!Claiming
<1>5. \A j \in Handle!Interfaces : HeldFor(t, j)'
    BY <1>2 DEF HeldFor
<1> QED BY <1>4, <1>5, HolderEnds

LEMMA HolderFails ==
    ASSUME NEW t \in Threads, Holder(t), UNCHANGED <<claimed, bound>>,
           call[t].op = "reset", call[t].at = "locked", call'[t].op = "none",
           lost' = lost \cup {i \in claimed : ~Handle!Held(i)}
    PROVE  Handle!ClaimedIsHeld' /\ \A w \in Threads : UnderWay(w)'
<1>1. \A i \in Handle!Interfaces : i \in claimed => Handle!Kept(t, i)'
    BY DEF Handle!Kept, Handle!Held
<1>2. \A i \in Handle!Interfaces : HeldFor(t, i)'
    BY <1>1, HolderBegins DEF HeldFor
<1>3. UnderWay(t)'
    BY DEF UnderWay, Handle!ClaimIsUnderWay, Handle!ReleaseIsUnderWay, Handle!ResetIsUnderWay
<1> QED BY <1>2, <1>3, HolderEnds

\* A reset is done with an interface: it is claimed again, or is no longer claimed.
LEMMA HolderNext ==
    ASSUME Handle!HandleAssumption, NEW t \in Threads, Holder(t), bound' = bound,
           call[t].op = "reset", call[t].at \in {"reclaim", "claimed"},
           claimed' \in {claimed, claimed \ {call[t].i}}, lost' \in {lost, lost \ {call[t].i}},
           IF call[t].i \in claimed' THEN Handle!Kept(t, call[t].i) /\ lost' = lost
           ELSE bound[call[t].i] # "usbfs",
           NEW r \in Handle!Answers, Handle!ResetNext(t, r)
    PROVE  Handle!ClaimedIsHeld' /\ \A w \in Threads : UnderWay(w)'
<1>. PICK i \in Handle!Interfaces : i = call[t].i
    BY DEF Holder, Handle!HandleTypeOK, Handle!Calls
<1>0. Handle!HandleTypeOK
    BY DEF Holder
<1>1. \A j \in Handle!Interfaces :
        j # i \/ lost' = lost => (Handle!Kept(t, j) => Handle!Kept(t, j)')
    BY DEF Holder, Handle!Kept, Handle!Held
<1>2. \A j \in Handle!Interfaces \ {i} :
          IF j < i THEN j \in claimed' => Handle!Kept(t, j)' ELSE bound[j] # "usbfs"
    <2>1. \A j \in Handle!Interfaces \ {i} : Handle!Reclaimed(t, j) <=> j < i
        BY DEF Handle!Reclaimed
    <2> QED BY <1>1, <2>1 DEF Holder, UnderWay, Handle!ResetIsUnderWay, Handle!Claiming
<1>3. i \in claimed' => Handle!Kept(t, i)'
    BY <1>0, <1>1
<1>4. \A j \in Handle!Interfaces : bound'[j] = "usbfs" => j \in claimed'
    BY HolderBegins DEF HeldFor
<1>5. CASE i = LastInterface
    <2>1. call'[t].op = "none"
        BY <1>0, <1>5, ResetNextTypes
    <2>2. \A j \in Handle!Interfaces : j \in claimed' => Handle!Kept(t, j)'
        <3>1. \A j \in Handle!Interfaces \ {i} : j < i
            BY <1>5 DEF Handle!Interfaces, Handle!HandleAssumption
        <3> QED BY <1>2, <1>3, <3>1
    <2>3. \A j \in Handle!Interfaces : HeldFor(t, j)'
        BY <1>4, <2>2 DEF HeldFor
    <2>4. UnderWay(t)'
        BY <2>1 DEF UnderWay, Handle!ClaimIsUnderWay, Handle!ReleaseIsUnderWay,
           Handle!ResetIsUnderWay
    <2> QED BY <2>3, <2>4, HolderEnds
<1>6. CASE i # LastInterface
    <2>1. call'[t].op = "reset" /\ call'[t].i = i + 1 /\ call'[t].at = "reclaim"
        BY <1>0, <1>6, ResetNextTypes
    <2>2. \A j \in Handle!Interfaces : HeldFor(t, j)'
        BY <1>4, <2>1 DEF HeldFor
    <2>3. ASSUME NEW j \in Handle!Interfaces
          PROVE  IF Handle!Reclaimed(t, j)' THEN j \in claimed' => Handle!Kept(t, j)' ELSE bound'[j] # "usbfs"
        <3>1. Handle!Reclaimed(t, j)' <=> j < i + 1
            BY <2>1 DEF Handle!Reclaimed
        <3>2. i \in Nat /\ j \in Nat
            BY <1>0 DEF Handle!Interfaces
        <3>3. CASE j = i
            BY <1>3, <3>1, <3>2, <3>3
        <3>4. CASE j # i
            BY <1>2, <3>1, <3>2, <3>4
        <3> QED BY <3>3, <3>4
    <2>4. UnderWay(t)'
        BY <2>1, <2>3 DEF UnderWay, Handle!ClaimIsUnderWay, Handle!ReleaseIsUnderWay,
           Handle!ResetIsUnderWay, Handle!Claiming
    <2> QED BY <2>2, <2>4, HolderEnds
<1> QED BY <1>5, <1>6

\* Nothing binds to a device that is gone.
LEMMA HandleUnbound ==
    ASSUME Handle!HandleAssumption, Handle!HandleTypeOK, Handle!UnpluggedIsUnbound,
           Handle!HandleNext
    PROVE  Handle!UnpluggedIsUnbound'
<1> SUFFICES ASSUME ~plugged' PROVE \A i \in Handle!Interfaces : bound'[i] = "none"
    BY DEF Handle!UnpluggedIsUnbound
<1>1. CASE Handle!Unplug
    BY <1>1 DEF Handle!Unplug
<1>2. CASE ~Handle!Unplug
    <2>0. /\ \A t \in Threads : call[t].i \in Handle!Interfaces
          /\ bound \in [Handle!Interfaces -> Handle!Drivers]
        BY DEF Handle!HandleTypeOK, Handle!Calls
    <2>1. ~plugged
        BY <1>2, CallsBegin
           DEF Handle!HandleNext, Handle!Step, Handle!CallBegins, Handle!kernel, Handle!Begins,
               Handle!SetConfigurationBegins, Handle!ResetDeviceBegins,
               Handle!ClaimInterfaceBegins, Handle!ReleaseInterfaceBegins,
               Handle!SetAltSettingBegins, Handle!ClearHaltBegins,
               Handle!DetachKernelDriverBegins, Handle!AttachKernelDriverBegins,
               Handle!SetAutoDetachKernelDriver, Handle!Disconnected, Handle!OtherBinds,
               Handle!Lock, Handle!ClaimAgain, Handle!ClaimInterface, Handle!PlainClaim,
               Handle!DetachClaim, Handle!DetachClaimFallback, Handle!GetDriver,
               Handle!DisconnectDriver, Handle!Claimed, Handle!ReleaseUnclaimed,
               Handle!ReleaseInterface, Handle!Released, Handle!AttachKernelDriver,
               Handle!SetInterfaceAltSetting, Handle!InterfaceIoctl, Handle!ResetReleases,
               Handle!ResetDevice, Handle!ResetFails, Handle!ResetReclaims,
               Handle!ResetReclaimed, Handle!SetConfiguration
    <2>2. \A i \in Handle!Interfaces : bound[i] = "none"
        BY <2>1 DEF Handle!UnpluggedIsUnbound
    <2>3. ASSUME NEW t \in Threads, Handle!Step(t)
          PROVE  \A i \in Handle!Interfaces : bound'[i] = "none"
        <3>1. CASE Handle!PlainClaim(t) \/ Handle!DetachClaim(t)
            <4>1. PICK r \in {"ok", "busy", "noDevice"} :
                      /\ Handle!Claim(call[t].i, r) \/ Handle!DisconnectClaim(call[t].i, r)
                      /\ Handle!Bind(call[t].i, r)
                BY <3>1 DEF Handle!PlainClaim, Handle!DetachClaim
            <4>2. r = "noDevice"
                BY <2>1, <4>1 DEF Handle!Claim, Handle!DisconnectClaim
            <4> QED BY <2>0, <2>2, <4>1, <4>2 DEF Handle!Bind
        <3>2. CASE Handle!DisconnectDriver(t)
            BY <2>0, <2>2, <3>2 DEF Handle!DisconnectDriver
        <3>3. CASE Handle!ReleaseInterface(t) \/ Handle!ResetReleases(t)
            BY <2>0, <2>2, <3>3 DEF Handle!ReleaseInterface, Handle!ResetReleases, Handle!Release,
               Handle!Held
        <3>4. CASE Handle!AttachKernelDriver(t)
            BY <2>0, <2>1, <2>2, <3>4 DEF Handle!AttachKernelDriver
        <3>5. CASE Handle!InterfaceIoctl(t)
            BY <2>0, <2>1, <2>2, <3>5 DEF Handle!InterfaceIoctl, Handle!TakeImplicitly
        <3>6. CASE Handle!SetConfiguration(t)
            BY <2>1, <2>2, <3>6 DEF Handle!SetConfiguration
        <3>7. CASE bound' = bound
            BY <2>2, <3>7
        <3> QED BY <2>1, <2>3, <3>1, <3>2, <3>3, <3>4, <3>5, <3>6, <3>7
            DEF Handle!Step, Handle!Lock, Handle!ClaimAgain, Handle!ClaimInterface,
                Handle!DetachClaimFallback, Handle!GetDriver, Handle!Claimed, Handle!ReleaseUnclaimed,
                Handle!Released, Handle!SetInterfaceAltSetting, Handle!ResetDevice, Handle!ResetFails,
                Handle!ResetReclaims, Handle!ResetReclaimed
    <2>4. CASE bound' = bound
        BY <2>2, <2>4
    <2> QED BY <1>2, <2>1, <2>3, <2>4, CallsBegin
        DEF Handle!HandleNext, Handle!Begins, Handle!SetAutoDetachKernelDriver,
            Handle!Disconnected, Handle!OtherBinds
<1> QED BY <1>1, <1>2

\* A step of a call, by the thread that holds the lock or outside of it.
LEMMA HandleCalls ==
    ASSUME Handle!HandleAssumption, Handle!HandleInv, NEW t \in Threads, Handle!Step(t)
    PROVE  Handle!ClaimedIsHeld' /\ \A w \in Threads : UnderWay(w)'
<1> DEFINE Goal == Handle!ClaimedIsHeld' /\ \A w \in Threads : UnderWay(w)'
<1>0. /\ Handle!HandleTypeOK /\ Handle!CallsAreInPlace /\ Handle!LockIsHeldInside
      /\ Handle!ClaimedIsHeld /\ \A u \in Threads : UnderWay(u)
    BY DEF Handle!HandleInv, UnderWay
<1>1. /\ call[t].at \in Handle!Places(call[t].op) /\ call[t].op \in Handle!Ops \cup {"none"}
      /\ call[t].i \in Handle!Interfaces /\ call[t].r \in Handle!Answers
      /\ bound \in [Handle!Interfaces -> Handle!Drivers] /\ t # NoThread
      /\ lock = t <=> /\ call[t].op \in {"claim", "release", "reset", "alt"}
                      /\ call[t].at \notin {"lock", "release", "ioctl"}
    BY <1>0 DEF Handle!HandleTypeOK, Handle!Calls, Handle!CallsAreInPlace, Handle!HandleAssumption,
       Handle!LockIsHeldInside
<1>2. \A u \in Threads \ {t} : call'[u] = call[u]
    BY <1>0, PlacesStep
<1>3. plugged' = plugged
    BY DEF Handle!Step, Handle!kernel, Handle!Lock, Handle!ClaimAgain, Handle!ClaimInterface,
       Handle!PlainClaim, Handle!DetachClaim, Handle!DetachClaimFallback, Handle!GetDriver,
       Handle!DisconnectDriver, Handle!Claimed, Handle!ReleaseUnclaimed, Handle!ReleaseInterface,
       Handle!Released, Handle!AttachKernelDriver, Handle!SetInterfaceAltSetting,
       Handle!InterfaceIoctl, Handle!ResetReleases, Handle!ResetDevice, Handle!ResetFails,
       Handle!ResetReclaims, Handle!ResetReclaimed, Handle!SetConfiguration
<1>4. lock = t => Holder(t)
    BY <1>0, <1>2, <1>3 DEF Holder
<1> USE DEF Handle!At, Handle!Places, Handle!Claiming, Handle!Ats, Handle!Answers, Handle!ours
<1>5. ASSUME lock # t, claimed' = claimed, lost \subseteq lost',
             \A i \in Handle!Interfaces : bound'[i] = "usbfs" => bound[i] = "usbfs",
             \A i \in Handle!Interfaces :
                 Handle!Held(i) => Handle!Held(i)' \/ i \in lost' \/ call'[t].op = "reset",
             QuietCall(call'[t]), call[t].op = "reset" => call'[t].op = "reset"
      PROVE  Goal
    <2>1. \A i \in Handle!Interfaces : Handle!Held(i) =>
              \/ Handle!Held(i)' \/ i \in lost'
              \/ \E u \in Threads : lock # u /\ call'[u].op = "reset"
        BY <1>5
    <2>2. \A u \in Threads :
              \/ call'[u] = call[u]
              \/ lock # u /\ QuietCall(call'[u]) /\ (call[u].op = "reset" => call'[u].op = "reset")
        BY <1>2, <1>5
    <2> QED BY <1>0, <1>3, <1>5, <2>1, <2>2, HandleQuiet
<1>6. CASE Handle!Lock(t)
    <2>1. /\ call'[t].at = "locked" /\ call'[t].op = call[t].op /\ call'[t].i = call[t].i
          /\ call'[t].r = call[t].r
        BY <1>0, <1>6, GotoTypes DEF Handle!Lock
    <2>2. lock # t /\ call[t].at = "lock" /\ UNCHANGED <<claimed, lost, bound>>
        BY <1>1, <1>6 DEF Handle!Lock
    <2>3. QuietCall(call'[t])
        BY <1>0, <2>1, <2>2, QuietOutside DEF QuietCall, UnderWay
    <2> QED BY <1>5, <2>1, <2>2, <2>3 DEF Handle!Held
<1>7. CASE Handle!ClaimAgain(t) \/ Handle!ReleaseUnclaimed(t)
    <2>1. call'[t].op = "none"
        BY <1>0, <1>7, ReturnTypes DEF Handle!ClaimAgain, Handle!ReleaseUnclaimed
    <2> QED BY <1>1, <1>4, <1>7, <2>1, HolderReturns DEF Handle!ClaimAgain, Handle!ReleaseUnclaimed
<1>8. CASE Handle!SetInterfaceAltSetting(t)
    <2>1. call'[t].op \in {"none", "alt"}
        BY <1>0, <1>8, ReturnTypes, GotoTypes DEF Handle!SetInterfaceAltSetting
    <2> QED BY <1>1, <1>4, <1>8, <2>1, HolderReturns DEF Handle!SetInterfaceAltSetting
<1>9. CASE Handle!ClaimInterface(t)
    <2>1. /\ call'[t].op = call[t].op /\ call'[t].i = call[t].i
          /\ call'[t].at \in {"detachClaim", "plainClaim"}
        BY <1>0, <1>9, GotoTypes DEF Handle!ClaimInterface
    <2> QED BY <1>1, <1>4, <1>9, <2>1, HolderGoes DEF Handle!ClaimInterface
<1>10. CASE Handle!PlainClaim(t) \/ Handle!DetachClaim(t)
    <2>1. PICK r \in {"ok", "busy", "noDevice"} :
                 Handle!Bind(call[t].i, r) /\ Handle!GotoWith(t, "claimed", r)
        BY <1>10 DEF Handle!PlainClaim, Handle!DetachClaim
    <2>2. /\ call'[t].op = call[t].op /\ call'[t].i = call[t].i
          /\ call'[t].at = "claimed" /\ call'[t].r = r
        BY <1>0, <2>1, GotoWithTypes
    <2>3. /\ call[t].at \in {"plainClaim", "detachClaim"} /\ claimed' = claimed
        BY <1>10 DEF Handle!PlainClaim, Handle!DetachClaim
    <2>4. call[t].op \in {"claim", "reset"}
        BY <1>1, <2>3 DEF Handle!Ops
    <2> QED BY <1>1, <1>4, <2>1, <2>2, <2>3, <2>4, HolderBinds
<1>11. ASSUME call[t].at \in Handle!Claiming, call[t].op # "detach"
       PROVE  /\ call[t].op \in {"claim", "reset"} /\ lock = t
              /\ call[t].op = "claim" => call[t].i \notin claimed
              /\ call[t].op = "reset" => call[t].i \in claimed
    <2>1. call[t].op \in {"claim", "reset"}
        BY <1>1, <1>11 DEF Handle!Ops
    <2>2. lock = t
        BY <1>1, <1>11, <2>1
    <2> QED BY <1>0, <1>11, <2>1, <2>2 DEF UnderWay, Handle!ClaimIsUnderWay, Handle!ResetIsUnderWay
<1>12. CASE Handle!DetachClaimFallback(t)
    <2>1. call'[t].op = call[t].op /\ call'[t].i = call[t].i /\ call'[t].at = "getDriver"
        BY <1>0, <1>12, GotoTypes DEF Handle!DetachClaimFallback
    <2>2. call[t].at = "detachClaim" /\ UNCHANGED <<claimed, bound, lost>>
        BY <1>12 DEF Handle!DetachClaimFallback
    <2>3. call[t].op # "detach"
        BY <1>1, <2>2
    <2> QED BY <1>4, <1>11, <2>1, <2>2, <2>3, HolderGoes
<1>13. CASE Handle!GetDriver(t) /\ call[t].op # "detach"
    <2>1. /\ call'[t].op = call[t].op /\ call'[t].i = call[t].i
          /\ call'[t].at \in {"plainClaim", "disconnect"}
        BY <1>0, <1>13, GotoTypes DEF Handle!GetDriver, Handle!Detached
    <2>2. call[t].at = "getDriver" /\ UNCHANGED <<claimed, bound, lost>>
        BY <1>13 DEF Handle!GetDriver
    <2> QED BY <1>4, <1>11, <1>13, <2>1, <2>2, HolderGoes
<1>14. CASE Handle!DisconnectDriver(t) /\ call[t].op # "detach"
    <2>1. /\ call'[t].op = call[t].op /\ call'[t].i = call[t].i
          /\ \/ call'[t].at = "plainClaim"
             \/ call'[t].at = "claimed" /\ call'[t].r = "noDevice"
        BY <1>0, <1>14, GotoTypes, GotoWithTypes DEF Handle!DisconnectDriver, Handle!Detached
    <2>2. /\ call[t].at = "disconnect" /\ claimed' = claimed
          /\ bound' = [bound EXCEPT ![call[t].i] = "none"]
          /\ lost' = IF Handle!Held(call[t].i) THEN lost \cup {call[t].i} ELSE lost
        BY <1>14 DEF Handle!DisconnectDriver
    <2> QED BY <1>4, <1>11, <1>14, <2>1, <2>2, HolderDisconnects
<1>15. CASE (Handle!GetDriver(t) \/ Handle!DisconnectDriver(t)) /\ call[t].op = "detach"
    <2>1. call'[t].op \in {"none", "detach"}
        BY <1>0, <1>15, GotoTypes, ReturnTypes
           DEF Handle!GetDriver, Handle!DisconnectDriver, Handle!Detached
    <2>2. claimed' = claimed /\ lost \subseteq lost'
        BY <1>15 DEF Handle!GetDriver, Handle!DisconnectDriver
    <2>3. \A i \in Handle!Interfaces : /\ bound'[i] = "usbfs" => bound[i] = "usbfs"
                                       /\ Handle!Held(i) => Handle!Held(i)' \/ i \in lost'
        BY <1>1, <1>15 DEF Handle!GetDriver, Handle!DisconnectDriver, Handle!Held
    <2>4. lock # t
        BY <1>1, <1>15
    <2> QED BY <1>5, <1>15, <2>1, <2>2, <2>3, <2>4 DEF QuietCall
<1>16. CASE Handle!Claimed(t)
    <2>1. call'[t].op = "none"
        BY <1>0, <1>16, ReturnTypes DEF Handle!Claimed
    <2> QED BY <1>1, <1>4, <1>16, <2>1, HolderClaimed DEF Handle!Claimed
<1>17. CASE Handle!ReleaseInterface(t)
    <2>1. /\ call'[t].op = call[t].op /\ call'[t].i = call[t].i
          /\ call'[t].at \in {"connect", "released"}
          /\ IF plugged /\ Handle!Held(call[t].i) THEN call'[t].r = call[t].r
             ELSE call'[t].r = "other" /\ call'[t].at = "released"
        BY <1>0, <1>17, GotoTypes, GotoWithTypes DEF Handle!ReleaseInterface
    <2> QED BY <1>1, <1>4, <1>17, <2>1, HolderReleases DEF Handle!ReleaseInterface
<1>18. CASE Handle!Released(t)
    <2>1. call'[t].op = "none"
        BY <1>0, <1>18, ReturnTypes DEF Handle!Released
    <2> QED BY <1>1, <1>4, <1>18, <2>1, HolderReleased DEF Handle!Released
<1>19. CASE Handle!AttachKernelDriver(t)
    <2>1. PICK d : /\ bound' = [bound EXCEPT ![call[t].i] = d]
                   /\ d = bound[call[t].i] \/ (bound[call[t].i] = "none" /\ d \in {"none", "driver"})
        BY <1>19 DEF Handle!AttachKernelDriver
    <2>2. UNCHANGED <<claimed, lost>>
        BY <1>19 DEF Handle!AttachKernelDriver
    <2>3. CASE call[t].op = "attach"
        <3>1. call'[t].op = "none"
            BY <1>0, <1>19, <2>3, ReturnTypes DEF Handle!AttachKernelDriver
        <3>2. \A i \in Handle!Interfaces : /\ bound'[i] = "usbfs" => bound[i] = "usbfs"
                                           /\ Handle!Held(i) => Handle!Held(i)'
            BY <1>1, <2>1 DEF Handle!Held
        <3>3. lock # t
            BY <1>1, <2>3
        <3> QED BY <1>5, <2>2, <2>3, <3>1, <3>2, <3>3 DEF QuietCall
    <2>4. CASE call[t].op # "attach"
        <3>1. call[t].at = "connect"
            BY <1>19, <2>4 DEF Handle!AttachKernelDriver
        <3>2. call[t].op = "release"
            BY <1>1, <3>1 DEF Handle!Ops
        <3>3. /\ call'[t].op = call[t].op /\ call'[t].i = call[t].i /\ call'[t].r = call[t].r
              /\ call'[t].at = "released"
            BY <1>0, <1>19, <2>4, GotoTypes DEF Handle!AttachKernelDriver
        <3>4. Holder(t)
            BY <1>1, <1>4, <3>1, <3>2
        <3> QED BY <2>1, <2>2, <3>1, <3>2, <3>3, <3>4, HolderConnects
    <2> QED BY <2>3, <2>4
<1>20. CASE Handle!InterfaceIoctl(t)
    <2>1. call'[t].op = "none"
        BY <1>0, <1>20, ReturnTypes DEF Handle!InterfaceIoctl
    <2>2. \A i \in Handle!Interfaces : /\ bound'[i] = "usbfs" => bound[i] = "usbfs"
                                       /\ Handle!Held(i) => Handle!Held(i)'
        BY <1>1, <1>20 DEF Handle!InterfaceIoctl, Handle!TakeImplicitly, Handle!Held
    <2>3. UNCHANGED <<claimed, lost>> /\ lock # t /\ call[t].op # "reset"
        BY <1>1, <1>20 DEF Handle!InterfaceIoctl
    <2> QED BY <1>5, <2>1, <2>2, <2>3 DEF QuietCall
<1>21. CASE Handle!ResetReleases(t)
    <2>1. /\ call'[t].op = "reset"
          /\ (call'[t].at = "release" \/ (call'[t].at = "lock" /\ call'[t].i = 0))
        BY <1>0, <1>21 DEF Handle!ResetReleases, Handle!HandleTypeOK, Handle!Call
    <2>2. \A i \in Handle!Interfaces : bound'[i] = "usbfs" => bound[i] = "usbfs"
        BY <1>1, <1>21 DEF Handle!ResetReleases, Handle!Release
    <2>3. UNCHANGED <<claimed, lost>> /\ lock # t
        BY <1>1, <1>21 DEF Handle!ResetReleases
    <2>4. QuietCall(call'[t])
        BY <2>1 DEF QuietCall
    <2> QED BY <1>5, <2>1, <2>2, <2>3, <2>4
<1>22. CASE Handle!ResetDevice(t)
    <2>1. call'[t].op = call[t].op /\ call'[t].i = call[t].i /\ call'[t].at = "reclaim"
        BY <1>0, <1>22, GotoTypes DEF Handle!ResetDevice
    <2> QED BY <1>1, <1>4, <1>22, <2>1, HolderResets DEF Handle!ResetDevice
<1>23. CASE Handle!ResetFails(t)
    <2>1. call'[t].op = "none"
        BY <1>0, <1>23, ReturnTypes DEF Handle!ResetFails
    <2> QED BY <1>1, <1>4, <1>23, <2>1, HolderFails DEF Handle!ResetFails
<1>24. CASE Handle!ResetReclaims(t)
    <2>1. call[t].op = "reset" /\ call[t].at = "reclaim" /\ UNCHANGED <<claimed, bound, lost>>
        BY <1>24 DEF Handle!ResetReclaims
    <2>2. Holder(t)
        BY <1>1, <1>4, <2>1
    <2>3. CASE call[t].i \in claimed
        <3>1. call'[t].op = call[t].op /\ call'[t].i = call[t].i /\ call'[t].at = "detachClaim"
            BY <1>0, <1>24, <2>3, GotoTypes DEF Handle!ResetReclaims
        <3> QED BY <2>1, <2>2, <2>3, <3>1, HolderGoes
    <2>4. CASE call[t].i \notin claimed
        <3>1. bound[call[t].i] # "usbfs"
            BY <1>1, <2>1, <2>2, <2>4, HolderBegins DEF HeldFor
        <3> QED BY <1>1, <1>24, <2>1, <2>2, <2>4, <3>1, HolderNext DEF Handle!ResetReclaims
    <2> QED BY <2>3, <2>4
<1>25. CASE Handle!ResetReclaimed(t)
    <2>1. /\ call[t].op = "reset" /\ call[t].at = "claimed" /\ bound' = bound
          /\ claimed' = IF call[t].r = "ok" THEN claimed ELSE claimed \ {call[t].i}
          /\ lost' = IF call[t].r = "ok" THEN lost ELSE lost \ {call[t].i}
          /\ Handle!ResetNext(t, IF call[t].r = "ok" THEN "ok" ELSE "notFound")
        BY <1>25 DEF Handle!ResetReclaimed
    <2>2. Holder(t)
        BY <1>1, <1>4, <2>1
    <2>3. call[t].i \in Nat
        BY <1>1 DEF Handle!Interfaces
    <2>4. Handle!Reclaimed(t, call[t].i) <=> call[t].r = "ok"
        BY <2>1, <2>3 DEF Handle!Reclaimed
    <2>5. IF call[t].r = "ok" THEN Handle!Kept(t, call[t].i) ELSE bound[call[t].i] # "usbfs"
        BY <1>0, <1>1, <2>1, <2>4 DEF UnderWay, Handle!ResetIsUnderWay
    <2>6. call[t].i \in claimed
        BY <1>11, <2>1
    <2> QED BY <2>1, <2>2, <2>5, <2>6, HolderNext
<1>26. CASE Handle!SetConfiguration(t)
    <2>1. call'[t].op = "none"
        BY <1>0, <1>26, ReturnTypes DEF Handle!SetConfiguration
    <2>2. \A i \in Handle!Interfaces : /\ bound'[i] = "usbfs" => bound[i] = "usbfs"
                                       /\ Handle!Held(i) => Handle!Held(i)'
        BY <1>26 DEF Handle!SetConfiguration, Handle!Held
    <2>3. UNCHANGED <<claimed, lost>> /\ lock # t /\ call[t].op # "reset"
        BY <1>1, <1>26 DEF Handle!SetConfiguration
    <2> QED BY <1>5, <2>1, <2>2, <2>3 DEF QuietCall
<1> QED
    BY <1>6, <1>7, <1>8, <1>9, <1>10, <1>12, <1>13, <1>14, <1>15, <1>16, <1>17, <1>18, <1>19,
       <1>20, <1>21, <1>22, <1>23, <1>24, <1>25, <1>26 DEF Handle!Step

LEMMA HandleStep ==
    ASSUME Handle!HandleAssumption, Handle!HandleInv, Handle!HandleNext
    PROVE  Handle!HandleInv'
<1>0. /\ Handle!HandleTypeOK /\ Handle!CallsAreInPlace /\ Handle!LockIsHeldInside
      /\ Handle!ClaimedIsHeld /\ \A u \in Threads : UnderWay(u)
    BY DEF Handle!HandleInv, UnderWay
<1>1. /\ Handle!HandleTypeOK' /\ Handle!CallsAreInPlace' /\ Handle!LockIsHeldInside'
      /\ Handle!UnpluggedIsUnbound'
    BY HandleTypes, HandleLocks, HandleUnbound DEF Handle!HandleInv
<1> DEFINE Goal == Handle!ClaimedIsHeld' /\ \A w \in Threads : UnderWay(w)'
<1>2. ASSUME NEW t \in Threads, NEW op \in Handle!Ops, NEW i \in Handle!Interfaces,
             NEW at \in {"lock", "ioctl", "release", "getDriver"}, at \in Handle!Places(op),
             at = "getDriver" => op = "detach", op = "reset" => at = "release",
             Handle!Begins(t, op, i, at)
      PROVE  Goal
    <2>1. at \in Handle!Ats
        BY DEF Handle!Ats
    <2>2. /\ call'[t].op = op /\ call'[t].at = at /\ call'[t].r = "ok"
          /\ \A u \in Threads \ {t} : call'[u] = call[u]
        BY <1>0, <1>2, <2>1, BeginsTypes
    <2>3. UNCHANGED <<claimed, plugged, bound, lost>> /\ call[t].op = "none"
        BY <1>2 DEF Handle!Begins, Handle!kernel, Handle!ours, Handle!Idle, Handle!Call
    <2>4. lock # t
        BY <1>0, <2>3 DEF Handle!LockIsHeldInside
    <2>5. QuietCall(call'[t])
        <3>1. op \in {"claim", "release"} => at = "lock"
            BY <1>2 DEF Handle!Places, Handle!Claiming
        <3> QED BY <1>2, <2>2, <3>1 DEF QuietCall
    <2>6. \A u \in Threads :
              \/ call'[u] = call[u]
              \/ lock # u /\ QuietCall(call'[u]) /\ (call[u].op = "reset" => call'[u].op = "reset")
        BY <2>2, <2>3, <2>4, <2>5
    <2> QED BY <1>0, <2>3, <2>6, HandleQuiet DEF Handle!Held
<1>3. ASSUME Handle!SetAutoDetachKernelDriver \/ Handle!Disconnected PROVE Goal
    <2>1. UNCHANGED <<claimed, plugged, bound, lost, call>>
        BY <1>3 DEF Handle!SetAutoDetachKernelDriver, Handle!Disconnected, Handle!kernel
    <2>2. \A i \in Handle!Interfaces : Handle!Held(i) => Handle!Held(i)'
        BY <2>1 DEF Handle!Held
    <2> QED BY <1>0, <2>1, <2>2, HandleQuiet
<1>4. ASSUME NEW i \in Handle!Interfaces, Handle!OtherBinds(i) PROVE Goal
    <2>1. UNCHANGED <<claimed, plugged, lost, call>>
        BY <1>4 DEF Handle!OtherBinds, Handle!kernel, Handle!ours
    <2>2. \A j \in Handle!Interfaces : /\ bound'[j] = "usbfs" => bound[j] = "usbfs"
                                       /\ Handle!Held(j) => Handle!Held(j)'
        BY <1>0, <1>4 DEF Handle!OtherBinds, Handle!Held, Handle!HandleTypeOK
    <2> QED BY <1>0, <2>1, <2>2, HandleQuiet
<1>5. ASSUME NEW t \in Threads,
             \/ Handle!SetConfigurationBegins(t) \/ Handle!ResetDeviceBegins(t)
             \/ \E i \in Handle!Interfaces : Handle!CallBegins(t, i)
      PROVE  Goal
    <2>1. PICK op \in Handle!Ops, i \in Handle!Interfaces,
               at \in {"lock", "ioctl", "release", "getDriver"} :
               /\ at \in Handle!Places(op) /\ (at = "getDriver" => op = "detach")
               /\ (op = "reset" => at = "release") /\ Handle!Begins(t, op, i, at)
        BY <1>5, CallsBegin
    <2> QED BY <1>2, <2>1
<1>6. ASSUME Handle!Unplug PROVE Goal
    BY <1>0, <1>6, HandleUnplugged
<1>7. ASSUME NEW t \in Threads, Handle!Step(t) PROVE Goal
    BY <1>7, HandleCalls
<1>8. Goal
    <2> HIDE DEF Goal
    <2> QED BY <1>3, <1>4, <1>5, <1>6, <1>7 DEF Handle!HandleNext
<1> QED BY <1>1, <1>8 DEF Handle!HandleInv, UnderWay

LEMMA HandleInitial ==
    ASSUME Handle!HandleAssumption, Handle!HandleInit
    PROVE  Handle!HandleInv
<1>1. Handle!Idle \in Handle!Calls
    BY DEF Handle!HandleAssumption, Handle!Idle, Handle!Call, Handle!Calls, Handle!Ats,
           Handle!Answers, Handle!Interfaces
<1>2. \A t \in Threads : call[t].op = "none" /\ call[t].at = "idle" /\ lock # t
    BY DEF Handle!HandleInit, Handle!Idle, Handle!Call, Handle!HandleAssumption
<1>3. \A i \in Handle!Interfaces : bound[i] # "usbfs"
    BY DEF Handle!HandleInit
<1>4. Handle!HandleTypeOK
    BY <1>1 DEF Handle!HandleInit, Handle!HandleTypeOK, Handle!Drivers
<1>5. Handle!LockIsHeldInside /\ Handle!CallsAreInPlace
    BY <1>2 DEF Handle!LockIsHeldInside, Handle!CallsAreInPlace, Handle!Places
<1>6. Handle!ClaimedIsHeld /\ Handle!UnpluggedIsUnbound
    BY <1>3 DEF Handle!HandleInit, Handle!ClaimedIsHeld, Handle!UnpluggedIsUnbound
<1>7. \A t \in Threads : UnderWay(t)
    BY <1>2 DEF UnderWay, Handle!ClaimIsUnderWay, Handle!ReleaseIsUnderWay, Handle!ResetIsUnderWay
<1> QED BY <1>4, <1>5, <1>6, <1>7 DEF Handle!HandleInv, UnderWay

LEMMA HandleStutters ==
    ASSUME Handle!HandleInv, UNCHANGED Handle!handleVars
    PROVE  Handle!HandleInv'
BY DEF Handle!HandleInv, Handle!handleVars, Handle!HandleTypeOK, Handle!LockIsHeldInside,
       Handle!ClaimedIsHeld, Handle!Held, Handle!At, Handle!CallsAreInPlace, Handle!ClaimIsUnderWay,
       Handle!ReleaseIsUnderWay, Handle!ResetIsUnderWay, Handle!Kept, Handle!Reclaimed,
       Handle!UnpluggedIsUnbound

-----------------------------------------------------------------------------
(* NcmBinding                                                              *)

\* One that enters comes after those that are inside ...
LEMMA BindingEnters ==
    ASSUME Binding!BindingInv, NEW t \in Threads, Binding!ReadPrevious(t)
    PROVE  Binding!BindingInv'
<1> USE DEF Binding!BindingInv, Binding!ReadPrevious, Binding!Goto
<1>1. Binding!BindingTypeOK'
    BY DEF Binding!BindingTypeOK, Binding!Inside
<1>2. /\ t \notin Binding!Inside
      /\ Binding!Inside' = Binding!Inside \cup {t}
      /\ Binding!Blocks' = Binding!Blocks
      /\ \A p \in entered : p[1] # t /\ p[2] # t
      /\ \A u, v \in Binding!Inside : <<u, v>> \in entered' <=> <<u, v>> \in entered
      /\ \A u \in Binding!Inside : <<u, t>> \in entered' /\ <<t, u>> \notin entered'
      /\ <<t, t>> \notin entered'
    BY DEF Binding!BindingTypeOK, Binding!Inside, Binding!Blocks
<1>3. Binding!EnteredInOrder'
  <2>1. /\ \A u, v \in Binding!Inside : u = v <=> <<u, v>> \notin entered /\ <<v, u>> \notin entered
        /\ \A u, v \in Binding!Inside : <<u, v>> \in entered => <<v, u>> \notin entered
        /\ \A u, v, w \in Binding!Inside :
             <<u, v>> \in entered /\ <<v, w>> \in entered => <<u, w>> \in entered
    BY DEF Binding!EnteredInOrder
  <2> HIDE DEF Binding!BindingInv, Binding!ReadPrevious
  <2>2. \A u, v \in Binding!Inside' :
          u = v <=> <<u, v>> \notin entered' /\ <<v, u>> \notin entered'
    BY <1>2, <2>1
  <2>3. \A u, v \in Binding!Inside' : <<u, v>> \in entered' => <<v, u>> \notin entered'
    BY <1>2, <2>1
  <2>4. ASSUME NEW u \in Binding!Inside', NEW v \in Binding!Inside', NEW w \in Binding!Inside',
               <<u, v>> \in entered', <<v, w>> \in entered'
        PROVE  <<u, w>> \in entered'
    <3>1. u \in Binding!Inside /\ v \in Binding!Inside
      BY <1>2, <2>4
    <3>2. CASE w = t
      BY <1>2, <3>1, <3>2
    <3>3. CASE w # t
      <4>1. w \in Binding!Inside /\ <<u, v>> \in entered /\ <<v, w>> \in entered
        BY <1>2, <2>4, <3>1, <3>3
      <4> QED BY <1>2, <2>1, <3>1, <4>1
    <3> QED BY <3>2, <3>3
  <2> QED BY <2>2, <2>3, <2>4 DEF Binding!EnteredInOrder
<1>4. ASSUME ~crossed' PROVE Binding!NestedBlocksRestore'
  <2>1. Binding!Blocks \subseteq Binding!Inside
    BY DEF Binding!Blocks, Binding!Inside
  <2>2. /\ \A u \in Binding!Inside : Binding!Below(u)' = Binding!Below(u) /\ previous'[u] = previous[u]
        /\ Binding!Below(t)' = Binding!Blocks /\ previous'[t] = processNetwork
    BY <1>2, <2>1 DEF Binding!Below, Binding!BindingTypeOK
  <2>3. \A n : \A S \in SUBSET Binding!Inside :
          Binding!IsBoundFor(n, S) => Binding!IsBoundFor(n, S)'
    BY <1>2 DEF Binding!IsBoundFor, Binding!IsLast
  <2>4. \A u \in Binding!Inside : Binding!Below(u) \subseteq Binding!Inside
    BY <2>1 DEF Binding!Below
  <2> QED BY <1>2, <1>4, <2>1, <2>2, <2>3, <2>4 DEF Binding!NestedBlocksRestore
<1> QED BY <1>1, <1>3, <1>4 DEF Binding!NestedBlocksRestore

\* ... and one that leaves leaves the order of the others as it is.
LEMMA BindingLeaves ==
    ASSUME Binding!BindingInv, NEW t \in Binding!Inside, Binding!Goto(t, "idle"), Binding!Leaves(t),
           UNCHANGED <<glasses, networks, network, previous>>,
           processNetwork' \in 0..networks, crossed' \in BOOLEAN
    PROVE  /\ Binding!BindingTypeOK' /\ Binding!EnteredInOrder'
           /\ Binding!Inside' = Binding!Inside \ {t} /\ Binding!Blocks' = Binding!Blocks \ {t}
           /\ \A u \in Binding!Inside' : Binding!Below(u)' = Binding!Below(u) \ {t}
           /\ \A n : \A S \in SUBSET Binding!Inside' :
                Binding!IsBoundFor(n, S)' <=> Binding!IsBoundFor(n, S)
<1> USE DEF Binding!BindingInv, Binding!Goto, Binding!Leaves
<1>1. /\ Binding!Inside' = Binding!Inside \ {t} /\ Binding!Blocks' = Binding!Blocks \ {t}
      /\ entered' \subseteq Binding!Inside' \X Binding!Inside'
      /\ \A u, v \in Binding!Inside' : <<u, v>> \in entered' <=> <<u, v>> \in entered
    BY DEF Binding!BindingTypeOK, Binding!Inside, Binding!Blocks
<1>2. Binding!BindingTypeOK'
    BY <1>1 DEF Binding!BindingTypeOK
<1>3. Binding!EnteredInOrder'
  <2>1. /\ \A u, v \in Binding!Inside' :
             u = v <=> <<u, v>> \notin entered' /\ <<v, u>> \notin entered'
        /\ \A u, v \in Binding!Inside' : <<u, v>> \in entered' => <<v, u>> \notin entered'
    BY <1>1 DEF Binding!EnteredInOrder
  <2>2. \A u, v, w \in Binding!Inside' :
          <<u, v>> \in entered' /\ <<v, w>> \in entered' => <<u, w>> \in entered'
    BY <1>1 DEF Binding!EnteredInOrder
  <2> QED BY <2>1, <2>2 DEF Binding!EnteredInOrder
<1>4. Binding!Blocks \subseteq Binding!Inside
    BY DEF Binding!Blocks, Binding!Inside
<1>5. \A u \in Binding!Inside' : Binding!Below(u)' = Binding!Below(u) \ {t}
    BY <1>1, <1>4 DEF Binding!Below
<1>6. \A n : \A S \in SUBSET Binding!Inside' :
        Binding!IsBoundFor(n, S)' <=> Binding!IsBoundFor(n, S)
    BY <1>1 DEF Binding!IsBoundFor, Binding!IsLast
<1> QED BY <1>1, <1>2, <1>3, <1>5, <1>6

\* The last thread inside restores what it has read for the blocks around its own.
LEMMA BindingRestores ==
    ASSUME Binding!BindingInv, NEW t \in Threads, Binding!Restore(t)
    PROVE  Binding!BindingInv'
<1> USE DEF Binding!BindingInv
<1>1. /\ t \in Binding!Inside /\ processNetwork' \in 0..networks /\ crossed' \in BOOLEAN
      /\ processNetwork' = IF previous[t] \in {0, glasses} THEN previous[t] ELSE processNetwork
      /\ glasses' = glasses
    BY DEF Binding!Restore, Binding!BindingTypeOK, Binding!Inside, Binding!Crosses
<1>2. /\ Binding!BindingTypeOK' /\ Binding!EnteredInOrder'
      /\ Binding!Inside' = Binding!Inside \ {t} /\ Binding!Blocks' = Binding!Blocks \ {t}
      /\ \A u \in Binding!Inside' : Binding!Below(u)' = Binding!Below(u) \ {t}
      /\ \A n : \A S \in SUBSET Binding!Inside' :
           Binding!IsBoundFor(n, S)' <=> Binding!IsBoundFor(n, S)
    BY <1>1, BindingLeaves DEF Binding!Restore
<1>3. ASSUME ~crossed' PROVE Binding!NestedBlocksRestore'
  <2>1. /\ ~crossed /\ \A u \in Binding!Inside : <<t, u>> \notin entered
        /\ previous' = previous /\ network' = network
    BY <1>3 DEF Binding!Restore, Binding!Crosses
  <2>2. /\ Binding!Blocks \subseteq Binding!Inside
        /\ \A u \in Binding!Inside : u # t => <<u, t>> \in entered
    BY <1>1, <2>1 DEF Binding!Blocks, Binding!Inside, Binding!EnteredInOrder
  <2>3. /\ Binding!Below(t) = Binding!Blocks \ {t}
        /\ \A u \in Binding!Inside : t \notin Binding!Below(u)
    BY <1>1, <2>1, <2>2 DEF Binding!Below, Binding!EnteredInOrder
  <2>4. /\ Binding!IsBoundFor(previous[t], Binding!Blocks \ {t})
        /\ Binding!IsBoundFor(processNetwork, Binding!Blocks)
    BY <1>1, <2>1, <2>3 DEF Binding!NestedBlocksRestore
  <2>5. Binding!IsBoundFor(processNetwork', Binding!Blocks \ {t})
    BY <1>1, <2>4 DEF Binding!IsBoundFor, Binding!IsLast
  <2>6. Binding!IsBoundFor(processNetwork, Binding!Blocks)'
    <3>1. Binding!Blocks \ {t} \in SUBSET Binding!Inside'
      BY <1>2, <2>2
    <3> QED BY <1>2, <2>5, <3>1
  <2>7. ASSUME NEW u \in Binding!Inside' PROVE Binding!IsBoundFor(previous[u], Binding!Below(u))'
    <3>1. /\ Binding!Below(u) = Binding!Below(u)'
          /\ u \in Binding!Inside
          /\ Binding!Below(u) \subseteq Binding!Inside'
      BY <1>2, <2>2, <2>3, <2>7 DEF Binding!Below
    <3>2. Binding!IsBoundFor(previous[u], Binding!Below(u))
      BY <2>1, <3>1 DEF Binding!NestedBlocksRestore
    <3> QED BY <1>2, <2>1, <3>1, <3>2
  <2> QED BY <2>6, <2>7 DEF Binding!NestedBlocksRestore
<1> QED BY <1>2, <1>3 DEF Binding!NestedBlocksRestore

\* Every step of a thread, and of the network, keeps the order and what it was for.
LEMMA BindingStep ==
    ASSUME Binding!BindingInv, Binding!BindingNext
    PROVE  Binding!BindingInv'
<1> USE DEF Binding!BindingInv
<1>1. CASE Binding!Plug \/ Binding!Unplug
  <2> USE DEF Binding!Plug, Binding!Unplug
  <2>1. /\ Binding!Inside' = Binding!Inside
        /\ Binding!Blocks' = Binding!Blocks
        /\ \A u \in Threads : Binding!Below(u)' = Binding!Below(u)
    BY <1>1 DEF Binding!Inside, Binding!Blocks, Binding!Below
  <2>2. Binding!BindingTypeOK'
    BY <1>1, <2>1 DEF Binding!BindingTypeOK
  <2>3. Binding!EnteredInOrder'
    BY <1>1, <2>1 DEF Binding!EnteredInOrder
  <2>4. \A u \in Binding!Inside :
          network'[u] = network[u] /\ (network[u] # glasses => network[u] # glasses')
    BY <1>1 DEF Binding!BindingTypeOK, Binding!Inside
  <2>5. \A n : \A S \in SUBSET Binding!Inside :
          Binding!IsBoundFor(n, S) => Binding!IsBoundFor(n, S)'
    BY <1>1, <2>4 DEF Binding!IsBoundFor, Binding!IsLast
  <2>6. /\ Binding!Blocks \subseteq Binding!Inside
        /\ \A u \in Threads : Binding!Below(u) \subseteq Binding!Inside
        /\ Binding!Inside \subseteq Threads
    BY DEF Binding!Blocks, Binding!Inside, Binding!Below
  <2>7. Binding!NestedBlocksRestore'
    BY <1>1, <2>1, <2>5, <2>6 DEF Binding!NestedBlocksRestore
  <2> QED BY <2>2, <2>3, <2>7
<1>2. ASSUME NEW t \in Threads, Binding!FindNetwork(t) PROVE Binding!BindingInv'
  <2> USE <1>2 DEF Binding!FindNetwork, Binding!Goto
  <2>1. /\ Binding!Inside' = Binding!Inside
        /\ Binding!Blocks' = Binding!Blocks
        /\ \A u \in Threads : Binding!Below(u)' = Binding!Below(u)
    BY DEF Binding!Inside, Binding!Blocks, Binding!Below, Binding!BindingTypeOK
  <2>2. Binding!BindingTypeOK'
    BY <2>1 DEF Binding!BindingTypeOK
  <2>3. Binding!EnteredInOrder'
    BY <2>1 DEF Binding!EnteredInOrder
  <2>4. \A u \in Binding!Inside : network'[u] = network[u]
    BY DEF Binding!BindingTypeOK, Binding!Inside
  <2>5. \A n : \A S \in SUBSET Binding!Inside :
          Binding!IsBoundFor(n, S) => Binding!IsBoundFor(n, S)'
    BY <2>4 DEF Binding!IsBoundFor, Binding!IsLast
  <2>6. /\ Binding!Blocks \subseteq Binding!Inside
        /\ \A u \in Threads : Binding!Below(u) \subseteq Binding!Inside
        /\ Binding!Inside \subseteq Threads
    BY DEF Binding!Blocks, Binding!Inside, Binding!Below
  <2>7. Binding!NestedBlocksRestore'
    BY <2>1, <2>5, <2>6 DEF Binding!NestedBlocksRestore
  <2> QED BY <2>2, <2>3, <2>7
<1>3. ASSUME NEW t \in Threads, Binding!Bind(t) PROVE Binding!BindingInv'
  <2> USE <1>3 DEF Binding!Bind, Binding!Goto, Binding!Crosses
  <2>1. /\ Binding!Inside' = Binding!Inside
        /\ Binding!Blocks' = Binding!Blocks \cup {t}
        /\ t \in Binding!Inside
    BY DEF Binding!Inside, Binding!Blocks, Binding!BindingTypeOK
  <2>2. Binding!BindingTypeOK'
    BY <2>1 DEF Binding!BindingTypeOK
  <2>3. Binding!EnteredInOrder'
    BY <2>1 DEF Binding!EnteredInOrder
  <2>4. ASSUME ~crossed' PROVE Binding!NestedBlocksRestore'
    <3>1. ~crossed /\ \A u \in Binding!Inside : <<t, u>> \notin entered
      BY <2>4
    <3>2. /\ Binding!Blocks \subseteq Binding!Inside
          /\ \A u \in Binding!Inside : u # t => <<u, t>> \in entered
      BY <2>1, <3>1 DEF Binding!Blocks, Binding!Inside, Binding!EnteredInOrder
    <3>3. \A u \in Binding!Inside : Binding!Below(u)' = Binding!Below(u)
      BY <2>1, <3>1 DEF Binding!Below
    <3>4. Binding!IsBoundFor(processNetwork, Binding!Blocks)'
      BY <2>1, <3>1, <3>2 DEF Binding!IsBoundFor, Binding!IsLast
    <3>5. \A u \in Binding!Inside : Binding!IsBoundFor(previous[u], Binding!Below(u))'
      BY <3>1, <3>3 DEF Binding!NestedBlocksRestore, Binding!IsBoundFor, Binding!IsLast
    <3> QED BY <2>1, <3>4, <3>5 DEF Binding!NestedBlocksRestore
  <2> QED BY <2>2, <2>3, <2>4 DEF Binding!NestedBlocksRestore
<1>4. ASSUME NEW t \in Threads, Binding!BindFails(t) PROVE Binding!BindingInv'
  <2>1. /\ t \in Binding!Inside
        /\ t \notin Binding!Blocks
        /\ processNetwork' \in 0..networks
        /\ crossed' \in BOOLEAN
        /\ processNetwork' = processNetwork /\ crossed' = crossed /\ previous' = previous
    BY <1>4 DEF Binding!BindFails, Binding!BindingTypeOK, Binding!Inside, Binding!Blocks
  <2>2. /\ Binding!BindingTypeOK' /\ Binding!EnteredInOrder'
        /\ Binding!Inside' = Binding!Inside \ {t} /\ Binding!Blocks' = Binding!Blocks \ {t}
        /\ \A u \in Binding!Inside' : Binding!Below(u)' = Binding!Below(u) \ {t}
        /\ \A n : \A S \in SUBSET Binding!Inside' :
             Binding!IsBoundFor(n, S)' <=> Binding!IsBoundFor(n, S)
    BY <1>4, <2>1, BindingLeaves DEF Binding!BindFails
  <2>3. /\ Binding!Blocks' = Binding!Blocks /\ Binding!Blocks \subseteq Binding!Inside'
        /\ \A u \in Binding!Inside' :
             Binding!Below(u)' = Binding!Below(u) /\ Binding!Below(u) \subseteq Binding!Inside'
    BY <2>1, <2>2 DEF Binding!Blocks, Binding!Inside, Binding!Below
  <2> HIDE DEF Binding!BindingInv
  <2>4. Binding!NestedBlocksRestore'
    BY <2>1, <2>2, <2>3 DEF Binding!NestedBlocksRestore, Binding!BindingInv
  <2> QED BY <2>2, <2>4 DEF Binding!BindingInv
<1> QED BY <1>1, <1>2, <1>3, <1>4, BindingEnters, BindingRestores DEF Binding!BindingNext

\* Nobody is inside at first, and the process is bound to nothing.
LEMMA BindingInitial == Binding!BindingInit => Binding!BindingInv
<1> SUFFICES ASSUME Binding!BindingInit PROVE Binding!BindingInv
    OBVIOUS
<1>1. Binding!Inside = {} /\ Binding!Blocks = {}
    BY DEF Binding!BindingInit, Binding!Inside, Binding!Blocks
<1>2. Binding!NestedBlocksRestore /\ Binding!EnteredInOrder
    BY <1>1
       DEF Binding!BindingInit, Binding!NestedBlocksRestore, Binding!IsBoundFor, Binding!IsLast,
           Binding!EnteredInOrder
<1>3. Binding!BindingTypeOK
  <2>1. entered \subseteq Binding!Inside \X Binding!Inside
    BY DEF Binding!BindingInit
  <2>2. networks \in Nat /\ processNetwork \in 0..networks /\ glasses \in 0..networks
    BY DEF Binding!BindingInit
  <2>3. /\ block \in [Threads -> {"idle", "found", "bind", "block"}]
        /\ network \in [Threads -> 0..networks] /\ previous \in [Threads -> 0..networks]
        /\ \A t \in Threads : block[t] # "idle" => network[t] # 0
    BY DEF Binding!BindingInit
  <2> QED BY <2>1, <2>2, <2>3 DEF Binding!BindingInit, Binding!BindingTypeOK
<1> QED BY <1>2, <1>3 DEF Binding!BindingInv

\* What the others do leaves the binding alone.
LEMMA BindingStutters == Binding!BindingInv /\ UNCHANGED Binding!bindingVars => Binding!BindingInv'
<1> SUFFICES ASSUME Binding!BindingInv, UNCHANGED Binding!bindingVars PROVE Binding!BindingInv'
    OBVIOUS
<1>1. /\ Binding!Inside' = Binding!Inside
      /\ Binding!Blocks' = Binding!Blocks
      /\ \A t : Binding!Below(t)' = Binding!Below(t)
    BY DEF Binding!bindingVars, Binding!Inside, Binding!Blocks, Binding!Below
<1>2. Binding!BindingTypeOK' /\ Binding!EnteredInOrder'
    BY <1>1
       DEF Binding!bindingVars, Binding!BindingInv, Binding!BindingTypeOK,
           Binding!EnteredInOrder
<1>3. Binding!NestedBlocksRestore'
    BY <1>1
       DEF Binding!bindingVars, Binding!BindingInv, Binding!NestedBlocksRestore,
           Binding!IsBoundFor, Binding!IsLast
<1> QED BY <1>2, <1>3 DEF Binding!BindingInv

-----------------------------------------------------------------------------
(* XrealOneDp                                                              *)

\* The native calls and their commands.
LEMMA DpCommands ==
    /\ Dp!NativePhases = {"setEdid", "setInput", "readEdid", "readInput", "writeInput",
                          "rereadEdid", "finalEdid", "finalInput"}
    /\ Dp!CommandOf["setEdid"] = "setEdid" /\ Dp!CommandOf["setInput"] = "setInput"
    /\ Dp!CommandOf["writeInput"] = "setInput"
    /\ Dp!CommandOf["readEdid"] = "getEdid" /\ Dp!CommandOf["readInput"] = "getInput"
    /\ Dp!CommandOf["rereadEdid"] = "getEdid"
    /\ Dp!CommandOf["finalEdid"] = "getEdid" /\ Dp!CommandOf["finalInput"] = "getInput"
BY DEF Dp!NativePhases, Dp!CommandOf

\* One request more, at the end of those the glasses have ...
LEMMA DpSent ==
    ASSUME NEW S, NEW s \in Seq(S), NEW x \in S
    PROVE  /\ Append(s, x) \in Seq(S) /\ Append(s, x) # <<>>
           /\ DOMAIN Append(s, x) = 1..(Len(s) + 1) /\ DOMAIN s = 1..Len(s) /\ Len(s) \in Nat
           /\ Append(s, x)[Len(s) + 1] = x
           /\ \A i \in 1..Len(s) : Append(s, x)[i] = s[i]
OBVIOUS

\* ... and one less, the first.
LEMMA DpServed ==
    ASSUME NEW S, NEW s \in Seq(S), s # <<>>
    PROVE  /\ Head(s) \in S /\ Head(s) = s[1] /\ Tail(s) \in Seq(S)
           /\ Len(s) \in Nat \ {0} /\ DOMAIN s = 1..Len(s) /\ DOMAIN Tail(s) = 1..(Len(s) - 1)
           /\ \A i \in 1..(Len(s) - 1) : Tail(s)[i] = s[i + 1]
           /\ Len(s) = 1 <=> Tail(s) = <<>>
<1>1. Len(s) \in Nat \ {0} /\ Head(s) = s[1] /\ Head(s) \in S
    OBVIOUS
<1>2. /\ Tail(s) \in Seq(S) /\ Len(Tail(s)) = Len(s) - 1
      /\ \A i \in 1..(Len(s) - 1) : Tail(s)[i] = s[i + 1]
    BY <1>1
<1>3. DOMAIN s = 1..Len(s) /\ DOMAIN Tail(s) = 1..(Len(s) - 1)
    BY <1>2
<1>4. Len(s) = 1 <=> Tail(s) = <<>>
  <2>1. Len(Tail(s)) = 0 <=> Tail(s) = <<>>
    <3> DEFINE u == Tail(s)
    <3>1. u \in Seq(S)
      BY <1>2
    <3> HIDE DEF u
    <3>2. Len(u) = 0 <=> u = <<>>
      BY <3>1
    <3> QED BY <3>2 DEF u
  <2>2. Len(Tail(s)) = 0 <=> Len(s) = 1
    BY <1>1, <1>2
  <2> QED BY <2>1, <2>2
<1> QED BY <1>1, <1>2, <1>3, <1>4

\* Requests are numbered by their connections.
LEMMA DpRequests ==
    ASSUME Dp!TypeOK
    PROVE  /\ Len(inbox) \in Nat /\ DOMAIN inbox = 1..Len(inbox) /\ connection \in Nat
           /\ \A i \in 1..Len(inbox) : /\ inbox[i].connection \in Nat
                                       /\ inbox[i].command \in Dp!Command
                                       /\ inbox[i].value \in Dp!Value
<1>1. inbox \in Seq(Dp!Request) /\ connection \in Nat
    BY DEF Dp!TypeOK
<1>2. /\ Len(inbox) \in Nat
      /\ DOMAIN inbox = 1..Len(inbox)
      /\ \A i \in 1..Len(inbox) : inbox[i] \in Dp!Request
    BY <1>1
<1> QED BY <1>1, <1>2 DEF Dp!Request

\* The values are no other answers, and not null.
LEMMA DpValues ==
    ASSUME Dp!DpAssumption
    PROVE  /\ "none" \notin Dp!Value /\ "ok" \notin Dp!Value /\ "refused" \notin Dp!Value
           /\ Null \notin Dp!Value /\ Other \in Dp!Value
BY DEF Dp!DpAssumption, Dp!Value

\* A native call that begins has sent nothing yet.
LEMMA DpStarts ==
    ASSUME Dp!DpAssumption, NEW next \in Dp!NativePhases, Dp!StartNative(next)
    PROVE  /\ phase' = next /\ step' = "connect" /\ ~connected' /\ connected' \in BOOLEAN
           /\ answer' = "none" /\ connection' = connection /\ attempt' \in 1..SendAttempts
<1>1. 1 \in 1..SendAttempts /\ SendAttempts \in 1..SendAttempts
    BY DEF Dp!DpAssumption
<1>2. attempt' = SendAttempts \/ attempt' = 1
    BY DEF Dp!StartNative
<1> QED BY <1>1, <1>2 DEF Dp!StartNative

\* What is left when a set command is over: it is repeated on a new connection, or
\* the next one follows, or the session goes on to look.
LEMMA DpSetOver ==
    ASSUME Dp!DpAssumption, Dp!TypeOK, Dp!Setting, NEW done \in BOOLEAN,
           Dp!Written(done) \/ (~done /\ Dp!SetFailed)
    PROVE  /\ phase \in {"setEdid", "setInput", "writeInput"}
           /\ UNCHANGED <<lastEdid, lastInput, writeCount, rounds>> /\ writeConfirmed' \in BOOLEAN
           /\ attempt' \in 1..SendAttempts
           /\ \/ /\ phase' = phase /\ step' = "connect" /\ connected' = FALSE /\ answer' = "none"
                 /\ connection' = connection /\ ~done
              \/ /\ phase = "setEdid" /\ phase' = "setInput" /\ done /\ step' = "connect"
                 /\ connected' = FALSE /\ answer' = "none" /\ connection' = connection
              \/ /\ phase' = "loop" \/ (phase = "writeInput" /\ phase' = "reread")
                 /\ UNCHANGED <<connection, connected, answer, step>>
                 /\ phase = "setEdid" => ~done
<1> USE DpCommands DEF Dp!TypeOK, Dp!verifyVars, Dp!netVars
<1>1. phase \in {"setEdid", "setInput", "writeInput"}
    BY DEF Dp!Setting, Dp!Setters
<1>2. CASE Dp!Written(done)
  <2>1. CASE phase = "setEdid" /\ done
    <3>1. Dp!StartNative("setInput") /\ UNCHANGED Dp!verifyVars
      BY <1>2, <2>1 DEF Dp!Written
    <3> QED BY <2>1, <3>1, DpStarts
  <2>2. CASE (phase = "setEdid" /\ ~done) \/ phase = "setInput"
    BY <1>2, <2>2 DEF Dp!Written
  <2>3. CASE phase = "writeInput"
    BY <1>2, <2>3 DEF Dp!Written
  <2> QED BY <1>1, <2>1, <2>2, <2>3
<1>3. CASE ~done /\ Dp!SetFailed /\ attempt > 1
    BY <1>1, <1>3 DEF Dp!SetFailed, Dp!DpAssumption
<1>4. CASE ~done /\ Dp!SetFailed /\ ~(attempt > 1)
    BY <1>2, <1>4 DEF Dp!SetFailed
<1> QED BY <1>2, <1>3, <1>4

\* What is left when a get command is over.
LEMMA DpGetOver ==
    ASSUME Dp!DpAssumption, Dp!TypeOK, Dp!Getting, NEW v, Dp!ReadBack(v)
    PROVE  /\ attempt' \in 1..SendAttempts /\ connection' = connection
           /\ \/ connected' = FALSE /\ answer' = "none" /\ step' = "connect"
              \/ UNCHANGED <<connected, answer, step>>
           /\ \/ /\ phase = "readEdid" /\ phase' = "readInput" /\ lastEdid' = v /\ lastInput' = lastInput
                 /\ connected' = FALSE /\ answer' = "none" /\ step' = "connect"
              \/ phase = "readInput" /\ phase' = "decide" /\ lastInput' = v /\ lastEdid' = lastEdid
              \/ /\ phase = "rereadEdid" /\ phase' \in {"verdict", "loop"}
                 /\ lastEdid' = v /\ lastInput' = lastInput
              \/ /\ phase = "finalEdid" /\ lastEdid' = v /\ lastInput' = lastInput
                 /\ \/ phase' = "verdict"
                    \/ /\ phase' = "finalInput" /\ connected' = FALSE /\ answer' = "none"
                       /\ step' = "connect"
              \/ phase = "finalInput" /\ phase' = "verdict" /\ lastInput' = v /\ lastEdid' = lastEdid
<1> USE DpCommands DEF Dp!TypeOK, Dp!netVars
<1>1. phase \in {"readEdid", "readInput", "rereadEdid", "finalEdid", "finalInput"}
    BY DEF Dp!Getting, Dp!Setters
<1>2. CASE phase = "readEdid"
  <2>1. Dp!StartNative("readInput") /\ lastEdid' = v /\ lastInput' = lastInput
    BY <1>2 DEF Dp!ReadBack
  <2> QED BY <1>2, <2>1, DpStarts
<1>3. CASE phase \in {"readInput", "rereadEdid", "finalInput"}
    BY <1>3 DEF Dp!ReadBack
<1>4. CASE phase = "finalEdid"
  <2>1. Dp!FinalReads(v) /\ lastEdid' = v /\ lastInput' = lastInput
    BY <1>4 DEF Dp!ReadBack
  <2>2. CASE Dp!StartNative("finalInput")
    BY <1>4, <2>1, <2>2, DpStarts
  <2>3. CASE phase' = "verdict" /\ UNCHANGED <<Dp!netVars, step, attempt>>
    BY <1>4, <2>1, <2>3
  <2> QED BY <1>4, <2>1, <2>2, <2>3 DEF Dp!FinalReads
<1> QED BY <1>1, <1>2, <1>3, <1>4

\* The glasses carry out the requests in their order ...
LEMMA DpServeStep ==
    ASSUME Dp!DpAssumption, Dp!DpInv, Dp!Serve, UNCHANGED model
    PROVE  Dp!DpInv'
<1> USE DEF Dp!DpInv, Dp!Serve, Dp!verifyVars, Dp!callVars
<1> DEFINE r == Head(inbox)
<1>1. /\ r \in Dp!Request /\ r = inbox[1] /\ Tail(inbox) \in Seq(Dp!Request)
      /\ Len(inbox) \in Nat \ {0} /\ DOMAIN inbox = 1..Len(inbox)
      /\ DOMAIN Tail(inbox) = 1..(Len(inbox) - 1)
      /\ \A i \in 1..(Len(inbox) - 1) : Tail(inbox)[i] = inbox[i + 1]
      /\ Len(inbox) = 1 <=> Tail(inbox) = <<>>
    BY DpServed DEF Dp!TypeOK
<1>2. /\ r.command \in Dp!Command /\ r.value \in Dp!Value /\ r.connection \in Nat
      /\ Dp!Apply(r) /\ Dp!Reply(r, Dp!AnswerTo(r))
    BY <1>1 DEF Dp!Request
<1>3. \A j \in 1..Len(inbox) : r.connection <= inbox[j].connection
  <2> SUFFICES ASSUME NEW j \in 1..Len(inbox) PROVE r.connection <= inbox[j].connection
    OBVIOUS
  <2>1. CASE j = 1
    BY <1>1, <1>2, <2>1
  <2>2. CASE 1 < j
    BY <1>1, <1>2, <2>2, DpRequests DEF Dp!RequestsInOrder
  <2> QED BY <1>1, <2>1, <2>2
<1> HIDE DEF r
<1>4. Dp!AnswerTo(r) \in Dp!Value \cup {"ok"}
    BY <1>2 DEF Dp!AnswerTo, Dp!TypeOK
<1>5. Dp!TypeOK'
    BY <1>1, <1>2, <1>4 DEF Dp!TypeOK, Dp!Apply, Dp!Reply, Dp!Answers, Dp!WriteAttempts
<1>6. Dp!RequestsInOrder'
    BY <1>1 DEF Dp!RequestsInOrder
<1>7. ASSUME connected, r.connection = connection
      PROVE  /\ Tail(inbox) = <<>> /\ step = "await"
             /\ phase \in Dp!NativePhases => r.command = Dp!CommandOf[phase] /\ r.value = wanted
  <2>1. \A j \in 1..Len(inbox) : 1 < j => connection < inbox[j].connection
    BY <1>1, <1>7 DEF Dp!RequestsInOrder
  <2>2. \A j \in 1..Len(inbox) : inbox[j].connection <= connection
    BY <1>1 DEF Dp!RequestsInOrder
  <2>3. Len(inbox) = 1
    <3>1. CASE Len(inbox) > 1
      BY <1>1, <2>1, <2>2, <3>1, DpRequests
    <3> QED BY <1>1, <3>1
  <2> QED BY <1>1, <1>7, <2>3 DEF Dp!RequestsInOrder
<1>8. Dp!AnswerIsLast'
    BY <1>2, <1>7 DEF Dp!AnswerIsLast, Dp!Awaiting, Dp!Reply
<1>9. Dp!AnswersAreTrue'
  <2>1. CASE connected /\ r.connection = connection
    <3> SUFFICES ASSUME Dp!Awaiting
                 PROVE  /\ answer' = "ok" => Dp!Setting /\ Dp!Target(Dp!CommandOf[phase])' = wanted
                        /\ answer' \in Dp!Value => Dp!Getting /\ answer' = Dp!Target(Dp!CommandOf[phase])'
      BY DEF Dp!AnswersAreTrue, Dp!Awaiting, Dp!Setting, Dp!Getting
    <3>1. r.command = Dp!CommandOf[phase] /\ r.value = wanted /\ answer' = Dp!AnswerTo(r)
      BY <1>2, <1>7, <2>1 DEF Dp!Awaiting, Dp!Reply
    <3>2. CASE r.command \in Dp!Setters
      BY <1>2, <3>1, <3>2, DpValues
         DEF Dp!AnswerTo, Dp!Apply, Dp!Target, Dp!Setting, Dp!Setters, Dp!Awaiting
    <3>3. CASE r.command \in {"getEdid", "getInput"}
      BY <1>2, <3>1, <3>3, DpValues
         DEF Dp!AnswerTo, Dp!Apply, Dp!Target, Dp!Getting, Dp!Setters, Dp!Awaiting, Dp!TypeOK
    <3> QED BY <1>2, <3>2, <3>3 DEF Dp!Command
  <2>2. CASE ~(connected /\ r.connection = connection)
    <3>1. answer' = answer /\ (Dp!Awaiting => answer = "none")
      BY <1>2, <2>2 DEF Dp!AnswerIsLast, Dp!Awaiting, Dp!Reply
    <3> QED BY <3>1, DpValues DEF Dp!AnswersAreTrue, Dp!Awaiting
  <2> QED BY <2>1, <2>2
<1>10. \A cs : Dp!NonePending(cs) => r.command \notin cs /\ Dp!NonePending(cs)'
    BY <1>1 DEF Dp!NonePending
<1>11. Dp!ReadsAreApplied'
    BY <1>2, <1>10 DEF Dp!ReadsAreApplied, Dp!Apply, Dp!RequireReadback
<1>12. Dp!FaultlessIsOnItsWay'
  <2> SUFFICES ASSUME faults = 0 PROVE Dp!FaultlessIsOnItsWay'
    BY DEF Dp!FaultlessIsOnItsWay
  <2>1. Dp!Awaiting /\ connected /\ r.connection = connection
    BY <1>1 DEF Dp!FaultlessIsOnItsWay, Dp!Awaiting
  <2>2. r.command = Dp!CommandOf[phase] /\ r.value = wanted /\ answer' # "refused"
    BY <1>2, <1>4, <1>7, <2>1, DpValues DEF Dp!Awaiting, Dp!Reply
  <2>3. Tail(inbox) = <<>>
    BY <1>7, <2>1
  <2>4. edid = wanted => edid' = wanted
    BY <1>2, <2>2 DEF Dp!Apply
  <2>5. input = wanted => input' = wanted
    BY <1>2, <2>2 DEF Dp!Apply
  <2> QED BY <2>1, <2>2, <2>3, <2>4, <2>5 DEF Dp!FaultlessIsOnItsWay, Dp!Awaiting
<1> QED BY <1>5, <1>6, <1>8, <1>9, <1>11, <1>12

\* ... refuse them, which is a fault ...
LEMMA DpRefuseStep ==
    ASSUME Dp!DpAssumption, Dp!DpInv, Dp!Refuse, UNCHANGED model
    PROVE  Dp!DpInv'
<1> USE DEF Dp!DpInv, Dp!Refuse, Dp!verifyVars, Dp!callVars
<1>1. /\ Head(inbox) \in Dp!Request /\ Head(inbox) = inbox[1] /\ Tail(inbox) \in Seq(Dp!Request)
      /\ Len(inbox) \in Nat \ {0} /\ DOMAIN inbox = 1..Len(inbox)
      /\ DOMAIN Tail(inbox) = 1..(Len(inbox) - 1)
      /\ \A i \in 1..(Len(inbox) - 1) : Tail(inbox)[i] = inbox[i + 1]
      /\ Len(inbox) = 1 <=> Tail(inbox) = <<>>
    BY DpServed DEF Dp!TypeOK
<1>2. answer' \in {answer, "refused"} /\ faults' \in 1..MaxFaults
    BY DEF Dp!Reply, Dp!TypeOK, Dp!DpAssumption
<1>3. Dp!TypeOK'
    BY <1>1, <1>2 DEF Dp!TypeOK, Dp!Answers, Dp!WriteAttempts
<1>4. Dp!RequestsInOrder'
    BY <1>1 DEF Dp!RequestsInOrder
<1>5. connected /\ Head(inbox).connection = connection => Tail(inbox) = <<>> /\ step = "await"
  <2> SUFFICES ASSUME connected, inbox[1].connection = connection, 1 < Len(inbox) PROVE FALSE
    BY <1>1 DEF Dp!RequestsInOrder
  <2>1. inbox[1].connection < inbox[2].connection /\ inbox[2].connection <= connection
    BY <1>1 DEF Dp!RequestsInOrder
  <2>2. inbox[1].connection \in Nat /\ inbox[2].connection \in Nat
    BY <1>1, DpRequests
  <2> QED BY <2>1, <2>2, DpRequests
<1>6. Dp!AnswerIsLast'
    BY <1>5 DEF Dp!AnswerIsLast, Dp!Awaiting, Dp!Reply
<1>7. "refused" \notin Dp!Value
    BY DEF Dp!DpAssumption, Dp!Value
<1>8. Dp!AnswersAreTrue'
    BY <1>2, <1>7 DEF Dp!AnswersAreTrue, Dp!Awaiting, Dp!Target, Dp!Setting, Dp!Getting
<1>9. \A cs : Dp!NonePending(cs) => Dp!NonePending(cs)'
    BY <1>1 DEF Dp!NonePending
<1>10. Dp!ReadsAreApplied'
    BY <1>9 DEF Dp!ReadsAreApplied, Dp!RequireReadback
<1>11. Dp!FaultlessIsOnItsWay'
    BY <1>2 DEF Dp!FaultlessIsOnItsWay
<1> QED BY <1>3, <1>4, <1>6, <1>8, <1>10, <1>11

\* ... or lose them.
LEMMA DpReenumerateStep ==
    ASSUME Dp!DpAssumption, Dp!DpInv, Dp!Reenumerate, UNCHANGED model
    PROVE  Dp!DpInv'
<1> USE DEF Dp!DpInv, Dp!Reenumerate, Dp!verifyVars, Dp!callVars
<1>1. faults' \in 1..MaxFaults
    BY DEF Dp!TypeOK, Dp!DpAssumption
<1>2. Dp!TypeOK'
  <2>1. inbox' \in Seq(Dp!Request)
    <3>1. inbox' = <<>>
      OBVIOUS
    <3> QED BY <3>1
  <2>2. /\ connected' = FALSE
        /\ UNCHANGED <<model, edid, input, connection, answer, phase, step, attempt, wanted,
                    lastEdid, lastInput, writeCount, writeConfirmed, rounds, calls, switched>>
    OBVIOUS
  <2>3. Dp!TypeOK
    OBVIOUS
  <2>4. faults' \in 0..MaxFaults
    BY <1>1 DEF Dp!DpAssumption
  <2>5. connected' \in BOOLEAN
    BY <2>2
  <2> HIDE DEF Dp!DpInv, Dp!Reenumerate, Dp!verifyVars, Dp!callVars
  <2> QED BY <2>1, <2>2, <2>3, <2>4, <2>5 DEF Dp!TypeOK, Dp!WriteAttempts
<1>3. Dp!RequestsInOrder' /\ \A cs : Dp!NonePending(cs)'
    BY DEF Dp!RequestsInOrder, Dp!NonePending
<1>4. Dp!AnswerIsLast' /\ Dp!AnswersAreTrue'
    BY DEF Dp!AnswerIsLast, Dp!AnswersAreTrue, Dp!Awaiting, Dp!Target, Dp!Setting, Dp!Getting
<1>5. Dp!ReadsAreApplied'
    BY <1>3 DEF Dp!ReadsAreApplied, Dp!RequireReadback
<1>6. Dp!FaultlessIsOnItsWay'
    BY <1>1 DEF Dp!FaultlessIsOnItsWay
<1> QED BY <1>2, <1>3, <1>4, <1>5, <1>6

\* A connection of its own for each request ...
LEMMA DpConnectStep ==
    ASSUME Dp!DpAssumption, Dp!DpInv, Dp!Connect, UNCHANGED model
    PROVE  Dp!DpInv'
<1> USE DEF Dp!DpInv, Dp!Connect, Dp!glassesVars, Dp!verifyVars, Dp!callVars
<1>1. Dp!TypeOK'
    BY DEF Dp!TypeOK, Dp!Answers, Dp!WriteAttempts
<1>2. Dp!RequestsInOrder'
    BY DpRequests DEF Dp!RequestsInOrder
<1>3. Dp!AnswerIsLast' /\ Dp!AnswersAreTrue'
    BY DEF Dp!AnswerIsLast, Dp!AnswersAreTrue, Dp!Awaiting
<1>4. \A cs : Dp!NonePending(cs) <=> Dp!NonePending(cs)'
    BY DEF Dp!NonePending
<1>5. Dp!ReadsAreApplied'
    BY <1>4 DEF Dp!ReadsAreApplied, Dp!RequireReadback
<1>6. Dp!FaultlessIsOnItsWay'
    BY DEF Dp!FaultlessIsOnItsWay, Dp!Awaiting
<1> QED BY <1>1, <1>2, <1>3, <1>5, <1>6

\* ... which is the last of those the glasses have.
LEMMA DpSendStep ==
    ASSUME Dp!DpAssumption, Dp!DpInv, Dp!Send, UNCHANGED model
    PROVE  Dp!DpInv'
<1> USE DEF Dp!DpInv, Dp!Send, Dp!netVars, Dp!verifyVars, Dp!callVars
<1> DEFINE r == [command |-> Dp!CommandOf[phase], value |-> wanted, connection |-> connection]
<1>1. r \in Dp!Request
    BY DpCommands DEF Dp!Request, Dp!Command, Dp!Setters, Dp!TypeOK
<1>2. CASE connected
  <2>1. /\ inbox' \in Seq(Dp!Request) /\ inbox' # <<>>
        /\ DOMAIN inbox' = 1..(Len(inbox) + 1) /\ DOMAIN inbox = 1..Len(inbox) /\ Len(inbox) \in Nat
        /\ inbox'[Len(inbox) + 1] = r
        /\ \A i \in 1..Len(inbox) : inbox'[i] = inbox[i]
    <3>1. inbox' = Append(inbox, r) /\ inbox \in Seq(Dp!Request)
      BY <1>2 DEF Dp!TypeOK
    <3> HIDE DEF r
    <3> QED BY <1>1, <3>1, DpSent
  <2>2. r.connection = connection /\ r.command = Dp!CommandOf[phase] /\ r.value = wanted
    OBVIOUS
  <2> HIDE DEF r
  <2>3. Dp!TypeOK'
    BY <2>1 DEF Dp!TypeOK, Dp!WriteAttempts
  <2>4. \A i \in 1..Len(inbox) : inbox[i].connection < connection
    BY <1>2, DpRequests DEF Dp!RequestsInOrder
  <2>5. Dp!RequestsInOrder'
    <3>1. \A i, j \in 1..(Len(inbox) + 1) :
             i < j => i \in 1..Len(inbox) /\ (j \in 1..Len(inbox) \/ j = Len(inbox) + 1)
      BY <2>1
    <3>2. \A i, j \in DOMAIN inbox' : i < j => inbox'[i].connection < inbox'[j].connection
      BY <2>1, <2>2, <2>4, <3>1 DEF Dp!RequestsInOrder
    <3>3. \A i \in DOMAIN inbox' : /\ inbox'[i].connection <= connection
                                   /\ inbox'[i].connection = connection => inbox'[i] = r
      BY <2>1, <2>2, <2>4, DpRequests
    <3>4. /\ step' = "await" /\ UNCHANGED <<phase, connection, connected, wanted>>
          /\ r.command = Dp!CommandOf[phase'] /\ r.value = wanted'
      BY <2>2
    <3> HIDE DEF Dp!Send, Dp!DpInv
    <3>5. \A i \in DOMAIN inbox' : inbox'[i].connection <= connection'
      <4>1. connection' = connection
        BY <3>4
      <4> QED BY <3>3, <4>1
    <3>6. \A i \in DOMAIN inbox' : connected' /\ inbox'[i].connection = connection' =>
             /\ step' = "await"
             /\ phase' \in Dp!NativePhases =>
                  inbox'[i].command = Dp!CommandOf[phase'] /\ inbox'[i].value = wanted'
      <4> TAKE i \in DOMAIN inbox'
      <4>1. connection' = connection
        BY <3>4
      <4>2. inbox'[i].connection = connection' => inbox'[i] = r
        BY <3>3, <4>1
      <4> QED BY <3>4, <4>2
    <3> QED BY <3>2, <3>5, <3>6 DEF Dp!RequestsInOrder
  <2>6. Dp!AnswerIsLast' /\ Dp!AnswersAreTrue'
    BY DEF Dp!AnswerIsLast, Dp!AnswersAreTrue, Dp!Awaiting, Dp!DpAssumption, Dp!Value
  <2>7. \A cs : Dp!NonePending(cs)' <=> Dp!NonePending(cs) /\ Dp!CommandOf[phase] \notin cs
    BY <2>1, <2>2 DEF Dp!NonePending
  <2>8. Dp!ReadsAreApplied'
    BY <2>7, DpCommands DEF Dp!ReadsAreApplied, Dp!RequireReadback
  <2>9. Dp!FaultlessIsOnItsWay'
    <3>1. faults = 0 => inbox = <<>>
      BY DEF Dp!FaultlessIsOnItsWay, Dp!Awaiting
    <3>2. faults = 0 => \A i \in DOMAIN inbox' : inbox'[i].connection = connection
      BY <2>1, <2>2, <3>1
    <3> QED BY <1>2, <3>2 DEF Dp!FaultlessIsOnItsWay, Dp!Awaiting
  <2> QED BY <2>3, <2>5, <2>6, <2>8, <2>9
<1>3. CASE ~connected
  <2>1. inbox' = inbox
    BY <1>3
  <2>2. Dp!TypeOK'
    BY <2>1 DEF Dp!TypeOK, Dp!WriteAttempts
  <2>3. Dp!RequestsInOrder'
    BY <1>3, <2>1 DEF Dp!RequestsInOrder
  <2>4. Dp!AnswerIsLast' /\ Dp!AnswersAreTrue'
    BY DEF Dp!AnswerIsLast, Dp!AnswersAreTrue, Dp!Awaiting, Dp!DpAssumption, Dp!Value
  <2>5. \A cs : Dp!NonePending(cs)' <=> Dp!NonePending(cs)
    BY <2>1 DEF Dp!NonePending
  <2>6. Dp!ReadsAreApplied' /\ Dp!FaultlessIsOnItsWay'
    BY <1>3, <2>1, <2>5
       DEF Dp!ReadsAreApplied, Dp!RequireReadback, Dp!FaultlessIsOnItsWay, Dp!Awaiting
  <2> QED BY <2>2, <2>3, <2>4, <2>6
<1> QED BY <1>2, <1>3 DEF Dp!TypeOK

\* Between two native calls nothing of the connection matters: the next one has a
\* connection of its own.
LEMMA DpTurns ==
    ASSUME Dp!DpInv, UNCHANGED <<inbox, connection>>,
           \/ connected' = FALSE /\ answer' = "none" /\ step' = "connect"
           \/ phase' \notin Dp!NativePhases /\ UNCHANGED <<connected, answer, step>>
    PROVE  Dp!RequestsInOrder' /\ Dp!AnswerIsLast' /\ Dp!AnswersAreTrue'
<1> USE DEF Dp!DpInv
<1>1. Dp!RequestsInOrder'
    BY DEF Dp!RequestsInOrder
<1>2. Dp!AnswerIsLast'
    BY DEF Dp!AnswerIsLast
<1>3. Dp!AnswersAreTrue'
    BY DEF Dp!AnswersAreTrue, Dp!Awaiting
<1> QED BY <1>1, <1>2, <1>3

\* A set command that is over leaves what was read as it was; undisturbed, it was
\* acknowledged, so the glasses are set to what it asked for.
LEMMA DpSetStep ==
    ASSUME Dp!DpAssumption, Dp!DpInv, Dp!Setting, NEW done \in BOOLEAN,
           Dp!Written(done) \/ (~done /\ Dp!SetFailed),
           UNCHANGED <<model, edid, input, inbox, wanted, calls, switched>>,
           faults' \in 0..MaxFaults,
           faults' = 0 => faults = 0 /\ done /\ step = "await" /\ answer = "ok"
    PROVE  Dp!DpInv'
<1> USE DEF Dp!DpInv
<1>1. /\ phase \in {"setEdid", "setInput", "writeInput"}
      /\ UNCHANGED <<lastEdid, lastInput, writeCount, rounds>> /\ writeConfirmed' \in BOOLEAN
      /\ attempt' \in 1..SendAttempts
    BY DpSetOver
<1>2. \/ /\ phase' = phase /\ step' = "connect" /\ connected' = FALSE /\ answer' = "none"
         /\ connection' = connection /\ ~done
      \/ /\ phase = "setEdid" /\ phase' = "setInput" /\ done /\ step' = "connect"
         /\ connected' = FALSE /\ answer' = "none" /\ connection' = connection
      \/ /\ phase' = "loop" \/ (phase = "writeInput" /\ phase' = "reread")
         /\ UNCHANGED <<connection, connected, answer, step>>
         /\ phase = "setEdid" => ~done
    BY DpSetOver
<1>3. /\ phase' \in Dp!Phases /\ connection' = connection
      /\ \/ connected' = FALSE /\ answer' = "none" /\ step' = "connect"
         \/ phase' \notin Dp!NativePhases /\ UNCHANGED <<connected, answer, step>>
    BY <1>1, <1>2, DpCommands DEF Dp!Phases
<1>4. Dp!TypeOK'
  <2>1. /\ connected' \in BOOLEAN /\ answer' \in Dp!Answers
        /\ step' \in {"connect", "send", "await"}
    BY <1>3 DEF Dp!TypeOK, Dp!Answers
  <2> QED BY <1>1, <1>3, <2>1 DEF Dp!TypeOK, Dp!WriteAttempts
<1>5. Dp!RequestsInOrder' /\ Dp!AnswerIsLast' /\ Dp!AnswersAreTrue'
    BY <1>3, DpTurns
<1>6. \A cs : Dp!NonePending(cs) => Dp!NonePending(cs)'
    BY DEF Dp!NonePending
<1>7. Dp!ReadsAreApplied'
    BY <1>1, <1>2, <1>6 DEF Dp!ReadsAreApplied, Dp!RequireReadback
<1>8. ASSUME faults' = 0 PROVE Dp!FaultlessIsOnItsWay'
  <2>1. /\ faults = 0 /\ done /\ Dp!Awaiting /\ answer = "ok" /\ inbox = <<>>
        /\ Dp!Target(Dp!CommandOf[phase]) = wanted
    BY <1>1, <1>8, DpCommands DEF Dp!Awaiting, Dp!AnswerIsLast, Dp!AnswersAreTrue
  <2>2. \/ phase = "setEdid" /\ phase' = "setInput" /\ step' = "connect" /\ answer' = "none"
           /\ edid = wanted
        \/ phase = "setInput" /\ phase' = "loop" /\ edid = wanted /\ input = wanted
    BY <1>1, <1>2, <2>1, DpCommands DEF Dp!FaultlessIsOnItsWay, Dp!Target
  <2>3. rounds' = 0
    BY <1>1, <2>1, <2>2 DEF Dp!FaultlessIsOnItsWay
  <2> QED BY <2>1, <2>2, <2>3, DpCommands DEF Dp!FaultlessIsOnItsWay
<1>9. Dp!FaultlessIsOnItsWay'
    BY <1>8 DEF Dp!FaultlessIsOnItsWay
<1> QED BY <1>4, <1>5, <1>7, <1>9

\* A get command that is over has read what the glasses are set to, or nothing.
LEMMA DpGetStep ==
    ASSUME Dp!DpAssumption, Dp!DpInv, Dp!Getting, NEW v \in Dp!Value \cup {Null}, Dp!ReadBack(v),
           UNCHANGED <<model, edid, input, inbox, wanted, calls, switched>>,
           UNCHANGED <<writeCount, writeConfirmed, rounds>>,
           v # Null => step = "await" /\ answer = v,
           faults' \in 0..MaxFaults, faults' = 0 => faults = 0 /\ v # Null
    PROVE  Dp!DpInv'
<1> USE DEF Dp!DpInv
<1>1. /\ attempt' \in 1..SendAttempts /\ connection' = connection
      /\ \/ connected' = FALSE /\ answer' = "none" /\ step' = "connect"
         \/ UNCHANGED <<connected, answer, step>>
    BY DpGetOver
<1>2. \/ /\ phase = "readEdid" /\ phase' = "readInput" /\ lastEdid' = v /\ lastInput' = lastInput
         /\ connected' = FALSE /\ answer' = "none" /\ step' = "connect"
      \/ phase = "readInput" /\ phase' = "decide" /\ lastInput' = v /\ lastEdid' = lastEdid
      \/ /\ phase = "rereadEdid" /\ phase' \in {"verdict", "loop"}
         /\ lastEdid' = v /\ lastInput' = lastInput
      \/ /\ phase = "finalEdid" /\ lastEdid' = v /\ lastInput' = lastInput
         /\ \/ phase' = "verdict"
            \/ /\ phase' = "finalInput" /\ connected' = FALSE /\ answer' = "none"
               /\ step' = "connect"
      \/ phase = "finalInput" /\ phase' = "verdict" /\ lastInput' = v /\ lastEdid' = lastEdid
    BY DpGetOver
<1>3. /\ phase' \in Dp!Phases
      /\ \/ connected' = FALSE /\ answer' = "none" /\ step' = "connect"
         \/ phase' \notin Dp!NativePhases /\ UNCHANGED <<connected, answer, step>>
    BY <1>1, <1>2, DpCommands DEF Dp!Phases
<1>4. Dp!TypeOK'
  <2>1. /\ connected' \in BOOLEAN /\ answer' \in Dp!Answers
        /\ step' \in {"connect", "send", "await"}
    BY <1>3 DEF Dp!TypeOK, Dp!Answers
  <2>2. lastEdid' \in Dp!Value \cup {Null} /\ lastInput' \in Dp!Value \cup {Null}
    BY <1>2 DEF Dp!TypeOK
  <2> QED BY <1>1, <1>3, <2>1, <2>2 DEF Dp!TypeOK, Dp!WriteAttempts
<1>5. Dp!RequestsInOrder' /\ Dp!AnswerIsLast' /\ Dp!AnswersAreTrue'
    BY <1>1, <1>3, DpTurns
<1>6. ASSUME v # Null
      PROVE  /\ inbox = <<>>
             /\ phase \in {"readEdid", "rereadEdid", "finalEdid"} => v = edid
             /\ phase \in {"readInput", "finalInput"} => v = input
  <2>1. Dp!Awaiting /\ answer = v /\ v \in Dp!Value
    BY <1>6 DEF Dp!Getting, Dp!Awaiting
  <2>2. inbox = <<>>
    BY <2>1, DpValues DEF Dp!AnswerIsLast, Dp!Awaiting
  <2>3. v = Dp!Target(Dp!CommandOf[phase])
    BY <2>1 DEF Dp!AnswersAreTrue
  <2> QED BY <2>2, <2>3, DpCommands DEF Dp!Target
<1>7. \A cs : /\ Dp!NonePending(cs) => Dp!NonePending(cs)'
              /\ inbox = <<>> => Dp!NonePending(cs)'
    BY DEF Dp!NonePending
<1>8. Dp!ReadsAreApplied'
    BY <1>2, <1>6, <1>7 DEF Dp!ReadsAreApplied, Dp!RequireReadback
<1>9. ASSUME faults' = 0 PROVE Dp!FaultlessIsOnItsWay'
  <2>1. faults = 0 /\ inbox = <<>>
    BY <1>6, <1>9
  <2>2. \/ /\ phase = "readEdid" /\ phase' = "readInput" /\ step' = "connect" /\ answer' = "none"
           /\ lastEdid' = edid
        \/ phase = "readInput" /\ phase' = "decide" /\ lastInput' = input /\ lastEdid' = lastEdid
    BY <1>2, <1>6, <1>9 DEF Dp!FaultlessIsOnItsWay
  <2> QED BY <2>1, <2>2, DpCommands DEF Dp!FaultlessIsOnItsWay
<1>10. Dp!FaultlessIsOnItsWay'
    BY <1>9 DEF Dp!FaultlessIsOnItsWay
<1> QED BY <1>4, <1>5, <1>8, <1>10

\* The answer to a set command came ...
LEMMA DpSetAnsweredStep ==
    ASSUME Dp!DpAssumption, Dp!DpInv, Dp!SetAnswered, UNCHANGED model
    PROVE  Dp!DpInv'
<1> USE DEF Dp!SetAnswered, Dp!Over, Dp!glassesVars, Dp!callVars
<1>1. Dp!TypeOK /\ Dp!AnswersAreTrue /\ Dp!FaultlessIsOnItsWay
    BY DEF Dp!DpInv
<1>2. faults' = faults /\ faults \in 0..MaxFaults /\ Dp!Awaiting /\ answer # "none"
    BY <1>1 DEF Dp!TypeOK, Dp!Setting, Dp!Awaiting
<1>3. CASE answer = "ok"
    BY <1>2, <1>3, DpSetStep
<1>4. CASE answer # "ok"
  <2>1. answer = "refused"
    BY <1>1, <1>2, <1>4 DEF Dp!TypeOK, Dp!Answers, Dp!AnswersAreTrue, Dp!Setting, Dp!Getting
  <2>2. faults # 0
    BY <1>1, <1>2, <2>1 DEF Dp!FaultlessIsOnItsWay, Dp!Awaiting
  <2> QED BY <1>2, <1>4, <2>2, DpSetStep
<1> QED BY <1>3, <1>4

\* ... or none did ...
LEMMA DpSetUnansweredStep ==
    ASSUME Dp!DpAssumption, Dp!DpInv, Dp!SetUnanswered, UNCHANGED model
    PROVE  Dp!DpInv'
<1> USE DEF Dp!SetUnanswered, Dp!Over, Dp!OverByFault, Dp!glassesVars, Dp!callVars
<1>1. Dp!TypeOK /\ Dp!FaultlessIsOnItsWay
    BY DEF Dp!DpInv
<1>2. faults' \in 1..MaxFaults
  <2>1. CASE connected
    BY <1>1, <2>1 DEF Dp!TypeOK, Dp!DpAssumption
  <2>2. CASE ~connected
    <3>1. faults # 0
      BY <1>1, <2>2 DEF Dp!FaultlessIsOnItsWay, Dp!Setting
    <3> QED BY <1>1, <2>2, <3>1 DEF Dp!TypeOK, Dp!DpAssumption
  <2> QED BY <2>1, <2>2
<1>3. faults' \in 0..MaxFaults /\ faults' # 0
    BY <1>2 DEF Dp!DpAssumption
<1>4. UNCHANGED <<edid, input, inbox, wanted, calls, switched>>
    OBVIOUS
<1>5. PICK done \in BOOLEAN : Dp!Written(done) \/ (~done /\ Dp!SetFailed)
    OBVIOUS
<1> QED BY <1>3, <1>4, <1>5, DpSetStep

\* ... or it was never sent.
LEMMA DpSetNotSentStep ==
    ASSUME Dp!DpAssumption, Dp!DpInv, Dp!SetNotSent, UNCHANGED model
    PROVE  Dp!DpInv'
<1> USE DEF Dp!SetNotSent, Dp!Over, Dp!OverByFault, Dp!glassesVars, Dp!callVars
<1>1. Dp!TypeOK /\ Dp!FaultlessIsOnItsWay
    BY DEF Dp!DpInv
<1>2. faults' \in 1..MaxFaults
  <2>1. CASE step = "connect"
    BY <1>1, <2>1 DEF Dp!TypeOK, Dp!DpAssumption
  <2>2. CASE step # "connect"
    <3>1. faults # 0
      BY <1>1, <2>2 DEF Dp!FaultlessIsOnItsWay, Dp!Setting
    <3> QED BY <1>1, <2>2, <3>1 DEF Dp!TypeOK, Dp!DpAssumption
  <2> QED BY <2>1, <2>2
<1>3. faults' \in 0..MaxFaults /\ faults' # 0
    BY <1>2 DEF Dp!DpAssumption
<1>4. UNCHANGED <<edid, input, inbox, wanted, calls, switched>>
    OBVIOUS
<1>5. Dp!Setting /\ Dp!SetFailed /\ FALSE \in BOOLEAN
    OBVIOUS
<1> QED BY <1>3, <1>4, <1>5, DpSetStep

\* The same of a get command: answered ...
LEMMA DpGetAnsweredStep ==
    ASSUME Dp!DpAssumption, Dp!DpInv, Dp!GetAnswered, UNCHANGED model
    PROVE  Dp!DpInv'
<1> USE DEF Dp!GetAnswered, Dp!Over, Dp!glassesVars, Dp!callVars
<1>1. Dp!TypeOK /\ Dp!AnswersAreTrue /\ Dp!FaultlessIsOnItsWay
    BY DEF Dp!DpInv
<1>2. faults' = faults /\ faults \in 0..MaxFaults /\ Dp!Awaiting /\ answer # "none"
    BY <1>1 DEF Dp!TypeOK, Dp!Getting, Dp!Awaiting
<1>3. CASE answer = "refused"
  <2>1. faults # 0
    BY <1>1, <1>2, <1>3 DEF Dp!FaultlessIsOnItsWay, Dp!Awaiting
  <2>2. Dp!Getting /\ Dp!ReadBack(Null) /\ Null \in Dp!Value \cup {Null}
    BY <1>3
  <2> QED BY <1>2, <2>1, <2>2, DpGetStep
<1>4. CASE answer # "refused"
  <2>1. answer \in Dp!Value \cup {Null} /\ answer # Null
    BY <1>1, <1>2, <1>4, DpValues
       DEF Dp!TypeOK, Dp!Answers, Dp!AnswersAreTrue, Dp!Setting, Dp!Getting
  <2>2. Dp!Getting /\ Dp!ReadBack(answer) /\ step = "await"
    BY <1>4
  <2> QED BY <1>2, <2>1, <2>2, DpGetStep
<1> QED BY <1>3, <1>4

\* ... or not ...
LEMMA DpGetUnansweredStep ==
    ASSUME Dp!DpAssumption, Dp!DpInv, Dp!GetUnanswered, UNCHANGED model
    PROVE  Dp!DpInv'
<1> USE DEF Dp!GetUnanswered, Dp!Over, Dp!OverByFault, Dp!glassesVars, Dp!callVars
<1>1. Dp!TypeOK /\ Dp!FaultlessIsOnItsWay
    BY DEF Dp!DpInv
<1>2. faults' \in 1..MaxFaults
  <2>1. CASE connected
    BY <1>1, <2>1 DEF Dp!TypeOK, Dp!DpAssumption
  <2>2. CASE ~connected
    <3>1. faults # 0
      BY <1>1, <2>2 DEF Dp!FaultlessIsOnItsWay, Dp!Getting
    <3> QED BY <1>1, <2>2, <3>1 DEF Dp!TypeOK, Dp!DpAssumption
  <2> QED BY <2>1, <2>2
<1>3. faults' \in 0..MaxFaults /\ faults' # 0
    BY <1>2 DEF Dp!DpAssumption
<1>4. UNCHANGED <<edid, input, inbox, wanted, calls, switched>>
    OBVIOUS
<1>5. Dp!Getting /\ Dp!ReadBack(Null) /\ Null \in Dp!Value \cup {Null}
    OBVIOUS
<1> QED BY <1>3, <1>4, <1>5, DpGetStep

\* ... or never sent.
LEMMA DpGetNotSentStep ==
    ASSUME Dp!DpAssumption, Dp!DpInv, Dp!GetNotSent, UNCHANGED model
    PROVE  Dp!DpInv'
<1> USE DEF Dp!GetNotSent, Dp!Over, Dp!OverByFault, Dp!glassesVars, Dp!callVars
<1>1. Dp!TypeOK /\ Dp!FaultlessIsOnItsWay
    BY DEF Dp!DpInv
<1>2. faults' \in 1..MaxFaults
  <2>1. CASE step = "connect"
    BY <1>1, <2>1 DEF Dp!TypeOK, Dp!DpAssumption
  <2>2. CASE step # "connect"
    <3>1. faults # 0
      BY <1>1, <2>2 DEF Dp!FaultlessIsOnItsWay, Dp!Getting
    <3> QED BY <1>1, <2>2, <3>1 DEF Dp!TypeOK, Dp!DpAssumption
  <2> QED BY <2>1, <2>2
<1>3. faults' \in 0..MaxFaults /\ faults' # 0
    BY <1>2 DEF Dp!DpAssumption
<1>4. UNCHANGED <<edid, input, inbox, wanted, calls, switched>>
    OBVIOUS
<1>5. Dp!Getting /\ Dp!ReadBack(Null) /\ Null \in Dp!Value \cup {Null}
    OBVIOUS
<1> QED BY <1>3, <1>4, <1>5, DpGetStep

\* A step of the session between two native calls keeps what says nothing of what was
\* read: either the next one begins, or the session goes on.
LEMMA DpCalm ==
    ASSUME Dp!DpAssumption, Dp!DpInv, UNCHANGED Dp!glassesVars, NEW next \in Dp!NativePhases,
           \/ Dp!StartNative(next)
           \/ /\ phase' \in {"idle", "loop", "decide", "reread", "verdict"}
              /\ UNCHANGED <<Dp!netVars, step, attempt>>
    PROVE  /\ UNCHANGED <<edid, input, inbox>> /\ \A cs : Dp!NonePending(cs) => Dp!NonePending(cs)'
           /\ Dp!RequestsInOrder' /\ Dp!AnswerIsLast' /\ Dp!AnswersAreTrue'
           /\ phase' \in Dp!Phases /\ connection' \in Nat /\ connected' \in BOOLEAN
           /\ answer' \in Dp!Answers /\ step' \in {"connect", "send", "await"}
           /\ attempt' \in 1..SendAttempts
           /\ \/ phase' = next /\ step' = "connect" /\ answer' = "none"
              \/ phase' \in {"idle", "loop", "decide", "reread", "verdict"}
<1>1. Dp!TypeOK
    BY DEF Dp!DpInv
<1>2. CASE Dp!StartNative(next)
  <2>1. /\ phase' = next /\ step' = "connect" /\ connected' = FALSE
        /\ answer' = "none" /\ connection' = connection /\ attempt' \in 1..SendAttempts
    BY <1>2, DpStarts DEF Dp!StartNative
  <2>2. Dp!RequestsInOrder' /\ Dp!AnswerIsLast' /\ Dp!AnswersAreTrue'
    BY <2>1, DpTurns DEF Dp!glassesVars
  <2> QED BY <1>1, <2>1, <2>2 DEF Dp!TypeOK, Dp!Answers, Dp!Phases, Dp!glassesVars, Dp!NonePending
<1>3. CASE /\ phase' \in {"idle", "loop", "decide", "reread", "verdict"}
           /\ UNCHANGED <<Dp!netVars, step, attempt>>
  <2>1. phase' \notin Dp!NativePhases
    BY <1>3, DpCommands
  <2>2. Dp!RequestsInOrder' /\ Dp!AnswerIsLast' /\ Dp!AnswersAreTrue'
    BY <1>3, <2>1, DpTurns DEF Dp!glassesVars, Dp!netVars
  <2> QED BY <1>1, <1>3, <2>2 DEF Dp!TypeOK, Dp!Phases, Dp!glassesVars, Dp!netVars, Dp!NonePending
<1> QED BY <1>2, <1>3

\* A call forgets what the last one read, and asks first for its EDID ...
LEMMA DpStartStep ==
    ASSUME Dp!DpAssumption, Dp!DpInv, NEW p \in Profiles, Dp!Start(p), UNCHANGED model
    PROVE  Dp!DpInv'
<1> USE DpCommands DEF Dp!Start
<1>1. Dp!TypeOK /\ Dp!FaultlessIsOnItsWay
    BY DEF Dp!DpInv
<1>2. Dp!StartNative("setEdid") /\ UNCHANGED Dp!glassesVars /\ "setEdid" \in Dp!NativePhases
    OBVIOUS
<1>3. phase' = "setEdid" /\ step' = "connect" /\ answer' = "none"
    BY <1>2 DEF Dp!StartNative
<1>4. /\ UNCHANGED <<edid, input, inbox>>
      /\ Dp!RequestsInOrder' /\ Dp!AnswerIsLast' /\ Dp!AnswersAreTrue'
      /\ phase' \in Dp!Phases /\ connection' \in Nat /\ connected' \in BOOLEAN
      /\ answer' \in Dp!Answers /\ step' \in {"connect", "send", "await"}
      /\ attempt' \in 1..SendAttempts
    BY <1>2, DpCalm
<1>5. Dp!TypeOK'
  <2>1. /\ calls' \in 0..MaxCalls /\ wanted' \in Dp!Value /\ lastEdid' = Null /\ lastInput' = Null
        /\ rounds' \in 0..MaxRounds /\ writeCount' = 0 /\ writeConfirmed' = FALSE
        /\ UNCHANGED <<model, faults, switched>>
    BY <1>1 DEF Dp!TypeOK, Dp!DpAssumption, Dp!Value
  <2>2. writeCount' \in 0..Dp!WriteAttempts'
    BY <2>1 DEF Dp!WriteAttempts
  <2>3. writeConfirmed' \in BOOLEAN
    BY <2>1
  <2> HIDE DEF Dp!Start
  <2> QED BY <1>1, <1>4, <2>1, <2>2, <2>3 DEF Dp!TypeOK
<1>6. Dp!ReadsAreApplied'
    BY <1>3 DEF Dp!ReadsAreApplied
<1>7. Dp!FaultlessIsOnItsWay'
  <2>1. faults = 0 => inbox = <<>>
    BY <1>1 DEF Dp!FaultlessIsOnItsWay, Dp!Awaiting
  <2> QED BY <1>3, <1>4, <2>1 DEF Dp!FaultlessIsOnItsWay
<1> QED BY <1>4, <1>5, <1>6, <1>7 DEF Dp!DpInv

\* ... a round reads both values ...
LEMMA DpRoundStep ==
    ASSUME Dp!DpAssumption, Dp!DpInv, Dp!Round, UNCHANGED model
    PROVE  Dp!DpInv'
<1> USE DpCommands DEF Dp!Round, Dp!Stay
<1>1. Dp!TypeOK /\ Dp!FaultlessIsOnItsWay /\ Dp!ReadsAreApplied
    BY DEF Dp!DpInv
<1>2. Dp!StartNative("readEdid") /\ UNCHANGED Dp!glassesVars /\ "readEdid" \in Dp!NativePhases
    OBVIOUS
<1>3. phase' = "readEdid" /\ step' = "connect" /\ answer' = "none"
    BY <1>2 DEF Dp!StartNative
<1>4. /\ UNCHANGED <<edid, input, inbox>> /\ \A cs : Dp!NonePending(cs) => Dp!NonePending(cs)'
      /\ Dp!RequestsInOrder' /\ Dp!AnswerIsLast' /\ Dp!AnswersAreTrue'
      /\ phase' \in Dp!Phases /\ connection' \in Nat /\ connected' \in BOOLEAN
      /\ answer' \in Dp!Answers /\ step' \in {"connect", "send", "await"}
      /\ attempt' \in 1..SendAttempts
    BY <1>2, DpCalm
<1>5. Dp!TypeOK'
  <2>1. rounds' \in 0..MaxRounds
    BY <1>1 DEF Dp!TypeOK, Dp!DpAssumption
  <2>2. UNCHANGED <<wanted, lastEdid, lastInput, writeCount, writeConfirmed, calls, faults, switched>>
    OBVIOUS
  <2> HIDE DEF Dp!Round
  <2> QED BY <1>1, <1>4, <2>1, <2>2 DEF Dp!TypeOK, Dp!WriteAttempts
<1>6. Dp!ReadsAreApplied'
    BY <1>1, <1>3, <1>4 DEF Dp!ReadsAreApplied
<1>7. Dp!FaultlessIsOnItsWay'
    BY <1>1, <1>3, <1>4 DEF Dp!FaultlessIsOnItsWay, Dp!Awaiting
<1> QED BY <1>4, <1>5, <1>6, <1>7 DEF Dp!DpInv

\* ... the deadline comes, which an undisturbed call does not meet ...
LEMMA DpDeadlineStep ==
    ASSUME Dp!DpAssumption, Dp!DpInv, Dp!DeadlineOver, UNCHANGED model
    PROVE  Dp!DpInv'
<1> USE DpCommands DEF Dp!DeadlineOver, Dp!Stay, Dp!verifyVars
<1>1. Dp!TypeOK /\ Dp!FaultlessIsOnItsWay /\ Dp!ReadsAreApplied
    BY DEF Dp!DpInv
<1>2. PICK next \in {"finalEdid", "finalInput"} :
         Dp!StartNative(next) \/ (phase' = "verdict" /\ UNCHANGED <<Dp!netVars, step, attempt>>)
    BY DEF Dp!FinalReads
<1>3. phase' \in {next, "verdict"}
    BY <1>2 DEF Dp!StartNative
<1>4. /\ UNCHANGED <<edid, input, inbox>> /\ \A cs : Dp!NonePending(cs) => Dp!NonePending(cs)'
      /\ Dp!RequestsInOrder' /\ Dp!AnswerIsLast' /\ Dp!AnswersAreTrue'
      /\ phase' \in Dp!Phases /\ connection' \in Nat /\ connected' \in BOOLEAN
      /\ answer' \in Dp!Answers /\ step' \in {"connect", "send", "await"}
      /\ attempt' \in 1..SendAttempts
    BY <1>2, DpCalm
<1>5. Dp!TypeOK'
    BY <1>1, <1>4 DEF Dp!TypeOK, Dp!WriteAttempts
<1>6. Dp!ReadsAreApplied'
    BY <1>1, <1>3, <1>4 DEF Dp!ReadsAreApplied
<1>7. Dp!FaultlessIsOnItsWay'
  <2>1. faults # 0
    BY <1>1 DEF Dp!FaultlessIsOnItsWay, Dp!TypeOK
  <2> QED BY <2>1 DEF Dp!FaultlessIsOnItsWay
<1> QED BY <1>4, <1>5, <1>6, <1>7 DEF Dp!DpInv

\* ... what was read is compared with what was asked for ...
LEMMA DpDecideStep ==
    ASSUME Dp!DpAssumption, Dp!DpInv, Dp!Decide, UNCHANGED model
    PROVE  Dp!DpInv'
<1> USE DpCommands DEF Dp!Decide, Dp!Stay
<1>1. Dp!TypeOK /\ Dp!FaultlessIsOnItsWay /\ Dp!ReadsAreApplied
    BY DEF Dp!DpInv
<1>2. \/ /\ lastEdid = wanted /\ lastInput = wanted /\ phase' = "idle" /\ switched' = TRUE
         /\ UNCHANGED <<Dp!netVars, step, attempt, writeCount>>
      \/ /\ lastInput # wanted /\ Dp!StartNative("writeInput") /\ phase' = "writeInput"
         /\ writeCount < Dp!WriteAttempts /\ writeCount' = writeCount + 1 /\ switched' = switched
      \/ /\ ~(lastEdid = wanted /\ lastInput = wanted) /\ phase' = "loop"
         /\ UNCHANGED <<Dp!netVars, step, attempt, writeCount, switched>>
    BY DEF Dp!Return, Dp!StartNative
<1>3. /\ UNCHANGED <<edid, input, inbox>> /\ \A cs : Dp!NonePending(cs) => Dp!NonePending(cs)'
      /\ Dp!RequestsInOrder' /\ Dp!AnswerIsLast' /\ Dp!AnswersAreTrue'
      /\ phase' \in Dp!Phases /\ connection' \in Nat /\ connected' \in BOOLEAN
      /\ answer' \in Dp!Answers /\ step' \in {"connect", "send", "await"}
      /\ attempt' \in 1..SendAttempts
    BY <1>2, DpCalm
<1>4. UNCHANGED <<wanted, calls, faults, lastEdid, lastInput, writeConfirmed, rounds>>
    OBVIOUS
<1>5. Dp!TypeOK'
  <2>1. writeCount' \in 0..Dp!WriteAttempts
    BY <1>1, <1>2 DEF Dp!TypeOK, Dp!WriteAttempts
  <2>2. switched' \in BOOLEAN
    BY <1>1, <1>2 DEF Dp!TypeOK
  <2> HIDE DEF Dp!Decide
  <2> QED BY <1>1, <1>3, <1>4, <2>1, <2>2 DEF Dp!TypeOK, Dp!WriteAttempts
<1>6. Dp!ReadsAreApplied'
    BY <1>1, <1>2, <1>3, <1>4, DpValues
       DEF Dp!ReadsAreApplied, Dp!RequireReadback, Dp!TypeOK
<1>7. Dp!FaultlessIsOnItsWay'
    BY <1>1, <1>2, <1>3, <1>4 DEF Dp!FaultlessIsOnItsWay, Dp!Awaiting
<1> QED BY <1>3, <1>5, <1>6, <1>7 DEF Dp!DpInv

\* ... a confirmed write has only its EDID read again ...
LEMMA DpRereadStep ==
    ASSUME Dp!DpAssumption, Dp!DpInv, Dp!Reread, UNCHANGED model
    PROVE  Dp!DpInv'
<1> USE DpCommands DEF Dp!Reread, Dp!Stay, Dp!verifyVars
<1>1. Dp!TypeOK /\ Dp!FaultlessIsOnItsWay /\ Dp!ReadsAreApplied
    BY DEF Dp!DpInv
<1>2. Dp!StartNative("rereadEdid") /\ UNCHANGED Dp!glassesVars /\ "rereadEdid" \in Dp!NativePhases
    OBVIOUS
<1>3. phase' = "rereadEdid"
    BY <1>2 DEF Dp!StartNative
<1>4. /\ UNCHANGED <<edid, input, inbox>> /\ \A cs : Dp!NonePending(cs) => Dp!NonePending(cs)'
      /\ Dp!RequestsInOrder' /\ Dp!AnswerIsLast' /\ Dp!AnswersAreTrue'
      /\ phase' \in Dp!Phases /\ connection' \in Nat /\ connected' \in BOOLEAN
      /\ answer' \in Dp!Answers /\ step' \in {"connect", "send", "await"}
      /\ attempt' \in 1..SendAttempts
    BY <1>2, DpCalm
<1>5. Dp!TypeOK'
    BY <1>1, <1>4 DEF Dp!TypeOK, Dp!WriteAttempts
<1>6. Dp!ReadsAreApplied'
    BY <1>1, <1>3, <1>4 DEF Dp!ReadsAreApplied
<1>7. Dp!FaultlessIsOnItsWay'
    BY <1>1 DEF Dp!FaultlessIsOnItsWay
<1> QED BY <1>4, <1>5, <1>6, <1>7 DEF Dp!DpInv

\* ... and the call returns.
LEMMA DpVerdictStep ==
    ASSUME Dp!DpAssumption, Dp!DpInv, Dp!Verdict, UNCHANGED model
    PROVE  Dp!DpInv'
<1> USE DpCommands DEF Dp!Verdict, Dp!Stay, Dp!verifyVars, Dp!Return
<1>1. Dp!TypeOK /\ Dp!FaultlessIsOnItsWay /\ Dp!ReadsAreApplied
    BY DEF Dp!DpInv
<1>2. /\ UNCHANGED <<edid, input, inbox>> /\ \A cs : Dp!NonePending(cs) => Dp!NonePending(cs)'
      /\ Dp!RequestsInOrder' /\ Dp!AnswerIsLast' /\ Dp!AnswersAreTrue'
      /\ phase' \in Dp!Phases /\ connection' \in Nat /\ connected' \in BOOLEAN
      /\ answer' \in Dp!Answers /\ step' \in {"connect", "send", "await"}
      /\ attempt' \in 1..SendAttempts
  <2>1. "setEdid" \in Dp!NativePhases /\ UNCHANGED Dp!glassesVars
    OBVIOUS
  <2> QED BY <2>1, DpCalm
<1>3. switched' \in BOOLEAN /\ (switched' => ~Dp!RequireReadback /\ lastEdid = wanted)
    BY DEF Dp!RequireReadback
<1>4. Dp!TypeOK'
    BY <1>1, <1>2, <1>3 DEF Dp!TypeOK, Dp!WriteAttempts
<1>5. Dp!ReadsAreApplied'
    BY <1>1, <1>2, <1>3 DEF Dp!ReadsAreApplied, Dp!RequireReadback
<1>6. Dp!FaultlessIsOnItsWay'
    BY <1>1 DEF Dp!FaultlessIsOnItsWay
<1> QED BY <1>2, <1>4, <1>5, <1>6 DEF Dp!DpInv

\* No step takes DpInv away ...
LEMMA DpStep ==
    ASSUME Dp!DpAssumption, Dp!DpInv, Dp!Next
    PROVE  Dp!DpInv'
<1>1. UNCHANGED model
    BY DEF Dp!Next
<1>2. CASE Dp!Connect \/ Dp!Send
    BY <1>1, <1>2, DpConnectStep, DpSendStep
<1>3. CASE Dp!SetAnswered \/ Dp!SetUnanswered \/ Dp!SetNotSent
    BY <1>1, <1>3, DpSetAnsweredStep, DpSetUnansweredStep, DpSetNotSentStep
<1>4. CASE Dp!GetAnswered \/ Dp!GetUnanswered \/ Dp!GetNotSent
    BY <1>1, <1>4, DpGetAnsweredStep, DpGetUnansweredStep, DpGetNotSentStep
<1>5. CASE Dp!Round \/ Dp!DeadlineOver \/ Dp!Decide \/ Dp!Reread \/ Dp!Verdict
    BY <1>1, <1>5, DpRoundStep, DpDeadlineStep, DpDecideStep, DpRereadStep, DpVerdictStep
<1>6. CASE Dp!Serve \/ Dp!Refuse \/ Dp!Reenumerate
    BY <1>1, <1>6, DpServeStep, DpRefuseStep, DpReenumerateStep
<1>7. CASE \E p \in Profiles : Dp!Start(p)
    BY <1>1, <1>7, DpStartStep
<1> QED BY <1>2, <1>3, <1>4, <1>5, <1>6, <1>7 DEF Dp!Next, Dp!Session, Dp!Glasses

\* ... it holds at the start ...
LEMMA DpInitial ==
    ASSUME Dp!DpAssumption, Dp!Init
    PROVE  Dp!DpInv
<1> USE DpCommands DEF Dp!Init
<1>1. Dp!TypeOK
  <2>1. inbox \in Seq(Dp!Request)
    OBVIOUS
  <2>2. 1 \in 1..SendAttempts /\ 0 \in 0..MaxRounds /\ 0 \in 0..MaxCalls /\ 0 \in 0..MaxFaults
    BY DEF Dp!DpAssumption
  <2>3. writeCount \in 0..Dp!WriteAttempts
    BY DEF Dp!WriteAttempts
  <2> QED BY <2>1, <2>2, <2>3 DEF Dp!TypeOK, Dp!Value, Dp!Answers, Dp!Phases
<1>2. Dp!RequestsInOrder /\ Dp!AnswerIsLast /\ Dp!AnswersAreTrue
    BY DEF Dp!RequestsInOrder, Dp!AnswerIsLast, Dp!AnswersAreTrue, Dp!Awaiting
<1>3. Dp!ReadsAreApplied /\ Dp!FaultlessIsOnItsWay
    BY DEF Dp!ReadsAreApplied, Dp!NonePending, Dp!FaultlessIsOnItsWay
<1> QED BY <1>1, <1>2, <1>3 DEF Dp!DpInv

\* ... no other part of the composition disturbs it ...
LEMMA DpStutters ==
    ASSUME Dp!DpInv, UNCHANGED Dp!vars
    PROVE  Dp!DpInv'
<1> USE DEF Dp!vars, Dp!glassesVars, Dp!netVars, Dp!verifyVars, Dp!callVars
<1>1. Dp!TypeOK'
    BY DEF Dp!DpInv, Dp!TypeOK, Dp!WriteAttempts
<1>2. Dp!RequestsInOrder' /\ Dp!AnswerIsLast' /\ Dp!AnswersAreTrue'
    BY DEF Dp!DpInv, Dp!RequestsInOrder, Dp!AnswerIsLast, Dp!AnswersAreTrue, Dp!Awaiting,
           Dp!Target, Dp!Setting, Dp!Getting
<1>3. Dp!ReadsAreApplied' /\ Dp!FaultlessIsOnItsWay'
    BY DEF Dp!DpInv, Dp!ReadsAreApplied, Dp!NonePending, Dp!RequireReadback,
           Dp!FaultlessIsOnItsWay, Dp!Awaiting
<1> QED BY <1>1, <1>2, <1>3 DEF Dp!DpInv

\* ... and it is why what a switch returns is so.
LEMMA DpIsTruthful ==
    ASSUME Dp!DpAssumption, Dp!DpInv
    PROVE  Dp!SwitchIsTruthful
<1>1. Dp!TypeOK /\ Dp!FaultlessIsOnItsWay /\ Dp!ReadsAreApplied
    BY DEF Dp!DpInv
<1>2. Dp!SuccessIsApplied
    BY <1>1, DpValues DEF Dp!SuccessIsApplied, Dp!ReadsAreApplied, Dp!TypeOK
<1>3. Dp!FaultlessSwitchSucceeds
    BY <1>1 DEF Dp!FaultlessSwitchSucceeds, Dp!FaultlessIsOnItsWay, Dp!TypeOK
<1> QED BY <1>2, <1>3 DEF Dp!SwitchIsTruthful

-----------------------------------------------------------------------------
(* The composition *)

\* Multiples of a positive number are that number apart ...
LEMMA MultiplesApart ==
    ASSUME NEW F \in Nat \ {0}, NEW a \in Nat, NEW b \in Nat, a + 1 <= b
    PROVE  F * a + F <= F * b
OBVIOUS

\* ... so quotient and remainder are unique.
LEMMA QuotientIsUnique ==
    ASSUME NEW F \in Nat \ {0}, NEW a \in Nat, NEW b \in Nat,
           NEW r \in 0..(F - 1), NEW s \in 0..(F - 1), F * a + r = F * b + s
    PROVE  a = b /\ r = s
<1>1. F * a \in Nat /\ F * b \in Nat
    OBVIOUS
<1>2. ~(a + 1 <= b)
    BY <1>1, MultiplesApart
<1>3. ~(b + 1 <= a)
    BY <1>1, MultiplesApart
<1>4. a = b
    BY <1>2, <1>3
<1> QED BY <1>1, <1>4

\* What division leaves is less than the divisor.
LEMMA QuotientIs ==
    ASSUME NEW n \in Nat, NEW F \in Nat \ {0}
    PROVE  n \div F \in Nat /\ n % F \in 0..(F - 1) /\ n = F * (n \div F) + (n % F)
OBVIOUS

\* One more packet is of the same frame unless the frame was at its last.
LEMMA QuotientOfNext ==
    ASSUME NEW n \in Nat, NEW m \in Nat, NEW F \in Nat \ {0}, m = n + 1
    PROVE  IF n % F = F - 1 THEN m \div F = (n \div F) + 1 /\ m % F = 0
                            ELSE m \div F = n \div F /\ m % F = (n % F) + 1
<1> DEFINE q == n \div F
           r == n % F
           Q == m \div F
           R == m % F
<1>1. q \in Nat /\ r \in 0..(F - 1) /\ n = F * q + r
    BY QuotientIs
<1>2. Q \in Nat /\ R \in 0..(F - 1) /\ m = F * Q + R
    BY QuotientIs
<1>3. F * q \in Nat /\ F * Q \in Nat /\ F * (q + 1) = F * q + F
    BY <1>1, <1>2
<1> HIDE DEF q, r, Q, R
<1>4. CASE r = F - 1
  <2>1. F * (q + 1) + 0 = F * Q + R
    BY <1>1, <1>2, <1>3, <1>4
  <2>2. q + 1 = Q /\ 0 = R
    BY <1>1, <1>2, <2>1, QuotientIsUnique
  <2> QED BY <1>4, <2>2 DEF q, r, Q, R
<1>5. CASE r # F - 1
  <2>1. F * q + (r + 1) = F * Q + R /\ r + 1 \in 0..(F - 1)
    BY <1>1, <1>2, <1>3, <1>5
  <2>2. q = Q /\ r + 1 = R
    BY <1>1, <1>2, <2>1, QuotientIsUnique
  <2> QED BY <1>5, <2>2 DEF q, r, Q, R
<1> QED BY <1>4, <1>5

\* A quotient does not shrink as the dividend grows ...
LEMMA QuotientGrows ==
    ASSUME NEW n \in Nat, NEW m \in Nat, NEW F \in Nat \ {0}, n <= m
    PROVE  n \div F <= m \div F
<1> DEFINE q == n \div F
           r == n % F
           Q == m \div F
           R == m % F
<1>1. q \in Nat /\ r \in 0..(F - 1) /\ n = F * q + r
    BY QuotientIs
<1>2. Q \in Nat /\ R \in 0..(F - 1) /\ m = F * Q + R
    BY QuotientIs
<1>3. F * q \in Nat /\ F * Q \in Nat
    BY <1>1, <1>2
<1> HIDE DEF q, r, Q, R
<1>4. ASSUME Q + 1 <= q PROVE FALSE
  <2>1. F * Q + F <= F * q
    BY <1>1, <1>2, <1>4, MultiplesApart
  <2> QED BY <1>1, <1>2, <1>3, <2>1
<1> QED BY <1>1, <1>2, <1>4 DEF q, Q

\* ... and is below M as long as the dividend is below M times the divisor.
LEMMA QuotientIsBelow ==
    ASSUME NEW n \in Nat, NEW M \in Nat, NEW F \in Nat \ {0}, n + 1 <= M * F
    PROVE  n \div F + 1 \in 1..M
<1> DEFINE q == n \div F
           r == n % F
<1>1. q \in Nat /\ r \in 0..(F - 1) /\ n = F * q + r
    BY QuotientIs
<1>2. F * q \in Nat /\ F * M \in Nat /\ M * F = F * M
    BY <1>1
<1> HIDE DEF q, r
<1>3. ASSUME M <= q PROVE FALSE
  <2>1. CASE M = q
    BY <1>1, <1>2, <2>1
  <2>2. CASE M + 1 <= q
    <3>1. F * M + F <= F * q
      BY <1>1, <2>2, MultiplesApart
    <3> QED BY <1>1, <1>2, <3>1
  <2> QED BY <1>1, <1>3, <2>1, <2>2
<1> QED BY <1>1, <1>3 DEF q

\* The camera sends packets, the last of a frame being followed by the first of the next.
LEMMA UvcNextPacketIs ==
    ASSUME Uvc!BeastAssumption, Uvc!TypeOK, Uvc!CanSend(1), sent' = sent + 1
    PROVE  /\ Uvc!NextPacket \in Uvc!Packet /\ Uvc!NextPacket.frame = Uvc!Current
           /\ Uvc!NextPacket.part = (sent % FrameLength) + 1
           /\ sent' \in 0..(MaxFrames * FrameLength)
           /\ Uvc!Current \in Nat /\ sent % FrameLength \in Nat
           /\ IF Uvc!NextPacket.part = FrameLength
              THEN Uvc!Current' = Uvc!Current + 1
              ELSE Uvc!Current' = Uvc!Current /\ sent' % FrameLength = (sent % FrameLength) + 1
<1>1. FrameLength \in Nat \ {0} /\ MaxFrames \in Nat /\ sent \in Nat
    BY DEF Uvc!BeastAssumption, Uvc!TypeOK
<1>2. MaxFrames * FrameLength \in Nat
    BY <1>1
<1>3. sent + 1 <= MaxFrames * FrameLength
    BY DEF Uvc!CanSend
<1>4. sent' \in 0..(MaxFrames * FrameLength) /\ sent' \in Nat
    BY <1>1, <1>2, <1>3
<1>5. sent \div FrameLength \in Nat /\ sent % FrameLength \in 0..(FrameLength - 1)
    BY <1>1, QuotientIs
<1>6. (sent \div FrameLength) + 1 \in 1..MaxFrames
    BY <1>1, <1>3, QuotientIsBelow
<1>7. IF sent % FrameLength = FrameLength - 1
      THEN sent' \div FrameLength = (sent \div FrameLength) + 1
      ELSE /\ sent' \div FrameLength = sent \div FrameLength
           /\ sent' % FrameLength = (sent % FrameLength) + 1
    BY <1>1, <1>4, QuotientOfNext
<1>8. /\ Uvc!NextPacket = [frame |-> (sent \div FrameLength) + 1, part |-> (sent % FrameLength) + 1]
      /\ Uvc!Current = (sent \div FrameLength) + 1 /\ Uvc!Current' = (sent' \div FrameLength) + 1
    BY DEF Uvc!NextPacket, Uvc!Current
<1>9. (sent % FrameLength) + 1 \in 1..FrameLength
    BY <1>1, <1>5
<1>10. Uvc!NextPacket \in Uvc!Packet
    BY <1>6, <1>8, <1>9 DEF Uvc!Packet
<1>11. Uvc!NextPacket.part = FrameLength <=> sent % FrameLength = FrameLength - 1
    BY <1>1, <1>5, <1>8
<1> QED BY <1>4, <1>5, <1>7, <1>8, <1>10, <1>11

\* Whatever the camera has sent, it goes on.
LEMMA UvcCurrentGrows ==
    ASSUME Uvc!BeastAssumption, sent \in Nat, sent' \in Nat, sent <= sent'
    PROVE  Uvc!Current \in Nat /\ Uvc!Current' \in Nat /\ Uvc!Current <= Uvc!Current'
<1>1. FrameLength \in Nat \ {0}
    BY DEF Uvc!BeastAssumption
<1>2. sent \div FrameLength \in Nat /\ sent' \div FrameLength \in Nat
    BY <1>1, QuotientIs
<1>3. sent \div FrameLength <= sent' \div FrameLength
    BY <1>1, QuotientGrows
<1>4. Uvc!Current = (sent \div FrameLength) + 1 /\ Uvc!Current' = (sent' \div FrameLength) + 1
    BY DEF Uvc!Current, Uvc!NextPacket
<1> QED BY <1>2, <1>3, <1>4
\* The packets that are ready and assembled have numbers.
LEMMA UvcPacketsAre ==
    ASSUME Uvc!TypeOK
    PROVE  /\ \A k \in DOMAIN frames : frames[k] \in Seq(Uvc!Packet)
           /\ \A k \in DOMAIN frames : frames[k] # <<>> => frames[k][1].frame \in Nat
           /\ \A i \in DOMAIN assembling :
                assembling[i] \in Uvc!Packet /\ assembling[i].frame \in Nat
           /\ taken \in Nat
<1>1. \A p \in Uvc!Packet : p.frame \in Nat
    BY DEF Uvc!Packet
<1>2. ASSUME NEW k \in DOMAIN frames
      PROVE  frames[k] \in Seq(Uvc!Packet) /\ (frames[k] # <<>> => frames[k][1].frame \in Nat)
  <2>1. frames[k] \in Seq(Uvc!Packet)
    BY DEF Uvc!TypeOK
  <2>2. ASSUME frames[k] # <<>> PROVE frames[k][1] \in Uvc!Packet
    BY <2>1, <2>2
  <2> QED BY <1>1, <2>1, <2>2
<1>3. ASSUME NEW i \in DOMAIN assembling
      PROVE  assembling[i] \in Uvc!Packet
    BY DEF Uvc!TypeOK
<1> QED BY <1>1, <1>2, <1>3 DEF Uvc!TypeOK

\* What is ready and assembled stays as it is while the camera goes on, if a loss
\* shows in frameError or is not seen, or nothing was sent.
LEMMA UvcFramesStay ==
    ASSUME Uvc!BeastAssumption, Uvc!UvcInv, Uvc!TypeOK', sent <= sent',
           UNCHANGED <<hasPts, pts, taken, frames>>,
           assembling' = assembling \/ assembling' = <<>>, silentLoss => silentLoss',
           silentLoss' \/ frameError' \/ assembling' = <<>>
             \/ UNCHANGED <<sent, frameError, assembling>>
    PROVE  /\ Len(frames') <= Uvc!QueueSize /\ Uvc!AssembledIsNewer' /\ Uvc!FramesAreNotMixed'
           /\ Uvc!AssembledIsCurrent' /\ Uvc!FramesAreWhole'
<1> USE DEF Uvc!UvcInv
<1>1. Uvc!Current \in Nat /\ Uvc!Current' \in Nat /\ Uvc!Current <= Uvc!Current'
    BY UvcCurrentGrows DEF Uvc!TypeOK
<1>2. /\ \A k \in DOMAIN frames : frames[k] # <<>> => frames[k][1].frame \in Nat
      /\ \A i \in DOMAIN assembling : assembling[i].frame \in Nat
      /\ taken \in Nat
    BY UvcPacketsAre
<1>3. Uvc!AssembledIsNewer'
  <2>1. taken' < Uvc!Current'
    BY <1>1, <1>2 DEF Uvc!AssembledIsNewer
  <2>2. \A k \in DOMAIN frames' : frames'[k] # <<>> /\ frames'[k][1].frame < Uvc!Current'
    BY <1>1, <1>2 DEF Uvc!AssembledIsNewer
  <2>3. ASSUME NEW i \in DOMAIN assembling'
        PROVE  /\ assembling'[i].part # FrameLength
               /\ assembling'[i].frame <= Uvc!Current' /\ taken' < assembling'[i].frame
               /\ hasPts' => assembling'[i].frame = pts'
               /\ \A k \in DOMAIN frames' : frames'[k][1].frame < assembling'[i].frame
    <3>1. assembling' = assembling
      BY <2>3
    <3> QED BY <1>1, <1>2, <2>3, <3>1 DEF Uvc!AssembledIsNewer
  <2> HIDE DEF Uvc!UvcInv
  <2> QED BY <2>1, <2>2, <2>3 DEF Uvc!AssembledIsNewer
<1>4. Uvc!FramesAreNotMixed' /\ Uvc!FramesAreWhole'
    BY DEF Uvc!FramesAreNotMixed, Uvc!FramesAreWhole
<1>5. Uvc!AssembledIsCurrent'
  <2>1. CASE silentLoss' \/ frameError' \/ assembling' = <<>>
    BY <2>1 DEF Uvc!AssembledIsCurrent
  <2>2. CASE UNCHANGED <<sent, frameError, assembling>>
    BY <2>2 DEF Uvc!AssembledIsCurrent, Uvc!Current, Uvc!NextPacket
  <2> QED BY <2>1, <2>2
<1> QED BY <1>3, <1>4, <1>5

\* start() gives back what it has taken when a step fails; its frames are none.
LEMMA UvcStartStep ==
    ASSUME Uvc!BeastAssumption, Uvc!UvcInv,
           \/ Uvc!InitContext \/ Uvc!WrapSysDevice \/ Uvc!ClaimInterface
           \/ Uvc!FindFormat \/ Uvc!Probe \/ Uvc!SelectAlt \/ Uvc!Commit
           \/ Uvc!SubmitOne \/ Uvc!Started \/ Uvc!StartFails
    PROVE  Uvc!UvcInv'
<1> USE DEF Uvc!UvcInv
<1>1. /\ UNCHANGED <<Uvc!cameraVars, left, Uvc!frameVars, Uvc!readVars, Uvc!stopVars, silentLoss>>
      /\ start \in Uvc!Steps
      /\ start' \in Uvc!Steps \cup {"running", "failed"}
      /\ acquired' \subseteq acquired \cup {"context", "handle", "claim", "ring"}
      /\ uvcRunning' \in BOOLEAN /\ event' = IF start' = "running" THEN "poll" ELSE event
    BY DEF Uvc!InitContext, Uvc!WrapSysDevice, Uvc!ClaimInterface, Uvc!FindFormat, Uvc!Probe,
           Uvc!SelectAlt, Uvc!Commit, Uvc!Acquire, Uvc!Negotiate, Uvc!SubmitOne, Uvc!Started,
           Uvc!StartFails, Uvc!Steps, Uvc!ringVars, Uvc!TypeOK
<1>2. inFlight' \in 0..Transfers
    BY DEF Uvc!InitContext, Uvc!WrapSysDevice, Uvc!ClaimInterface, Uvc!FindFormat, Uvc!Probe,
           Uvc!SelectAlt, Uvc!Commit, Uvc!Acquire, Uvc!Negotiate, Uvc!SubmitOne, Uvc!Started,
           Uvc!StartFails, Uvc!Steps, Uvc!ringVars, Uvc!TypeOK, Uvc!BeastAssumption
<1>3. Uvc!TypeOK'
    BY <1>1, <1>2 DEF Uvc!TypeOK, Uvc!cameraVars, Uvc!frameVars, Uvc!readVars, Uvc!stopVars
<1>4. Uvc!HeldIsGivenBack'
    BY DEF Uvc!HeldIsGivenBack, Uvc!GivenBack, Uvc!InitContext, Uvc!WrapSysDevice,
           Uvc!ClaimInterface, Uvc!FindFormat, Uvc!Probe, Uvc!SelectAlt, Uvc!Commit,
           Uvc!Acquire, Uvc!Negotiate, Uvc!SubmitOne, Uvc!Started, Uvc!StartFails, Uvc!Steps
<1>5. Uvc!RingIsStarted'
    BY <1>1 DEF Uvc!RingIsStarted, Uvc!Steps
<1>6. /\ sent \in Nat /\ sent <= sent'
    BY <1>1 DEF Uvc!TypeOK, Uvc!cameraVars, Uvc!BeastAssumption
<1>7. /\ Len(frames') <= Uvc!QueueSize /\ Uvc!AssembledIsNewer' /\ Uvc!FramesAreNotMixed'
      /\ Uvc!AssembledIsCurrent' /\ Uvc!FramesAreWhole'
    BY <1>1, <1>3, <1>6, UvcFramesStay DEF Uvc!cameraVars, Uvc!frameVars, Uvc!readVars
<1> QED BY <1>3, <1>4, <1>5, <1>7

\* A packet that is lost, damaged, senseless or not there ends no frame.
LEMMA UvcOtherPacketStep ==
    ASSUME Uvc!BeastAssumption, Uvc!UvcInv,
           Uvc!EmptyPacket \/ Uvc!LostPacket \/ Uvc!ErrorPacket \/ Uvc!MalformedPacket
    PROVE  Uvc!UvcInv'
<1> USE DEF Uvc!UvcInv
<1>1. /\ UNCHANGED <<Uvc!startVars, hasPts, uvcRunning, inFlight, event, fid, pts, frames>>
      /\ UNCHANGED <<Uvc!readVars, Uvc!stopVars>>
      /\ left' = left - 1 /\ left > 0
      /\ sent' = sent \/ (sent' = sent + 1 /\ Uvc!CanSend(1))
      /\ assembling' = assembling \/ assembling' = <<>>
      /\ silentLoss => silentLoss'
      /\ silentLoss' \in BOOLEAN /\ frameError' \in BOOLEAN
      /\ silentLoss' \/ frameError' \/ UNCHANGED <<sent, frameError, assembling>>
  <2>1. CASE Uvc!EmptyPacket
    BY <2>1 DEF Uvc!EmptyPacket, Uvc!Took, Uvc!CallbackRest, Uvc!frameVars, Uvc!TypeOK
  <2>2. CASE Uvc!LostPacket
    BY <2>2 DEF Uvc!LostPacket, Uvc!Took, Uvc!CallbackRest, Uvc!TypeOK
  <2>3. CASE Uvc!ErrorPacket
    BY <2>3 DEF Uvc!ErrorPacket, Uvc!Took, Uvc!CallbackRest, Uvc!TypeOK
  <2>4. CASE Uvc!MalformedPacket
    BY <2>4 DEF Uvc!MalformedPacket, Uvc!Took, Uvc!CallbackRest, Uvc!frameVars, Uvc!TypeOK
  <2> QED BY <2>1, <2>2, <2>3, <2>4
<1>2. sent' \in 0..(MaxFrames * FrameLength) /\ sent <= sent'
    BY <1>1, UvcNextPacketIs DEF Uvc!TypeOK
<1>3. Uvc!TypeOK'
  <2>1. left' \in 0..PacketsPerTransfer
    BY <1>1 DEF Uvc!TypeOK, Uvc!BeastAssumption
  <2>2. assembling' \in Seq(Uvc!Packet)
    <3>1. <<>> \in Seq(Uvc!Packet) /\ assembling \in Seq(Uvc!Packet)
      BY DEF Uvc!TypeOK
    <3> QED BY <1>1, <3>1
  <2> QED BY <1>1, <1>2, <2>1, <2>2 DEF Uvc!TypeOK, Uvc!startVars, Uvc!readVars, Uvc!stopVars
<1>4. Uvc!HeldIsGivenBack' /\ Uvc!RingIsStarted'
    BY <1>1 DEF Uvc!HeldIsGivenBack, Uvc!RingIsStarted, Uvc!startVars
<1>5. /\ Len(frames') <= Uvc!QueueSize /\ Uvc!AssembledIsNewer' /\ Uvc!FramesAreNotMixed'
      /\ Uvc!AssembledIsCurrent' /\ Uvc!FramesAreWhole'
    BY <1>1, <1>2, <1>3, UvcFramesStay DEF Uvc!readVars
<1> QED BY <1>3, <1>4, <1>5

\* Transfers come and go; what a failed one carried is lost unseen.
LEMMA UvcTransferStep ==
    ASSUME Uvc!BeastAssumption, Uvc!UvcInv,
           \/ Uvc!TransferCompletes \/ Uvc!TransferFails
           \/ Uvc!PacketsDone \/ Uvc!Resubmit \/ Uvc!EventsEnd
    PROVE  Uvc!UvcInv'
<1> USE DEF Uvc!UvcInv
<1>1. /\ UNCHANGED <<Uvc!startVars, hasPts, uvcRunning, Uvc!frameVars, Uvc!readVars, Uvc!stopVars>>
      /\ event # "none" /\ event' \in {"poll", "packets", "resubmit", "ended"}
      /\ silentLoss => silentLoss'
      /\ silentLoss' \in BOOLEAN
    BY DEF Uvc!TransferCompletes, Uvc!TransferFails, Uvc!PacketsDone, Uvc!Resubmit,
           Uvc!EventsEnd, Uvc!CallbackRest, Uvc!TypeOK
<1>2. /\ inFlight' \in 0..Transfers /\ left' \in 0..PacketsPerTransfer
      /\ event' \in {"packets", "resubmit"} => inFlight' < Transfers
    BY DEF Uvc!TransferCompletes, Uvc!TransferFails, Uvc!PacketsDone, Uvc!Resubmit,
           Uvc!EventsEnd, Uvc!TypeOK, Uvc!RingIsStarted, Uvc!BeastAssumption
<1>3. /\ sent' \in 0..(MaxFrames * FrameLength) /\ sent <= sent'
      /\ silentLoss' \/ UNCHANGED sent
  <2>1. CASE Uvc!TransferFails
    <3>1. PICK n \in 0..PacketsPerTransfer :
             Uvc!CanSend(n) /\ sent' = sent + n /\ silentLoss' = (silentLoss \/ n > 0)
      BY <2>1 DEF Uvc!TransferFails
    <3>2. n \in Nat /\ sent \in Nat /\ MaxFrames * FrameLength \in Nat
      BY DEF Uvc!BeastAssumption, Uvc!TypeOK
    <3>3. CASE n = 0
      BY <3>1, <3>2, <3>3 DEF Uvc!TypeOK
    <3>4. CASE n > 0
      <4>1. silentLoss'
        BY <3>1, <3>4
      <4>2. sent' \in 0..(MaxFrames * FrameLength) /\ sent <= sent'
        BY <3>1, <3>2 DEF Uvc!CanSend
      <4> QED BY <4>1, <4>2
    <3> QED BY <3>2, <3>3, <3>4
  <2>2. CASE Uvc!TransferCompletes \/ Uvc!PacketsDone \/ Uvc!Resubmit \/ Uvc!EventsEnd
    BY <2>2
       DEF Uvc!TransferCompletes, Uvc!PacketsDone, Uvc!Resubmit, Uvc!EventsEnd, Uvc!TypeOK,
           Uvc!BeastAssumption
  <2> QED BY <2>1, <2>2
<1>4. Uvc!TypeOK'
    BY <1>1, <1>2, <1>3 DEF Uvc!TypeOK, Uvc!startVars, Uvc!frameVars, Uvc!readVars, Uvc!stopVars
<1>5. Uvc!HeldIsGivenBack' /\ Uvc!RingIsStarted'
    BY <1>1, <1>2 DEF Uvc!HeldIsGivenBack, Uvc!RingIsStarted, Uvc!startVars
<1>6. /\ Len(frames') <= Uvc!QueueSize /\ Uvc!AssembledIsNewer' /\ Uvc!FramesAreNotMixed'
      /\ Uvc!AssembledIsCurrent' /\ Uvc!FramesAreWhole'
    BY <1>1, <1>3, <1>4, UvcFramesStay DEF Uvc!frameVars, Uvc!readVars
<1> QED BY <1>4, <1>5, <1>6

\* readJpegFrame() begins, and stop() waits for the events to end.
LEMMA UvcStopStep ==
    ASSUME Uvc!BeastAssumption, Uvc!UvcInv,
           Uvc!ReadBegins \/ Uvc!StopBegins \/ Uvc!StopJoins \/ Uvc!StopFrees
    PROVE  Uvc!UvcInv'
<1> USE DEF Uvc!UvcInv
<1>1. /\ UNCHANGED <<start, Uvc!cameraVars, event, left, Uvc!frameVars, taken, silentLoss>>
      /\ acquired' \in {acquired, {}}
      /\ uvcRunning' \in {uvcRunning, FALSE}
      /\ inFlight' \in {inFlight, 0}
      /\ frameReader' \in {"idle", "inside"} /\ closed' \in BOOLEAN
      /\ stop' \in {"none", "join", "free", "freed"}
      /\ inFlight' # inFlight => event = "ended"
    BY DEF Uvc!ReadBegins, Uvc!StopBegins, Uvc!StopJoins, Uvc!StopFrees, Uvc!startVars,
           Uvc!ringVars, Uvc!readVars, Uvc!stopVars, Uvc!TypeOK
<1>2. Uvc!TypeOK'
  <2>1. inFlight' \in 0..Transfers
    <3>1. 0 \in 0..Transfers /\ inFlight \in 0..Transfers
      BY DEF Uvc!TypeOK, Uvc!BeastAssumption
    <3> QED BY <1>1, <3>1
  <2>2. uvcRunning' \in BOOLEAN
    BY <1>1 DEF Uvc!TypeOK
  <2>3. acquired' \subseteq {"context", "handle", "claim", "ring"}
    BY <1>1 DEF Uvc!TypeOK
  <2> QED BY <1>1, <2>1, <2>2, <2>3 DEF Uvc!TypeOK, Uvc!cameraVars, Uvc!frameVars
<1>3. Uvc!HeldIsGivenBack' /\ Uvc!RingIsStarted'
    BY <1>1 DEF Uvc!HeldIsGivenBack, Uvc!RingIsStarted
<1>4. sent <= sent'
    BY <1>1 DEF Uvc!TypeOK, Uvc!cameraVars, Uvc!BeastAssumption
<1>5. /\ Len(frames') <= Uvc!QueueSize /\ Uvc!AssembledIsNewer' /\ Uvc!FramesAreNotMixed'
      /\ Uvc!AssembledIsCurrent' /\ Uvc!FramesAreWhole'
    BY <1>1, <1>2, <1>4, UvcFramesStay DEF Uvc!cameraVars, Uvc!frameVars
<1> QED BY <1>2, <1>3, <1>5

\* What consumePayload() keeps at a packet, whether it is damaged, and what it has with
\* the packet.
UvcKept == IF Uvc!Boundary(Uvc!NextPacket) THEN <<>> ELSE assembling
UvcDamaged == frameError /\ ~Uvc!Boundary(Uvc!NextPacket)
UvcData == IF Len(UvcKept) < Capacity THEN Append(UvcKept, Uvc!NextPacket) ELSE UvcKept

\* A packet of another frame is a boundary if the camera stamps its packets: what is
\* kept has no end mark and is of the packet's frame.
LEMMA UvcKeptIs ==
    ASSUME Uvc!BeastAssumption, Uvc!UvcInv, Uvc!CanSend(1), sent' = sent + 1
    PROVE  /\ UvcKept \in Seq(Uvc!Packet)
           /\ \A i \in DOMAIN UvcKept :
                /\ UvcKept[i] = assembling[i] /\ i \in DOMAIN assembling
                /\ hasPts => assembling[i].frame = Uvc!Current
           /\ ~UvcDamaged /\ UvcKept # <<>> => ~frameError /\ UvcKept = assembling
<1> USE DEF Uvc!UvcInv
<1>1. Uvc!NextPacket.frame = Uvc!Current /\ assembling \in Seq(Uvc!Packet)
    BY UvcNextPacketIs DEF Uvc!TypeOK
<1>2. CASE Uvc!Boundary(Uvc!NextPacket)
    BY <1>2 DEF UvcKept
<1>3. CASE ~Uvc!Boundary(Uvc!NextPacket)
  <2>1. UvcKept = assembling /\ UvcDamaged = frameError
    BY <1>3 DEF UvcKept, UvcDamaged, Uvc!TypeOK
  <2>2. ASSUME NEW i \in DOMAIN assembling, hasPts PROVE assembling[i].frame = Uvc!Current
    <3>1. assembling[i].frame = pts /\ assembling[i] \in Uvc!Packet
      BY <1>1, <2>2 DEF Uvc!AssembledIsNewer
    <3>2. pts # 0
      BY <3>1 DEF Uvc!Packet
    <3> QED BY <1>1, <1>3, <2>2, <3>1, <3>2 DEF Uvc!Boundary
  <2> QED BY <1>1, <2>1, <2>2
<1> QED BY <1>2, <1>3

\* With the packet it is of the frames up to the current one, and has an end mark
\* only if that is the packet's.
LEMMA UvcDataIs ==
    ASSUME Uvc!BeastAssumption, Uvc!UvcInv, Uvc!CanSend(1), sent' = sent + 1
    PROVE  /\ UvcData \in Seq(Uvc!Packet) /\ UvcData # <<>>
           /\ \A i \in DOMAIN UvcData :
                /\ UvcData[i].frame <= Uvc!Current /\ taken < UvcData[i].frame
                /\ hasPts => UvcData[i].frame = Uvc!Current
                /\ \A k \in DOMAIN frames : frames[k][1].frame < UvcData[i].frame
                /\ UvcData[i].part = FrameLength =>
                     /\ UvcData[i] = Uvc!NextPacket /\ i = Len(UvcData)
                     /\ UvcData = Append(UvcKept, Uvc!NextPacket)
           /\ ~silentLoss /\ ~UvcDamaged /\ UvcData[1].part = 1 =>
                /\ Len(UvcData) = (sent % FrameLength) + 1 \/ Len(UvcData) >= Capacity
                /\ \A i \in DOMAIN UvcData : UvcData[i] = [frame |-> Uvc!Current, part |-> i]
<1> USE DEF Uvc!UvcInv
<1>1. /\ Uvc!NextPacket \in Uvc!Packet /\ Uvc!NextPacket.frame = Uvc!Current /\ Uvc!Current \in Nat
      /\ Uvc!NextPacket.part = (sent % FrameLength) + 1 /\ sent % FrameLength \in Nat
    BY UvcNextPacketIs
<1>2. Uvc!NextPacket = [frame |-> Uvc!Current, part |-> (sent % FrameLength) + 1]
    BY <1>1 DEF Uvc!Packet
<1>3. /\ UvcKept \in Seq(Uvc!Packet)
      /\ \A i \in DOMAIN UvcKept :
           /\ UvcKept[i] = assembling[i] /\ i \in DOMAIN assembling
           /\ hasPts => assembling[i].frame = Uvc!Current
      /\ ~UvcDamaged /\ UvcKept # <<>> => ~frameError /\ UvcKept = assembling
    BY UvcKeptIs
<1>4. /\ taken < Uvc!Current /\ \A k \in DOMAIN frames : frames[k][1].frame < Uvc!Current
      /\ \A i \in DOMAIN assembling :
           /\ assembling[i].part # FrameLength
           /\ assembling[i].frame <= Uvc!Current /\ taken < assembling[i].frame
           /\ \A k \in DOMAIN frames : frames[k][1].frame < assembling[i].frame
    BY DEF Uvc!AssembledIsNewer
<1>5. Capacity \in Nat \ {0}
    BY DEF Uvc!BeastAssumption
<1>6. CASE Len(UvcKept) < Capacity
  <2>1. UvcData = Append(UvcKept, Uvc!NextPacket)
    BY <1>6 DEF UvcData
  <2>2. /\ UvcData \in Seq(Uvc!Packet) /\ Len(UvcData) = Len(UvcKept) + 1 /\ Len(UvcKept) \in Nat
        /\ DOMAIN UvcData = 1..(Len(UvcKept) + 1) /\ DOMAIN UvcKept = 1..Len(UvcKept)
        /\ \A i \in 1..Len(UvcKept) : UvcData[i] = UvcKept[i]
        /\ UvcData[Len(UvcKept) + 1] = Uvc!NextPacket
    BY <1>1, <1>3, <2>1
  <2>3. ASSUME NEW i \in DOMAIN UvcData
        PROVE  /\ UvcData[i].frame <= Uvc!Current /\ taken < UvcData[i].frame
               /\ hasPts => UvcData[i].frame = Uvc!Current
               /\ \A k \in DOMAIN frames : frames[k][1].frame < UvcData[i].frame
               /\ UvcData[i].part = FrameLength =>
                    /\ UvcData[i] = Uvc!NextPacket /\ i = Len(UvcData)
                    /\ UvcData = Append(UvcKept, Uvc!NextPacket)
    <3>1. CASE i \in 1..Len(UvcKept)
      BY <1>3, <1>4, <2>2, <3>1
    <3>2. CASE i = Len(UvcKept) + 1
      BY <1>1, <1>4, <2>1, <2>2, <3>2
    <3> QED BY <2>2, <3>1, <3>2
  <2>4. ASSUME ~silentLoss, ~UvcDamaged, UvcData[1].part = 1
        PROVE  /\ Len(UvcData) = (sent % FrameLength) + 1 \/ Len(UvcData) >= Capacity
               /\ \A i \in DOMAIN UvcData : UvcData[i] = [frame |-> Uvc!Current, part |-> i]
    <3>1. CASE UvcKept = <<>>
      <4>1. Len(UvcKept) = 0
        BY <3>1
      <4>2. sent % FrameLength = 0
        BY <1>1, <2>2, <2>4, <4>1
      <4>3. Len(UvcData) = 1 /\ DOMAIN UvcData = {1} /\ UvcData[1] = Uvc!NextPacket
        BY <2>2, <4>1
      <4> QED BY <1>2, <4>2, <4>3
    <3>2. CASE UvcKept # <<>>
      <4>1. UvcKept = assembling /\ ~frameError /\ Len(UvcKept) # 0
        BY <1>3, <2>4, <3>2
      <4>2. assembling[1].part = 1
        BY <2>2, <2>4, <4>1
      <4>3. /\ Len(assembling) = sent % FrameLength \/ Len(assembling) >= Capacity
            /\ \A i \in DOMAIN assembling : assembling[i] = [frame |-> Uvc!Current, part |-> i]
        BY <2>4, <3>2, <4>1, <4>2 DEF Uvc!AssembledIsCurrent
      <4>4. Len(UvcKept) = sent % FrameLength
        BY <1>5, <1>6, <2>2, <4>1, <4>3
      <4>5. ASSUME NEW i \in DOMAIN UvcData PROVE UvcData[i] = [frame |-> Uvc!Current, part |-> i]
        <5>1. CASE i \in 1..Len(UvcKept)
          BY <2>2, <4>1, <4>3, <5>1
        <5>2. CASE i = Len(UvcKept) + 1
          BY <1>2, <2>2, <4>4, <5>2
        <5> QED BY <2>2, <5>1, <5>2
      <4> QED BY <2>2, <4>4, <4>5
    <3> QED BY <3>1, <3>2
  <2>5. UvcData # <<>>
    BY <2>2
  <2> QED BY <2>2, <2>3, <2>4, <2>5
<1>7. CASE Len(UvcKept) >= Capacity
  <2>1. UvcData = UvcKept /\ Len(UvcKept) \in Nat
    BY <1>3, <1>5, <1>7 DEF UvcData
  <2>2. UvcKept # <<>>
    BY <1>3, <1>5, <1>7
  <2>3. ASSUME ~silentLoss, ~UvcDamaged, UvcData[1].part = 1
        PROVE  \A i \in DOMAIN UvcData : UvcData[i] = [frame |-> Uvc!Current, part |-> i]
    <3>1. UvcKept = assembling /\ ~frameError
      BY <1>3, <2>2, <2>3
    <3> QED BY <2>1, <2>2, <2>3, <3>1 DEF Uvc!AssembledIsCurrent
  <2>4. ASSUME NEW i \in DOMAIN UvcData
        PROVE  /\ UvcData[i].frame <= Uvc!Current /\ taken < UvcData[i].frame
               /\ hasPts => UvcData[i].frame = Uvc!Current
               /\ \A k \in DOMAIN frames : frames[k][1].frame < UvcData[i].frame
               /\ UvcData[i].part # FrameLength
    BY <1>1, <1>3, <1>4, <2>1, <2>4
  <2> QED BY <1>3, <1>7, <2>1, <2>2, <2>3, <2>4
<1> QED BY <1>3, <1>5, <1>6, <1>7

\* A frame that is complete is cut behind the packet, so it is what was assembled.
LEMMA UvcTrimmedIs ==
    ASSUME Uvc!BeastAssumption, Uvc!UvcInv, Uvc!CanSend(1), sent' = sent + 1,
           Uvc!EndMarks(UvcData) # {}
    PROVE  Uvc!Trimmed(UvcData) = UvcData
<1>1. /\ UvcData \in Seq(Uvc!Packet) /\ UvcData # <<>>
      /\ \A i \in DOMAIN UvcData : UvcData[i].part = FrameLength => i = Len(UvcData)
    BY UvcDataIs
<1>2. Uvc!EndMarks(UvcData) = {Len(UvcData)}
    BY <1>1 DEF Uvc!EndMarks
<1>3. Uvc!Trimmed(UvcData) = SubSeq(UvcData, 1, Len(UvcData))
    BY <1>2 DEF Uvc!Trimmed
<1> QED BY <1>1, <1>3

\* The queue makes room for one frame.
LEMMA UvcRoomIs ==
    ASSUME Uvc!TypeOK, Len(frames) <= Uvc!QueueSize
    PROVE  /\ Uvc!Room \in Seq(Seq(Uvc!Packet)) /\ Len(Uvc!Room) <= 1
           /\ \A k \in DOMAIN Uvc!Room : \E j \in DOMAIN frames : Uvc!Room[k] = frames[j]
<1>1. frames \in Seq(Seq(Uvc!Packet)) /\ Len(frames) \in Nat /\ Len(frames) <= 2
    BY DEF Uvc!TypeOK, Uvc!QueueSize
<1>2. CASE Len(frames) >= 2
  <2>1. Uvc!Room = Tail(frames)
    BY <1>2 DEF Uvc!Room, Uvc!QueueSize
  <2>2. frames # <<>>
    BY <1>1, <1>2
  <2>3. /\ Tail(frames) \in Seq(Seq(Uvc!Packet)) /\ Len(Tail(frames)) = Len(frames) - 1
        /\ \A k \in 1..(Len(frames) - 1) : Tail(frames)[k] = frames[k + 1]
    BY <1>1, <2>2
  <2>4. ASSUME NEW k \in DOMAIN Uvc!Room PROVE \E j \in DOMAIN frames : Uvc!Room[k] = frames[j]
    <3>1. k \in 1..(Len(frames) - 1) /\ k + 1 \in DOMAIN frames
      BY <1>1, <2>1, <2>3, <2>4
    <3> QED BY <2>1, <2>3, <3>1
  <2> QED BY <1>1, <2>1, <2>3, <2>4
<1>3. CASE Len(frames) < 2
  <2>1. Uvc!Room = frames
    BY <1>1, <1>3 DEF Uvc!Room, Uvc!QueueSize
  <2> QED BY <1>1, <1>3, <2>1
<1> QED BY <1>1, <1>2, <1>3

\* A frame that is ready is of later packets than those ready before, and whole
\* unless a loss was not seen.
LEMMA UvcReadyStep ==
    ASSUME Uvc!BeastAssumption, Uvc!UvcInv, Uvc!TypeOK', Uvc!CanSend(1), sent' = sent + 1,
           Uvc!NextPacket.part = FrameLength, Uvc!Complete(UvcData, UvcDamaged),
           frames' = Append(Uvc!Room, UvcData), assembling' = <<>>,
           UNCHANGED <<hasPts, taken, silentLoss>>
    PROVE  /\ Len(frames') <= Uvc!QueueSize /\ Uvc!AssembledIsNewer' /\ Uvc!FramesAreNotMixed'
           /\ Uvc!AssembledIsCurrent' /\ Uvc!FramesAreWhole'
<1> USE DEF Uvc!UvcInv
<1>1. /\ Uvc!Current \in Nat /\ Uvc!Current' = Uvc!Current + 1
      /\ FrameLength \in Nat \ {0}
    BY UvcNextPacketIs DEF Uvc!BeastAssumption
<1>2. /\ UvcData \in Seq(Uvc!Packet) /\ UvcData # <<>>
      /\ \A i \in DOMAIN UvcData :
           /\ UvcData[i].frame <= Uvc!Current /\ taken < UvcData[i].frame
           /\ hasPts => UvcData[i].frame = Uvc!Current
           /\ \A k \in DOMAIN frames : frames[k][1].frame < UvcData[i].frame
           /\ UvcData[i].part = FrameLength => i = Len(UvcData)
      /\ ~silentLoss /\ ~UvcDamaged /\ UvcData[1].part = 1 =>
           \A i \in DOMAIN UvcData : UvcData[i] = [frame |-> Uvc!Current, part |-> i]
    BY UvcDataIs
<1>3. /\ Uvc!Room \in Seq(Seq(Uvc!Packet)) /\ Len(Uvc!Room) <= 1
      /\ \A k \in DOMAIN Uvc!Room : \E j \in DOMAIN frames : Uvc!Room[k] = frames[j]
    BY UvcRoomIs
<1>4. /\ Len(frames') = Len(Uvc!Room) + 1 /\ Len(Uvc!Room) \in Nat
      /\ DOMAIN frames' = 1..(Len(Uvc!Room) + 1)
      /\ \A k \in 1..Len(Uvc!Room) : frames'[k] = Uvc!Room[k]
      /\ frames'[Len(Uvc!Room) + 1] = UvcData
    BY <1>2, <1>3
<1>5. /\ 1 \in DOMAIN UvcData /\ UvcData[1].frame \in Nat
      /\ \A k \in DOMAIN frames : frames[k] # <<>> => frames[k][1].frame \in Nat
      /\ taken \in Nat
  <2>1. 1 \in DOMAIN UvcData /\ UvcData[1] \in Uvc!Packet
    BY <1>2
  <2> QED BY <2>1, UvcPacketsAre DEF Uvc!Packet
<1>6. ASSUME NEW k \in DOMAIN frames'
      PROVE  \/ k \in 1..Len(Uvc!Room) /\ \E j \in DOMAIN frames : frames'[k] = frames[j]
             \/ k = Len(Uvc!Room) + 1 /\ frames'[k] = UvcData
  <2>1. k \in 1..Len(Uvc!Room) \/ k = Len(Uvc!Room) + 1
    BY <1>4
  <2>2. DOMAIN Uvc!Room = 1..Len(Uvc!Room)
    BY <1>3
  <2> QED BY <1>3, <1>4, <2>1, <2>2
<1>7. Len(frames') <= Uvc!QueueSize
    BY <1>3, <1>4 DEF Uvc!QueueSize
<1>8. Uvc!AssembledIsNewer'
  <2>1. taken' < Uvc!Current'
    BY <1>1, <1>5 DEF Uvc!AssembledIsNewer
  <2>2. ASSUME NEW k \in DOMAIN frames'
        PROVE  frames'[k] # <<>> /\ frames'[k][1].frame < Uvc!Current'
    <3>1. ASSUME NEW j \in DOMAIN frames, frames'[k] = frames[j]
          PROVE  frames'[k] # <<>> /\ frames'[k][1].frame < Uvc!Current'
      BY <1>1, <1>5, <3>1 DEF Uvc!AssembledIsNewer
    <3>2. ASSUME frames'[k] = UvcData
          PROVE  frames'[k] # <<>> /\ frames'[k][1].frame < Uvc!Current'
      BY <1>1, <1>2, <1>5, <3>2
    <3> QED BY <1>6, <2>2, <3>1, <3>2
  <2>3. DOMAIN assembling' = {}
    OBVIOUS
  <2> HIDE DEF Uvc!UvcInv
  <2> QED BY <2>1, <2>2, <2>3 DEF Uvc!AssembledIsNewer
<1>9. Uvc!FramesAreNotMixed'
  <2>1. ASSUME NEW k \in DOMAIN frames'
        PROVE  /\ \A i \in DOMAIN frames'[k] :
                    hasPts' => frames'[k][i].frame = frames'[k][1].frame
               /\ taken' < frames'[k][1].frame
    <3>1. ASSUME NEW j \in DOMAIN frames, frames'[k] = frames[j]
          PROVE  /\ \A i \in DOMAIN frames'[k] :
                      hasPts' => frames'[k][i].frame = frames'[k][1].frame
                 /\ taken' < frames'[k][1].frame
      BY <3>1 DEF Uvc!FramesAreNotMixed
    <3>2. ASSUME frames'[k] = UvcData
          PROVE  /\ \A i \in DOMAIN frames'[k] :
                      hasPts' => frames'[k][i].frame = frames'[k][1].frame
                 /\ taken' < frames'[k][1].frame
      BY <1>2, <1>5, <3>2
    <3> QED BY <1>6, <2>1, <3>1, <3>2
  <2>2. ASSUME Len(frames') = 2 PROVE frames'[1][1].frame < frames'[2][1].frame
    <3>1. Len(Uvc!Room) + 1 = 2
      BY <1>4, <2>2
    <3>2. 1 \in DOMAIN frames' /\ 1 # Len(Uvc!Room) + 1 /\ frames'[2] = UvcData
      BY <1>4, <3>1
    <3>3. PICK j \in DOMAIN frames : frames'[1] = frames[j]
      BY <1>6, <3>2
    <3> QED BY <1>2, <1>5, <3>2, <3>3
  <2> HIDE DEF Uvc!UvcInv
  <2> QED BY <2>1, <2>2 DEF Uvc!FramesAreNotMixed
<1>10. Uvc!FramesAreWhole'
  <2> SUFFICES ASSUME ~silentLoss, NEW k \in DOMAIN frames'
               PROVE  frames'[k] = [i \in 1..FrameLength |->
                                      [frame |-> frames'[k][1].frame, part |-> i]]
    BY DEF Uvc!FramesAreWhole
  <2>1. ASSUME NEW j \in DOMAIN frames, frames'[k] = frames[j]
        PROVE  frames'[k] = [i \in 1..FrameLength |-> [frame |-> frames'[k][1].frame, part |-> i]]
    BY <2>1 DEF Uvc!FramesAreWhole
  <2>2. ASSUME frames'[k] = UvcData
        PROVE  frames'[k] = [i \in 1..FrameLength |-> [frame |-> frames'[k][1].frame, part |-> i]]
    <3>1. /\ ~UvcDamaged /\ UvcData[1].part = 1
          /\ \E i \in DOMAIN UvcData : UvcData[i].part = FrameLength
      BY DEF Uvc!Complete, Uvc!EndMarks
    <3>2. \A i \in DOMAIN UvcData : UvcData[i] = [frame |-> Uvc!Current, part |-> i]
      BY <1>2, <3>1
    <3>3. Len(UvcData) = FrameLength
      BY <1>2, <3>1, <3>2
    <3>4. DOMAIN UvcData = 1..FrameLength
      BY <1>2, <3>3
    <3>5. UvcData[1].frame = Uvc!Current
      BY <1>5, <3>2
    <3>6. UvcData = [i \in DOMAIN UvcData |-> UvcData[i]]
      BY <1>2
    <3> QED BY <2>2, <3>2, <3>4, <3>5, <3>6
  <2> QED BY <1>6, <2>1, <2>2
<1>11. Uvc!AssembledIsCurrent'
    BY DEF Uvc!AssembledIsCurrent
<1> QED BY <1>7, <1>8, <1>9, <1>10, <1>11

\* A good packet ends its frame with EOF, and is assembled without.
LEMMA UvcGoodPacketStep ==
    ASSUME Uvc!BeastAssumption, Uvc!UvcInv, Uvc!GoodPacket
    PROVE  Uvc!UvcInv'
<1> USE DEF Uvc!UvcInv
<1>1. /\ event = "packets" /\ left > 0 /\ Uvc!CanSend(1) /\ sent' = sent + 1 /\ left' = left - 1
      /\ UNCHANGED <<Uvc!startVars, hasPts, uvcRunning, inFlight, event>>
      /\ UNCHANGED <<Uvc!readVars, Uvc!stopVars, silentLoss>>
      /\ fid' = Uvc!NextPacket.frame % 2 /\ pts' = IF hasPts THEN Uvc!NextPacket.frame ELSE pts
      /\ IF Uvc!NextPacket.part = FrameLength
         THEN Uvc!FinishFrame(UvcData, UvcDamaged)
         ELSE assembling' = UvcData /\ frameError' = UvcDamaged /\ UNCHANGED frames
    BY DEF Uvc!GoodPacket, Uvc!ConsumePayload, Uvc!Took, Uvc!CallbackRest, UvcKept, UvcDamaged,
           UvcData
<1>2. /\ Uvc!NextPacket \in Uvc!Packet /\ Uvc!NextPacket.frame = Uvc!Current
      /\ Uvc!NextPacket.part = (sent % FrameLength) + 1
      /\ sent' \in 0..(MaxFrames * FrameLength)
      /\ Uvc!Current \in Nat /\ sent % FrameLength \in Nat
      /\ IF Uvc!NextPacket.part = FrameLength
         THEN Uvc!Current' = Uvc!Current + 1
         ELSE Uvc!Current' = Uvc!Current /\ sent' % FrameLength = (sent % FrameLength) + 1
    BY <1>1, UvcNextPacketIs
<1>3. /\ UvcData \in Seq(Uvc!Packet) /\ UvcData # <<>>
      /\ \A i \in DOMAIN UvcData :
           /\ UvcData[i].frame <= Uvc!Current /\ taken < UvcData[i].frame
           /\ hasPts => UvcData[i].frame = Uvc!Current
           /\ \A k \in DOMAIN frames : frames[k][1].frame < UvcData[i].frame
           /\ UvcData[i].part = FrameLength => UvcData[i] = Uvc!NextPacket
      /\ ~silentLoss /\ ~UvcDamaged /\ UvcData[1].part = 1 =>
           /\ Len(UvcData) = (sent % FrameLength) + 1 \/ Len(UvcData) >= Capacity
           /\ \A i \in DOMAIN UvcData : UvcData[i] = [frame |-> Uvc!Current, part |-> i]
    BY <1>1, UvcDataIs
<1>4. Uvc!Room \in Seq(Seq(Uvc!Packet))
    BY UvcRoomIs
<1>5. Uvc!Complete(UvcData, UvcDamaged) => Uvc!Trimmed(UvcData) = UvcData
    BY <1>1, UvcTrimmedIs DEF Uvc!Complete
<1>6. /\ assembling' \in Seq(Uvc!Packet)
      /\ frames' \in Seq(Seq(Uvc!Packet))
      /\ frameError' \in BOOLEAN
  <2>1. CASE Uvc!NextPacket.part = FrameLength
    <3>1. /\ assembling' = <<>> /\ frameError' = FALSE
          /\ frames' = IF Uvc!Complete(UvcData, UvcDamaged)
                       THEN Append(Uvc!Room, Uvc!Trimmed(UvcData)) ELSE frames
      BY <1>1, <2>1 DEF Uvc!FinishFrame
    <3>2. frames' \in Seq(Seq(Uvc!Packet))
      <4>1. CASE Uvc!Complete(UvcData, UvcDamaged)
        <5>1. frames' = Append(Uvc!Room, UvcData)
          BY <1>5, <3>1, <4>1
        <5> QED BY <1>3, <1>4, <5>1
      <4>2. CASE ~Uvc!Complete(UvcData, UvcDamaged)
        BY <3>1, <4>2 DEF Uvc!TypeOK
      <4> QED BY <4>1, <4>2
    <3>3. assembling' \in Seq(Uvc!Packet)
      BY <3>1
    <3> QED BY <3>1, <3>2, <3>3
  <2>2. CASE Uvc!NextPacket.part # FrameLength
    <3>1. assembling' = UvcData /\ frames' = frames
      BY <1>1, <2>2
    <3>2. frameError' \in BOOLEAN
      BY <1>1, <2>2 DEF UvcDamaged
    <3> QED BY <1>3, <3>1, <3>2 DEF Uvc!TypeOK
  <2> QED BY <2>1, <2>2
<1>7. Uvc!TypeOK'
  <2>1. fid' \in -1..1
    BY <1>1, <1>2
  <2>2. pts' \in Nat
    BY <1>1, <1>2 DEF Uvc!TypeOK
  <2>3. left' \in 0..PacketsPerTransfer
    BY <1>1 DEF Uvc!TypeOK, Uvc!BeastAssumption
  <2> QED BY <1>1, <1>2, <1>6, <2>1, <2>2, <2>3
          DEF Uvc!TypeOK, Uvc!startVars, Uvc!readVars, Uvc!stopVars
<1>8. Uvc!HeldIsGivenBack' /\ Uvc!RingIsStarted'
    BY <1>1 DEF Uvc!HeldIsGivenBack, Uvc!RingIsStarted, Uvc!startVars
<1>9. /\ Len(frames') <= Uvc!QueueSize /\ Uvc!AssembledIsNewer' /\ Uvc!FramesAreNotMixed'
      /\ Uvc!AssembledIsCurrent' /\ Uvc!FramesAreWhole'
  <2>1. CASE Uvc!NextPacket.part = FrameLength
    <3>1. /\ assembling' = <<>>
          /\ frames' = IF Uvc!Complete(UvcData, UvcDamaged)
                       THEN Append(Uvc!Room, Uvc!Trimmed(UvcData)) ELSE frames
      BY <1>1, <2>1 DEF Uvc!FinishFrame
    <3>2. CASE Uvc!Complete(UvcData, UvcDamaged)
      BY <1>1, <1>5, <1>7, <2>1, <3>1, <3>2, UvcReadyStep DEF Uvc!readVars
    <3>3. CASE ~Uvc!Complete(UvcData, UvcDamaged)
      <4>1. DOMAIN assembling' = {} /\ frames' = frames /\ Uvc!Current' = Uvc!Current + 1
        BY <1>2, <2>1, <3>1, <3>3
      <4>2. taken \in Nat /\ \A k \in DOMAIN frames : frames[k] # <<>> => frames[k][1].frame \in Nat
        BY UvcPacketsAre
      <4>3. Uvc!AssembledIsNewer'
        BY <1>1, <1>2, <4>1, <4>2 DEF Uvc!AssembledIsNewer, Uvc!readVars
      <4>4. Uvc!AssembledIsCurrent'
        BY <3>1 DEF Uvc!AssembledIsCurrent
      <4> QED BY <1>1, <4>1, <4>3, <4>4 DEF Uvc!FramesAreNotMixed, Uvc!FramesAreWhole, Uvc!readVars
    <3> QED BY <3>2, <3>3
  <2>2. CASE Uvc!NextPacket.part # FrameLength
    <3>1. /\ assembling' = UvcData /\ frameError' = UvcDamaged /\ frames' = frames
          /\ Uvc!Current' = Uvc!Current /\ sent' % FrameLength = (sent % FrameLength) + 1
      BY <1>1, <1>2, <2>2
    <3>2. hasPts => pts' = Uvc!Current
      BY <1>1, <1>2
    <3>3. Uvc!AssembledIsNewer'
      BY <1>1, <1>3, <2>2, <3>1, <3>2 DEF Uvc!AssembledIsNewer, Uvc!readVars
    <3>4. Uvc!AssembledIsCurrent'
      BY <1>1, <1>3, <3>1 DEF Uvc!AssembledIsCurrent
    <3> QED BY <1>1, <3>1, <3>3, <3>4 DEF Uvc!FramesAreNotMixed, Uvc!FramesAreWhole, Uvc!readVars
  <2> QED BY <2>1, <2>2
<1> QED BY <1>7, <1>8, <1>9

\* readFrame() returns the oldest frame.
LEMMA UvcReadReturnsStep ==
    ASSUME Uvc!BeastAssumption, Uvc!UvcInv, Uvc!ReadReturns
    PROVE  Uvc!UvcInv'
<1> USE DEF Uvc!UvcInv
<1>1. /\ UNCHANGED <<Uvc!startVars, Uvc!cameraVars, Uvc!ringVars, assembling, fid, pts>>
      /\ UNCHANGED <<frameError, Uvc!stopVars, silentLoss>>
      /\ frameReader' = "idle"
      /\ IF frames = <<>> THEN UNCHANGED <<frames, taken>>
         ELSE taken' = frames[1][1].frame /\ frames' = Tail(frames)
    BY DEF Uvc!ReadReturns
<1>2. Uvc!HeldIsGivenBack' /\ Uvc!RingIsStarted'
    BY <1>1 DEF Uvc!HeldIsGivenBack, Uvc!RingIsStarted, Uvc!startVars, Uvc!ringVars
<1>3. sent \in Nat /\ frames \in Seq(Seq(Uvc!Packet)) /\ UNCHANGED Uvc!Current
    BY <1>1 DEF Uvc!TypeOK, Uvc!BeastAssumption, Uvc!cameraVars, Uvc!Current, Uvc!NextPacket
<1>4. Uvc!AssembledIsCurrent'
    BY <1>1, <1>3 DEF Uvc!AssembledIsCurrent, Uvc!cameraVars
<1>5. CASE frames = <<>>
  <2>1. Uvc!TypeOK'
    BY <1>1, <1>5 DEF Uvc!TypeOK, Uvc!startVars, Uvc!cameraVars, Uvc!ringVars, Uvc!stopVars
  <2>2. sent <= sent'
    BY <1>1, <1>3 DEF Uvc!cameraVars
  <2> QED BY <1>1, <1>2, <1>5, <2>1, <2>2, UvcFramesStay DEF Uvc!cameraVars
<1>6. CASE frames # <<>>
  <2>1. taken' = frames[1][1].frame /\ frames' = Tail(frames)
    BY <1>1, <1>6
  <2>2. /\ frames' \in Seq(Seq(Uvc!Packet)) /\ Len(frames') = Len(frames) - 1 /\ Len(frames) \in Nat
        /\ DOMAIN frames' = 1..(Len(frames) - 1) /\ DOMAIN frames = 1..Len(frames)
        /\ \A k \in 1..(Len(frames) - 1) : frames'[k] = frames[k + 1]
        /\ 1 \in DOMAIN frames
    BY <1>3, <1>6, <2>1
  <2>3. /\ frames[1] # <<>> /\ taken' \in Nat
        /\ \A i \in DOMAIN assembling : taken' < assembling[i].frame
        /\ taken' < Uvc!Current
    BY <2>1, <2>2, UvcPacketsAre DEF Uvc!AssembledIsNewer
  <2>4. Len(frames) <= 2
    BY DEF Uvc!QueueSize
  <2>5. \A k \in DOMAIN frames' :
          k = 1 /\ k + 1 \in DOMAIN frames /\ frames'[k] = frames[k + 1] /\ Len(frames) = 2
    BY <2>2, <2>4
  <2>6. Uvc!TypeOK'
    BY <1>1, <2>2, <2>3 DEF Uvc!TypeOK, Uvc!startVars, Uvc!cameraVars, Uvc!ringVars, Uvc!stopVars
  <2>7. Uvc!AssembledIsNewer'
    BY <1>1, <1>3, <2>3, <2>5 DEF Uvc!AssembledIsNewer, Uvc!cameraVars
  <2>8. Uvc!FramesAreNotMixed'
    <3>1. ASSUME NEW k \in DOMAIN frames'
          PROVE  /\ \A i \in DOMAIN frames'[k] :
                      hasPts' => frames'[k][i].frame = frames'[k][1].frame
                 /\ taken' < frames'[k][1].frame
      <4>1. frames'[k] = frames[2] /\ 2 \in DOMAIN frames /\ Len(frames) = 2
        BY <2>5, <3>1
      <4> QED BY <1>1, <2>1, <4>1 DEF Uvc!FramesAreNotMixed, Uvc!cameraVars
    <3>2. Len(frames') # 2
      BY <2>2, <2>4
    <3> HIDE DEF Uvc!UvcInv
    <3> QED BY <3>1, <3>2 DEF Uvc!FramesAreNotMixed
  <2>9. Uvc!FramesAreWhole'
    BY <1>1, <2>5 DEF Uvc!FramesAreWhole
  <2>10. Len(frames') <= Uvc!QueueSize
    BY <2>2, <2>4 DEF Uvc!QueueSize
  <2> QED BY <1>2, <1>4, <2>6, <2>7, <2>8, <2>9, <2>10
<1> QED BY <1>5, <1>6

\* Every step of the camera, its reader and stop() keeps the frames whole.
LEMMA UvcStep ==
    ASSUME Uvc!BeastAssumption, Uvc!UvcInv, Uvc!Next
    PROVE  Uvc!UvcInv'
BY UvcStartStep, UvcOtherPacketStep, UvcTransferStep, UvcStopStep, UvcGoodPacketStep,
   UvcReadReturnsStep
   DEF Uvc!Next, Uvc!Callback

\* Nothing is held, sent or assembled at first.
LEMMA UvcInitial == Uvc!BeastAssumption /\ Uvc!Init => Uvc!UvcInv
<1> SUFFICES ASSUME Uvc!BeastAssumption, Uvc!Init PROVE Uvc!UvcInv
    OBVIOUS
<1>1. Uvc!TypeOK
  <2>1. MaxFrames * FrameLength \in Nat /\ 0 \in 0..Transfers /\ 0 \in 0..PacketsPerTransfer
    BY DEF Uvc!BeastAssumption
  <2>2. sent \in 0..(MaxFrames * FrameLength)
    BY <2>1 DEF Uvc!Init
  <2>3. <<>> \in Seq(Uvc!Packet) /\ <<>> \in Seq(Seq(Uvc!Packet))
    OBVIOUS
  <2>4. fid \in -1..1 /\ pts \in Nat /\ taken \in Nat
    BY DEF Uvc!Init
  <2>5. /\ frameError \in BOOLEAN /\ uvcRunning \in BOOLEAN /\ hasPts \in BOOLEAN
        /\ closed \in BOOLEAN /\ silentLoss \in BOOLEAN
    BY DEF Uvc!Init
  <2> QED BY <2>1, <2>2, <2>3, <2>4, <2>5 DEF Uvc!Init, Uvc!TypeOK, Uvc!Steps
<1>2. Uvc!Current \in Nat /\ 0 < Uvc!Current
  <2>1. FrameLength \in Nat \ {0} /\ sent \in Nat
    BY DEF Uvc!Init, Uvc!BeastAssumption
  <2>2. sent \div FrameLength \in Nat
    BY <2>1, QuotientIs
  <2> QED BY <2>2 DEF Uvc!Current, Uvc!NextPacket
<1>3. Uvc!HeldIsGivenBack /\ Uvc!RingIsStarted
    BY DEF Uvc!Init, Uvc!HeldIsGivenBack, Uvc!RingIsStarted
<1>4. Len(frames) = 0 /\ DOMAIN frames = {} /\ DOMAIN assembling = {} /\ taken = 0
    BY DEF Uvc!Init
<1>5. /\ Len(frames) <= Uvc!QueueSize
      /\ Uvc!AssembledIsNewer
      /\ Uvc!FramesAreNotMixed
      /\ Uvc!FramesAreWhole
    BY <1>2, <1>4 DEF Uvc!QueueSize, Uvc!AssembledIsNewer, Uvc!FramesAreNotMixed, Uvc!FramesAreWhole
<1>6. Uvc!AssembledIsCurrent
    BY DEF Uvc!Init, Uvc!AssembledIsCurrent
<1> QED BY <1>1, <1>3, <1>5, <1>6 DEF Uvc!UvcInv

\* What the others do leaves the camera alone.
LEMMA UvcStutters == Uvc!UvcInv /\ UNCHANGED Uvc!vars => Uvc!UvcInv'
<1> SUFFICES ASSUME Uvc!UvcInv, UNCHANGED Uvc!vars PROVE Uvc!UvcInv'
    OBVIOUS
<1> USE DEF Uvc!UvcInv, Uvc!vars, Uvc!startVars, Uvc!cameraVars, Uvc!ringVars, Uvc!frameVars,
            Uvc!readVars, Uvc!stopVars
<1>1. Uvc!TypeOK'
    BY DEF Uvc!TypeOK
<1>2. UNCHANGED Uvc!Current
    BY DEF Uvc!Current, Uvc!NextPacket
<1>3. Uvc!HeldIsGivenBack' /\ Uvc!RingIsStarted' /\ Len(frames') <= Uvc!QueueSize
    BY DEF Uvc!HeldIsGivenBack, Uvc!RingIsStarted
<1>4. Uvc!AssembledIsNewer' /\ Uvc!AssembledIsCurrent'
    BY <1>2 DEF Uvc!AssembledIsNewer, Uvc!AssembledIsCurrent
<1>5. Uvc!FramesAreNotMixed' /\ Uvc!FramesAreWhole'
    BY DEF Uvc!FramesAreNotMixed, Uvc!FramesAreWhole
<1> QED BY <1>1, <1>3, <1>4, <1>5

\* A step of the composition is a step of the part that is chosen, or none.
LEMMA TransportsStep ==
    ASSUME [TransportsNext]_transportsVars
    PROVE  /\ part' = part
           /\ part = "handle" => Handle!HandleNext \/ UNCHANGED Handle!handleVars
           /\ part = "owner" => Owner!OwnerNext \/ UNCHANGED Owner!ownerVars
           /\ part \in {"surface", "lease"} => Surface!SurfaceNext \/ UNCHANGED Surface!surfaceVars
           /\ part = "binding" => Binding!BindingNext \/ UNCHANGED Binding!bindingVars
           /\ part = "dp" => Dp!Next \/ UNCHANGED Dp!vars
           /\ part = "uvc" => Uvc!Next \/ UNCHANGED Uvc!vars
           /\ part = "eye" => Eye!Next \/ UNCHANGED Eye!vars
           /\ part = "viture" => Viture!Next \/ UNCHANGED Viture!vars
<1>1. CASE TransportsNext
    BY <1>1 DEF TransportsNext, Surface!SurfaceNext
<1>2. CASE UNCHANGED transportsVars
    BY <1>2 DEF transportsVars, handleVars, Handle!handleVars, ownerVars, Owner!ownerVars,
                surfaceVars, Surface!surfaceVars, Surface!streamVars, Surface!leaseVars,
                bindingVars, Binding!bindingVars, dpVars, Dp!vars, Dp!glassesVars, Dp!netVars,
                Dp!verifyVars, Dp!callVars, uvcVars, Uvc!vars, Uvc!startVars, Uvc!cameraVars,
                Uvc!ringVars, Uvc!frameVars, Uvc!readVars, Uvc!stopVars,
                eyeVars, Eye!vars, Eye!controlVars, Eye!readerVars, vitureVars,
                Viture!vars, Viture!callerVars, Viture!calibrationVars, Viture!glassesVars
<1> QED BY <1>1, <1>2

\* NativeUsbOwner: what a session of native code has taken of its USB device is its
\* owner's to give back, once.
THEOREM TransportsOwnerInv == TransportsSpec => []OwnerInv
<1>1. TransportsInit => OwnerInv
    BY TransportsAssumption, OwnerInitial DEF TransportsInit, OwnerInv
<1>2. OwnerInv /\ [TransportsNext]_transportsVars => OwnerInv'
    BY TransportsAssumption, TransportsStep, OwnerStep, OwnerStutters DEF OwnerInv
<1> QED BY <1>1, <1>2, PTL DEF TransportsSpec

\* CameraSurfaceStream: every run but the one that a close() waits for, or would, has
\* a close() to account for it, one that did not wait for it or forgot its thread; so a
\* stream that was closed has no camera open unless such a close() came before, one
\* that is running has a run that will stop it, and a lease has one more owner only for
\* each writer that was closed twice.
THEOREM TransportsSurfaceInv == TransportsSpec => []SurfaceInv
<1>1. TransportsInit => SurfaceInv
    BY TransportsAssumption, SurfaceInitial DEF TransportsInit, SurfaceInv
<1>2. SurfaceInv /\ [TransportsNext]_transportsVars => SurfaceInv'
    BY TransportsAssumption, TransportsStep, SurfaceStep, SurfaceStutters DEF SurfaceInv
<1> QED BY <1>1, <1>2, PTL DEF TransportsSpec

\* LibusbHandle: the lock of a handle protects its calls, and what libusb records as
\* claimed is what the kernel has bound to usbfs, but where the code cannot know.
THEOREM TransportsHandleInv == TransportsSpec => []HandleInv
<1>1. TransportsInit => HandleInv
    BY TransportsAssumption, HandleInitial DEF TransportsInit, HandleInv
<1>2. HandleInv /\ [TransportsNext]_transportsVars => HandleInv'
    BY TransportsAssumption, TransportsStep, HandleStep, HandleStutters DEF HandleInv
<1> QED BY <1>1, <1>2, PTL DEF TransportsSpec

\* NcmBinding: as long as blocks are nested, the process is bound to the network of the
\* last one, and as before them when all are over, whatever networks come and go.
THEOREM TransportsBindingInv == TransportsSpec => []BindingInv
<1>1. TransportsInit => BindingInv
    BY BindingInitial DEF TransportsInit, BindingInv
<1>2. BindingInv /\ [TransportsNext]_transportsVars => BindingInv'
    BY TransportsStep, BindingStep, BindingStutters DEF BindingInv
<1> QED BY <1>1, <1>2, PTL DEF TransportsSpec

\* XrealOneDp: what setDisplayProfile() learns of the glasses is so, whatever is lost,
\* refused or served late, and stays so until it returns.
THEOREM TransportsDpInv == TransportsSpec => []DpInv
<1>1. TransportsInit => DpInv
    BY TransportsAssumption, DpInitial DEF TransportsInit, DpInv
<1>2. DpInv /\ [TransportsNext]_transportsVars => DpInv'
    BY TransportsAssumption, TransportsStep, DpStep, DpStutters DEF DpInv
<1> QED BY <1>1, <1>2, PTL DEF TransportsSpec

\* ... so a switch that returns true has been made, and one that nothing disturbs
\* returns true.
THEOREM TransportsSwitchIsTruthful == TransportsSpec => []SwitchIsTruthful
<1>1. DpInv => SwitchIsTruthful
    BY TransportsAssumption, DpIsTruthful DEF DpInv, SwitchIsTruthful
<1> QED BY <1>1, TransportsDpInv, PTL

\* BeastUvc: a frame that readFrame() returns is of one JPEG and, unless a loss went
\* unseen, all of it, whatever packets, transfers and steps of start() fail.
THEOREM TransportsUvcInv == TransportsSpec => []UvcInv
<1>1. TransportsInit => UvcInv
    BY TransportsAssumption, UvcInitial DEF TransportsInit, UvcInv
<1>2. UvcInv /\ [TransportsNext]_transportsVars => UvcInv'
    BY TransportsAssumption, TransportsStep, UvcStep, UvcStutters DEF UvcInv
<1> QED BY <1>1, <1>2, PTL DEF TransportsSpec

=============================================================================
