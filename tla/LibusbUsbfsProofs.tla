-------------------------- MODULE LibusbUsbfsProofs --------------------------
(***************************************************************************)
(* Proofs about LibusbUsbfs, for every length of a URB and of a transfer:  *)
(* the invariant UsbfsInv, that a transfer made of URBs implements         *)
(* LibusbTransfer, and that what is reported of it is true.                *)
(*                                                                         *)
(* There is one lemma per action.  Its first steps say what the action     *)
(* does to the sets of URBs that the kernel has; then comes a step for     *)
(* each part of UsbfsInv that it can disturb, and one for the others.      *)
(***************************************************************************)
EXTENDS LibusbUsbfs, FiniteSetTheorems, TLAPS

\* A transfer is split into at least one URB, and into no more than there are.
LEMMA CountIsBounded ==
    ASSUME UsbfsAssumption, NEW k \in Kinds, NEW m \in Modes, NEW len \in 0..MaxLength
    PROVE  /\ Count(k, m, len) \in 1..MaxUrbs /\ MaxUrbs \in Nat
           /\ k = "control" \/ (k = "bulk" /\ m = "whole") => Count(k, m, len) = 1
<1>1. MaxUrbs \in Nat \ {0}
    BY DEF UsbfsAssumption, MaxUrbs, Count, Step
<1>2. CASE len = 0
    BY <1>1, <1>2 DEF Count
<1>3. CASE len # 0 /\ (k = "control" \/ (k = "bulk" /\ m = "whole"))
    <2>1. Count(k, m, len) = (len + len - 1) \div len
        BY <1>3 DEF Count, Step
    <2> QED BY <1>1, <1>3, <2>1 DEF UsbfsAssumption
<1>4. CASE len # 0 /\ ~(k = "control" \/ (k = "bulk" /\ m = "whole"))
    <2>1. Count(k, m, len) = (len + UrbLength - 1) \div UrbLength
        BY <1>4 DEF Count, Step
    <2>2. MaxUrbs = (MaxLength + UrbLength - 1) \div UrbLength
        BY DEF MaxUrbs, Count, Step, UsbfsAssumption
    <2> QED BY <1>1, <1>4, <2>1, <2>2 DEF UsbfsAssumption
<1> QED BY <1>2, <1>3, <1>4

\* Sets of URBs are finite, and one more or less counts one.
LEMMA UrbsCount ==
    ASSUME UsbfsAssumption, NEW S \in SUBSET (1..MaxUrbs), NEW x
    PROVE  /\ Cardinality(S) \in Nat
           /\ Cardinality(S) = 0 <=> S = {}
           /\ Cardinality(S \ {x}) = IF x \in S THEN Cardinality(S) - 1 ELSE Cardinality(S)
           /\ Cardinality(S \cup {x}) = IF x \in S THEN Cardinality(S) ELSE Cardinality(S) + 1
<1>1. MaxUrbs \in Nat
    BY DEF UsbfsAssumption, MaxUrbs, Count, Step
<1>2. IsFiniteSet(1..MaxUrbs)
    BY <1>1, FS_Interval
<1>3. IsFiniteSet(S)
    BY <1>2, FS_Subset
<1> QED BY <1>3, FS_RemoveElement, FS_AddElement, FS_CardinalityType, FS_EmptySet

\* The kernel completes URB i, and may take others along.
LEMMA KernelCompletes ==
    ASSUME UsbfsInv, MaxUrbs \in Nat, NEW i \in 1..MaxUrbs, urb[i].at \in {"pending", "doomed"},
           urb' \in [1..MaxUrbs -> Urbs], urb'[i].at = "done", done' = Append(done, i),
           \A j \in 1..MaxUrbs \ {i} :
               urb'[j].at = urb[j].at \/ (urb[j].at = "pending" /\ urb'[j].at = "doomed")
    PROVE  /\ InKernel' = InKernel /\ Pending' \subseteq Pending \ {i} /\ i \in InKernel
           /\ done' \in Seq(1..MaxUrbs) /\ done'[Len(done')] = i /\ done' # <<>>
           /\ \A j \in DOMAIN urb' : urb'[j].at = "done" <=> \E a \in DOMAIN done' : done'[a] = j
           /\ \A a, b \in DOMAIN done' : done'[a] = done'[b] => a = b
<1> USE DEF UsbfsInv, UsbfsTypeOK, KernelAgrees
<1>1. DOMAIN urb = 1..MaxUrbs /\ DOMAIN urb' = 1..MaxUrbs
    OBVIOUS
<1>2. InKernel' = InKernel /\ Pending' \subseteq Pending \ {i} /\ i \in InKernel
    BY <1>1 DEF InKernel, Pending
<1>3. done' \in Seq(1..MaxUrbs) /\ Len(done') = Len(done) + 1 /\ Len(done) \in Nat
    OBVIOUS
<1>4. done'[Len(done')] = i /\ \A a \in 1..Len(done) : done'[a] = done[a]
    BY <1>3
<1>5. DOMAIN done = 1..Len(done) /\ DOMAIN done' = 1..Len(done')
    BY <1>3
<1>6. \A a \in 1..Len(done) : done[a] # i
    BY <1>1, <1>5
<1>7. ASSUME NEW j \in 1..MaxUrbs
      PROVE  urb'[j].at = "done" <=> \E a \in DOMAIN done' : done'[a] = j
    <2>1. CASE j = i
        <3>1. Len(done') \in DOMAIN done' /\ done'[Len(done')] = j
            BY <1>3, <1>4, <1>5, <2>1
        <3> QED BY <2>1, <3>1
    <2>2. CASE j # i
        <3>1. urb'[j].at = "done" <=> urb[j].at = "done"
            BY <2>2
        <3>2. urb[j].at = "done" <=> \E a \in 1..Len(done) : done[a] = j
            <4>1. \A k \in DOMAIN urb : urb[k].at = "done" <=> \E a \in DOMAIN done : done[a] = k
                OBVIOUS
            <4> HIDE DEF UsbfsInv, UsbfsTypeOK, KernelAgrees
            <4> QED BY <1>1, <1>5, <4>1
        <3>3. (\E a \in DOMAIN done' : done'[a] = j) <=> \E a \in 1..Len(done) : done[a] = j
            <4>1. \A a \in DOMAIN done' : a \in 1..Len(done) \/ a = Len(done')
                BY <1>3, <1>5
            <4>2. \A a \in 1..Len(done) : a \in DOMAIN done'
                BY <1>3, <1>5
            <4>3. ASSUME NEW a \in DOMAIN done', done'[a] = j
                  PROVE  \E b \in 1..Len(done) : done[b] = j
                <5>1. a \in 1..Len(done)
                    BY <1>4, <2>2, <4>1, <4>3
                <5> QED BY <1>4, <4>3, <5>1
            <4>4. ASSUME NEW a \in 1..Len(done), done[a] = j
                  PROVE  \E b \in DOMAIN done' : done'[b] = j
                BY <1>4, <4>2, <4>4
            <4> QED BY <4>3, <4>4
        <3> QED BY <3>1, <3>2, <3>3
    <2> QED BY <2>1, <2>2
<1>8. ASSUME NEW a \in DOMAIN done', NEW b \in DOMAIN done', done'[a] = done'[b]
      PROVE  a = b
    BY <1>3, <1>4, <1>5, <1>6, <1>8
<1> QED BY <1>1, <1>2, <1>3, <1>4, <1>7, <1>8

\* A nonempty sequence has a first element, and the others follow it.
LEMMA FirstOf ==
    ASSUME NEW S, NEW s \in Seq(S), s # <<>>
    PROVE  /\ Len(s) \in Nat \ {0} /\ DOMAIN s = 1..Len(s) /\ Head(s) = s[1] /\ Head(s) \in S
           /\ Tail(s) \in Seq(S) /\ Len(Tail(s)) = Len(s) - 1
           /\ \A a \in 1..Len(s)-1 : Tail(s)[a] = s[a + 1]
OBVIOUS

\* A kernel that has no URB has none to give back.
LEMMA NothingLeft ==
    ASSUME UsbfsInv, InKernel = {}
    PROVE  done = <<>>
<1> SUFFICES ASSUME done # <<>> PROVE FALSE
    OBVIOUS
<1>0. done \in Seq(1..MaxUrbs)
    BY DEF UsbfsInv, UsbfsTypeOK
<1>1. Len(done) \in Nat \ {0} /\ DOMAIN done = 1..Len(done)
    BY <1>0, FirstOf, Zenon
<1>2. 1 \in 1..Len(done)
    BY <1>1
<1>3. done[1] \in 1..MaxUrbs
    BY <1>0, FirstOf, Zenon
<1>4. done[1] \in InKernel
    BY <1>1, <1>2, <1>3 DEF UsbfsInv, UsbfsTypeOK, KernelAgrees, InKernel
<1> QED BY <1>4

\* What the proofs of the steps use most.
LEMMA NumIsBounded ==
    ASSUME UsbfsAssumption, UsbfsInv
    PROVE  /\ Num \in 1..MaxUrbs /\ MaxUrbs \in Nat /\ (kind = "control" => Num = 1)
           /\ InKernel \subseteq 1..submitted /\ InKernel \subseteq 1..MaxUrbs
           /\ submitted \in 0..Num /\ submitted \in 0..MaxUrbs /\ retired \in Nat
           /\ urb \in [1..MaxUrbs -> Urbs] /\ DOMAIN urb = 1..MaxUrbs
           /\ Cardinality(InKernel) \in Nat /\ (Cardinality(InKernel) = 0 <=> InKernel = {})
<1>1. Num \in 1..MaxUrbs /\ MaxUrbs \in Nat /\ (kind = "control" => Num = 1)
    BY CountIsBounded DEF UsbfsInv, UsbfsTypeOK, Num
<1>2. /\ InKernel \subseteq 1..submitted /\ InKernel \subseteq 1..MaxUrbs
      /\ submitted \in 0..Num /\ submitted \in 0..MaxUrbs /\ retired \in Nat
      /\ urb \in [1..MaxUrbs -> Urbs] /\ DOMAIN urb = 1..MaxUrbs
    BY <1>1 DEF UsbfsInv, UsbfsTypeOK, KernelAgrees, InKernel
<1>3. Cardinality(InKernel) \in Nat /\ (Cardinality(InKernel) = 0 <=> InKernel = {})
    BY <1>2, UrbsCount
<1> QED BY <1>1, <1>2, <1>3

\* Only a URB that the kernel has completed has a status.
LEMMA StatusIsKnown ==
    ASSUME UsbfsInv, NEW i \in DOMAIN urb
    PROVE  /\ urb[i].at = "done" \/ urb[i].at = "reaped" => urb[i].status # "none"
           /\ ~(urb[i].at = "done" \/ urb[i].at = "reaped") => urb[i].status = "none"
           /\ urb[i].status = "short" => kind = "bulk"
<1>1. /\ urb[i].at \in {"done", "reaped"} <=> urb[i].status # "none"
      /\ urb[i].status = "short" => kind = "bulk"
    <2>1. KernelAgrees
        BY DEF UsbfsInv
    <2> QED BY <2>1, Zenon DEF KernelAgrees
<1> QED BY <1>1

\* A URB that goes with a failed one, or is reaped, keeps what it has.
LEMMA MarkedUrb ==
    ASSUME NEW u \in Urbs, NEW w \in {"doomed", "reaped"}
    PROVE  /\ [u EXCEPT !.at = w] \in Urbs /\ [u EXCEPT !.at = w].at = w
           /\ [u EXCEPT !.at = w].status = u.status
BY DEF Urbs

\* A submission starts with URBs that the kernel does not know.
LEMMA SubmitKeeps ==
    ASSUME UsbfsAssumption, UsbfsInv, NEW k \in Kinds, NEW len \in 0..MaxLength, Submit(k, len)
    PROVE  UsbfsInv'
<1>0. /\ Num \in 1..MaxUrbs /\ MaxUrbs \in Nat /\ (kind = "control" => Num = 1)
      /\ InKernel \subseteq 1..submitted /\ InKernel \subseteq 1..MaxUrbs
      /\ submitted \in 0..Num /\ submitted \in 0..MaxUrbs /\ retired \in Nat
      /\ urb \in [1..MaxUrbs -> Urbs] /\ DOMAIN urb = 1..MaxUrbs
      /\ Cardinality(InKernel) \in Nat /\ (Cardinality(InKernel) = 0 <=> InKernel = {})
    BY NumIsBounded
<1> USE DEF UsbfsInv, Submit, params, caps, privVars, dataVars, flagVars, kernel, NoLoop,
            NoUrb, Num, InKernel, Pending
<1>a. Num' \in 1..MaxUrbs
    BY CountIsBounded DEF UsbfsTypeOK
<1>b. /\ InKernel = {} /\ done = <<>> /\ loop = NoLoop /\ ~held
      /\ event.at \notin {"lock", "discard", "complete"}
    BY <1>0 DEF LockIsHeldFor, FlightIsKnown, EventsAreInPlace, UrbsOutliveKernel
<1>c. InKernel' = {} /\ Pending' = {}
    BY <1>0
<1>1. UsbfsTypeOK'
    <2>1. /\ kind' \in Kinds /\ mode' \in Modes /\ length' \in 0..MaxLength
          /\ submitted' \in 0..Num' /\ retired' \in Nat
        BY <1>0, <1>a DEF UsbfsTypeOK, Kinds, Modes
    <2>2. /\ drains' \in BOOLEAN /\ held' \in BOOLEAN /\ inFlight' \in BOOLEAN /\ timedOut' \in BOOLEAN
          /\ halted' \in BOOLEAN /\ disabled' \in BOOLEAN /\ gone' \in BOOLEAN
          /\ kind' # "bulk" => mode' = "whole"
        BY <1>0 DEF UsbfsTypeOK
    <2>3. /\ reapAction' \in {"normal", "early", "failed", "error", "cancelled"} /\ reapStatus' \in Reports
          /\ asked' \in {"no", "user", "timeout"}
          /\ outcome' \in Reports \cup {"none", "waiting", "refused", "cancelled", "timed_out"}
          /\ holder' \in {"none", "submit", "user", "timeout", "event"}
        BY <1>0 DEF UsbfsTypeOK, Reports
    <2>4. loop' \in Loops
        BY <1>0 DEF UsbfsTypeOK, Loops
    <2>5. event' \in Events
        BY <1>0 DEF UsbfsTypeOK, Events, Reports
    <2>6. urb' \in [1..MaxUrbs -> Urbs] /\ done' \in Seq(1..MaxUrbs)
        BY <1>0 DEF UsbfsTypeOK, Urbs, UrbStatuses
    <2> QED BY <2>1, <2>2, <2>3, <2>4, <2>5, <2>6 DEF UsbfsTypeOK
<1>2. LockIsHeldFor'
    BY <1>0, <1>a, <1>b DEF LockIsHeldFor
<1>3. EventsAreInPlace'
    BY DEF EventsAreInPlace, FlightIsKnown
<1>4. KernelAgrees'
    <2>1. \A i \in DOMAIN urb' : urb'[i] = NoUrb
        BY <1>0
    <2>2. done' = <<>> /\ DOMAIN done' = {}
        BY <1>b
    <2> QED BY <1>c, <2>1, <2>2 DEF KernelAgrees
<1>5. UrbsAreCounted'
    <2>1. Cardinality(InKernel') = 0
        BY <1>c, FS_EmptySet
    <2> QED BY <1>b, <2>1 DEF UrbsAreCounted
<1>6. CancelIsReported'
    BY DEF CancelIsReported, FlightIsKnown
<1>7. FlightIsKnown' /\ UrbsOutliveKernel' /\ OverflowIsLast'
    BY DEF FlightIsKnown, UrbsOutliveKernel, OverflowIsLast
<1> QED BY <1>1, <1>2, <1>3, <1>4, <1>5, <1>6, <1>7

\* A submission that the backend refuses has given the kernel nothing.
LEMMA SubmitRefusedKeeps ==
    ASSUME UsbfsAssumption, UsbfsInv, SubmitRefused
    PROVE  UsbfsInv'
<1>0. /\ Num \in 1..MaxUrbs /\ MaxUrbs \in Nat /\ (kind = "control" => Num = 1)
      /\ InKernel \subseteq 1..submitted /\ InKernel \subseteq 1..MaxUrbs
      /\ submitted \in 0..Num /\ submitted \in 0..MaxUrbs /\ retired \in Nat
      /\ urb \in [1..MaxUrbs -> Urbs] /\ DOMAIN urb = 1..MaxUrbs
      /\ Cardinality(InKernel) \in Nat /\ (Cardinality(InKernel) = 0 <=> InKernel = {})
    BY NumIsBounded
<1> USE DEF UsbfsInv, SubmitRefused, params, caps, privVars, dataVars, flagVars, kernel,
            NoLoop, NoUrb, Num, InKernel, Pending
<1>1. UsbfsTypeOK'
    <2>1. /\ kind' \in Kinds /\ mode' \in Modes /\ length' \in 0..MaxLength
          /\ submitted' \in 0..Num' /\ retired' \in Nat
        BY <1>0 DEF UsbfsTypeOK, Kinds, Modes
    <2>2. /\ drains' \in BOOLEAN /\ held' \in BOOLEAN /\ inFlight' \in BOOLEAN /\ timedOut' \in BOOLEAN
          /\ halted' \in BOOLEAN /\ disabled' \in BOOLEAN /\ gone' \in BOOLEAN
          /\ kind' # "bulk" => mode' = "whole"
        BY <1>0 DEF UsbfsTypeOK
    <2>3. /\ reapAction' \in {"normal", "early", "failed", "error", "cancelled"} /\ reapStatus' \in Reports
          /\ asked' \in {"no", "user", "timeout"}
          /\ outcome' \in Reports \cup {"none", "waiting", "refused", "cancelled", "timed_out"}
          /\ holder' \in {"none", "submit", "user", "timeout", "event"}
        BY <1>0 DEF UsbfsTypeOK, Reports
    <2>4. loop' \in Loops
        BY <1>0 DEF UsbfsTypeOK, Loops
    <2>5. event' \in Events
        BY <1>0 DEF UsbfsTypeOK, Events, Reports
    <2>6. urb' \in [1..MaxUrbs -> Urbs] /\ done' \in Seq(1..MaxUrbs)
        BY <1>0 DEF UsbfsTypeOK, Urbs, UrbStatuses
    <2> QED BY <2>1, <2>2, <2>3, <2>4, <2>5, <2>6 DEF UsbfsTypeOK
<1>2. FlightIsKnown'
    BY DEF FlightIsKnown, LockIsHeldFor
<1>3. UrbsOutliveKernel'
    <2>1. InKernel = {}
        BY <1>0
    <2>2. done = <<>>
        BY <2>1, NothingLeft
    <2> QED BY <2>1, <2>2 DEF UrbsOutliveKernel
<1>4. /\ LockIsHeldFor' /\ EventsAreInPlace' /\ KernelAgrees' /\ UrbsAreCounted' /\ OverflowIsLast'
      /\ CancelIsReported'
    BY DEF LockIsHeldFor, EventsAreInPlace, KernelAgrees, UrbsAreCounted, OverflowIsLast,
       CancelIsReported
<1> QED BY <1>1, <1>2, <1>3, <1>4

\* One URB more is the kernel's; none that the kernel has has failed.
LEMMA SubmitUrbKeeps ==
    ASSUME UsbfsAssumption, UsbfsInv, SubmitUrb
    PROVE  UsbfsInv'
<1>0. /\ Num \in 1..MaxUrbs /\ MaxUrbs \in Nat /\ (kind = "control" => Num = 1)
      /\ InKernel \subseteq 1..submitted /\ InKernel \subseteq 1..MaxUrbs
      /\ submitted \in 0..Num /\ submitted \in 0..MaxUrbs /\ retired \in Nat
      /\ urb \in [1..MaxUrbs -> Urbs] /\ DOMAIN urb = 1..MaxUrbs
      /\ Cardinality(InKernel) \in Nat /\ (Cardinality(InKernel) = 0 <=> InKernel = {})
    BY NumIsBounded
<1> USE DEF UsbfsInv, SubmitUrb, params, caps, privVars, dataVars, flagVars, kernel, NoLoop,
            NoUrb, Num, InKernel, Pending
<1>a. /\ submitted + 1 \in 1..MaxUrbs /\ submitted + 1 \notin InKernel
      /\ InKernel' = InKernel \cup {submitted + 1} /\ urb[submitted + 1].at = "none"
    BY <1>0 DEF KernelAgrees
<1>b. Cardinality(InKernel') = Cardinality(InKernel) + 1
    <2>1. InKernel \in SUBSET (1..MaxUrbs)
        BY <1>0
    <2> HIDE DEF InKernel
    <2> QED BY <1>a, <2>1, UrbsCount
<1>c. \A i \in 1..MaxUrbs : urb'[i] = IF i = submitted + 1
                                       THEN [at |-> "pending", status |-> "none", actual |-> 0] ELSE urb[i]
    <2>1. submitted' = submitted + 1 /\ urb' = [urb EXCEPT ![submitted'] = [NoUrb EXCEPT !.at = "pending"]]
        OBVIOUS
    <2> HIDE DEF SubmitUrb
    <2> QED BY <1>0, <1>a, <2>1
<1>d. \A i \in 1..MaxUrbs : urb[i].at # "doomed"
    BY <1>0 DEF KernelAgrees
<1>1. UsbfsTypeOK'
    <2>1. /\ kind' \in Kinds /\ mode' \in Modes /\ length' \in 0..MaxLength
          /\ submitted' \in 0..Num' /\ retired' \in Nat
        BY <1>0 DEF UsbfsTypeOK, Kinds, Modes
    <2>2. /\ drains' \in BOOLEAN /\ held' \in BOOLEAN /\ inFlight' \in BOOLEAN /\ timedOut' \in BOOLEAN
          /\ halted' \in BOOLEAN /\ disabled' \in BOOLEAN /\ gone' \in BOOLEAN
          /\ kind' # "bulk" => mode' = "whole"
        BY <1>0 DEF UsbfsTypeOK
    <2>3. /\ reapAction' \in {"normal", "early", "failed", "error", "cancelled"} /\ reapStatus' \in Reports
          /\ asked' \in {"no", "user", "timeout"}
          /\ outcome' \in Reports \cup {"none", "waiting", "refused", "cancelled", "timed_out"}
          /\ holder' \in {"none", "submit", "user", "timeout", "event"}
        BY <1>0 DEF UsbfsTypeOK, Reports
    <2>4. loop' \in Loops
        BY <1>0 DEF UsbfsTypeOK, Loops
    <2>5. event' \in Events
        BY <1>0 DEF UsbfsTypeOK, Events, Reports
    <2>6. urb' \in [1..MaxUrbs -> Urbs] /\ done' \in Seq(1..MaxUrbs)
        BY <1>0 DEF UsbfsTypeOK, Urbs, UrbStatuses
    <2> QED BY <2>1, <2>2, <2>3, <2>4, <2>5, <2>6 DEF UsbfsTypeOK
<1>2. LockIsHeldFor'
    BY <1>0 DEF LockIsHeldFor
<1>3. FlightIsKnown'
    BY DEF FlightIsKnown, LockIsHeldFor
<1>4. EventsAreInPlace'
    BY <1>0 DEF EventsAreInPlace
<1>5. KernelAgrees'
    <2>1. \A i \in DOMAIN urb : urb'[i].at = "none" \/ i <= submitted'
        BY <1>0, <1>c DEF KernelAgrees
    <2>2. \A i \in DOMAIN urb : urb'[i].at = "done" <=> \E a \in DOMAIN done : done[a] = i
        <3>1. \A i \in DOMAIN urb : urb'[i].at = "done" <=> urb[i].at = "done"
            BY <1>a, <1>c
        <3> QED BY <3>1 DEF KernelAgrees
    <2>3. \A i \in DOMAIN urb : /\ urb'[i].at \in {"done", "reaped"} <=> urb'[i].status # "none"
                                /\ urb'[i].status = "short" => kind = "bulk"
        <3>1. ASSUME NEW i \in DOMAIN urb
              PROVE  /\ urb'[i].at \in {"done", "reaped"} <=> urb'[i].status # "none"
                     /\ urb'[i].status = "short" => kind = "bulk"
            BY <1>0, <1>a, <1>c, StatusIsKnown
        <3> QED BY <3>1
    <2>4. \A i \in DOMAIN urb : urb'[i].at # "doomed"
        BY <1>0, <1>c, <1>d
    <2>5. ~gone' /\ done' = done /\ DOMAIN urb' = DOMAIN urb /\ kind' = kind
        BY <1>0
    <2> HIDE DEF UsbfsTypeOK, SubmitUrb
    <2> QED BY <2>1, <2>2, <2>3, <2>4, <2>5 DEF KernelAgrees
<1>6. UrbsOutliveKernel'
    BY DEF UrbsOutliveKernel, LockIsHeldFor
<1>7. UrbsAreCounted'
    <2>1. held /\ loop = NoLoop /\ loop' = loop /\ retired' = retired /\ event' = event /\ ~gone
        BY DEF LockIsHeldFor
    <2>2. Cardinality(InKernel) + (IF event.at = "lock" THEN 1 ELSE 0) + retired = submitted
        BY <1>0, <2>1 DEF UrbsAreCounted
    <2>3. submitted' = submitted + 1 /\ (holder' # "submit" => submitted' = Num') /\ holder = "submit"
        BY <1>0
    <2>4. retired' + Cardinality(InKernel') + (IF event'.at = "lock" THEN 1 ELSE 0) = submitted'
        <3> HIDE DEF SubmitUrb, InKernel, UsbfsInv
        <3> QED BY <1>0, <1>b, <2>1, <2>2, <2>3
    <2> HIDE DEF SubmitUrb, InKernel
    <2> QED BY <2>1, <2>3, <2>4 DEF UrbsAreCounted
<1>8. OverflowIsLast'
    <2>1. \A i \in 1..MaxUrbs : urb[i].status # "overflow"
        <3>1. urb[Num].at = "none"
            BY <1>0 DEF KernelAgrees
        <3>2. urb[Num].status = "none"
            BY <1>0, <3>1, StatusIsKnown
        <3> QED BY <1>0, <3>2 DEF OverflowIsLast
    <2> QED BY <1>0, <1>c, <2>1 DEF OverflowIsLast
<1>9. CancelIsReported'
    BY DEF CancelIsReported
<1> QED BY <1>1, <1>2, <1>3, <1>4, <1>5, <1>6, <1>7, <1>8, <1>9

\* The URBs that are never submitted are counted as retired.
LEMMA SubmitUrbFailsKeeps ==
    ASSUME UsbfsAssumption, UsbfsInv, NEW early \in BOOLEAN, SubmitUrbFails(early)
    PROVE  UsbfsInv'
<1>0. /\ Num \in 1..MaxUrbs /\ MaxUrbs \in Nat /\ (kind = "control" => Num = 1)
      /\ InKernel \subseteq 1..submitted /\ InKernel \subseteq 1..MaxUrbs
      /\ submitted \in 0..Num /\ submitted \in 0..MaxUrbs /\ retired \in Nat
      /\ urb \in [1..MaxUrbs -> Urbs] /\ DOMAIN urb = 1..MaxUrbs
      /\ Cardinality(InKernel) \in Nat /\ (Cardinality(InKernel) = 0 <=> InKernel = {})
    BY NumIsBounded
<1> USE DEF UsbfsInv, SubmitUrbFails, params, caps, privVars, dataVars, flagVars, kernel,
            NoLoop, NoUrb, Num, InKernel, Pending
<1>1. UsbfsTypeOK'
    <2>1. /\ kind' \in Kinds /\ mode' \in Modes /\ length' \in 0..MaxLength
          /\ submitted' \in 0..Num' /\ retired' \in Nat
        BY <1>0 DEF UsbfsTypeOK, Kinds, Modes
    <2>2. /\ drains' \in BOOLEAN /\ held' \in BOOLEAN /\ inFlight' \in BOOLEAN /\ timedOut' \in BOOLEAN
          /\ halted' \in BOOLEAN /\ disabled' \in BOOLEAN /\ gone' \in BOOLEAN
          /\ kind' # "bulk" => mode' = "whole"
        BY <1>0 DEF UsbfsTypeOK
    <2>3. /\ reapAction' \in {"normal", "early", "failed", "error", "cancelled"} /\ reapStatus' \in Reports
          /\ asked' \in {"no", "user", "timeout"}
          /\ outcome' \in Reports \cup {"none", "waiting", "refused", "cancelled", "timed_out"}
          /\ holder' \in {"none", "submit", "user", "timeout", "event"}
        BY <1>0 DEF UsbfsTypeOK, Reports
    <2>4. loop' \in Loops
        BY <1>0 DEF UsbfsTypeOK, Loops
    <2>5. event' \in Events
        BY <1>0 DEF UsbfsTypeOK, Events, Reports
    <2>6. urb' \in [1..MaxUrbs -> Urbs] /\ done' \in Seq(1..MaxUrbs)
        BY <1>0 DEF UsbfsTypeOK, Urbs, UrbStatuses
    <2> QED BY <2>1, <2>2, <2>3, <2>4, <2>5, <2>6 DEF UsbfsTypeOK
<1>2. LockIsHeldFor'
    BY <1>0 DEF LockIsHeldFor
<1>3. FlightIsKnown'
    BY DEF FlightIsKnown, LockIsHeldFor
<1>4. UrbsAreCounted'
    <2>1. held /\ loop = NoLoop /\ event' = event /\ retired = 0 /\ retired' = Num - submitted
        BY <1>0 DEF LockIsHeldFor
    <2>2. ~(holder' = "submit" /\ loop' = NoLoop) /\ Num' = Num /\ gone' = gone /\ drains' = drains
        BY <1>0
    <2>3. InKernel' = InKernel /\ holder = "submit" /\ loop = NoLoop
        BY <1>0
    <2>4. (gone /\ ~drains) \/ retired + Cardinality(InKernel) + (IF event.at = "lock" THEN 1 ELSE 0) = submitted
        BY <2>1, <2>3 DEF UrbsAreCounted
    <2>5. submitted \in Nat /\ Num \in Nat /\ Cardinality(InKernel) \in Nat
        BY <1>0
    <2> HIDE DEF SubmitUrbFails, InKernel, Num, UsbfsInv
    <2>6. (gone /\ ~drains) \/ retired' + Cardinality(InKernel) + (IF event.at = "lock" THEN 1 ELSE 0) = Num
        BY <2>1, <2>4, <2>5
    <2> QED BY <2>1, <2>2, <2>3, <2>6 DEF UrbsAreCounted
<1>5. CancelIsReported'
    BY <1>0 DEF CancelIsReported
<1>6. EventsAreInPlace' /\ KernelAgrees' /\ UrbsOutliveKernel' /\ OverflowIsLast'
    BY DEF EventsAreInPlace, KernelAgrees, UrbsOutliveKernel, OverflowIsLast
<1> QED BY <1>1, <1>2, <1>3, <1>4, <1>5, <1>6

\* The submission ends when it has asked for every URB.
LEMMA SubmitDiscardedKeeps ==
    ASSUME UsbfsAssumption, UsbfsInv, SubmitDiscarded
    PROVE  UsbfsInv'
<1>0. /\ Num \in 1..MaxUrbs /\ MaxUrbs \in Nat /\ (kind = "control" => Num = 1)
      /\ InKernel \subseteq 1..submitted /\ InKernel \subseteq 1..MaxUrbs
      /\ submitted \in 0..Num /\ submitted \in 0..MaxUrbs /\ retired \in Nat
      /\ urb \in [1..MaxUrbs -> Urbs] /\ DOMAIN urb = 1..MaxUrbs
      /\ Cardinality(InKernel) \in Nat /\ (Cardinality(InKernel) = 0 <=> InKernel = {})
    BY NumIsBounded
<1> USE DEF UsbfsInv, SubmitDiscarded, LoopEnded, params, caps, privVars, dataVars, flagVars,
            kernel, NoLoop, NoUrb, Num, InKernel, Pending
<1>1. UsbfsTypeOK'
    BY <1>0 DEF UsbfsTypeOK, Loops, Events, Reports
<1>2. LockIsHeldFor'
    BY <1>0 DEF LockIsHeldFor
<1>3. FlightIsKnown'
    BY DEF FlightIsKnown, LockIsHeldFor
<1>4. /\ EventsAreInPlace' /\ KernelAgrees' /\ UrbsOutliveKernel' /\ UrbsAreCounted'
      /\ OverflowIsLast' /\ CancelIsReported'
    BY DEF EventsAreInPlace, KernelAgrees, UrbsOutliveKernel, UrbsAreCounted, OverflowIsLast,
       CancelIsReported
<1> QED BY <1>1, <1>2, <1>3, <1>4

\* A cancellation takes the lock only of a transfer that has URBs.
LEMMA CancelKeeps ==
    ASSUME UsbfsAssumption, UsbfsInv, NEW reason \in {"user", "timeout"}, Cancel(reason)
    PROVE  UsbfsInv'
<1>0. /\ Num \in 1..MaxUrbs /\ MaxUrbs \in Nat /\ (kind = "control" => Num = 1)
      /\ InKernel \subseteq 1..submitted /\ InKernel \subseteq 1..MaxUrbs
      /\ submitted \in 0..Num /\ submitted \in 0..MaxUrbs /\ retired \in Nat
      /\ urb \in [1..MaxUrbs -> Urbs] /\ DOMAIN urb = 1..MaxUrbs
      /\ Cardinality(InKernel) \in Nat /\ (Cardinality(InKernel) = 0 <=> InKernel = {})
    BY NumIsBounded
<1> USE DEF UsbfsInv, Cancel, params, caps, privVars, dataVars, flagVars, kernel, NoLoop,
            NoUrb, Num, InKernel, Pending
<1>1. UsbfsTypeOK'
    BY <1>0 DEF UsbfsTypeOK, Loops, Events, Reports
<1>2. LockIsHeldFor'
    BY <1>0 DEF LockIsHeldFor
<1>3. /\ FlightIsKnown' /\ EventsAreInPlace' /\ KernelAgrees' /\ UrbsOutliveKernel'
      /\ UrbsAreCounted' /\ OverflowIsLast' /\ CancelIsReported'
    BY DEF FlightIsKnown, EventsAreInPlace, KernelAgrees, UrbsOutliveKernel, UrbsAreCounted,
       OverflowIsLast, CancelIsReported
<1> QED BY <1>1, <1>2, <1>3

\* The flags of a cancellation say whom it was for.
LEMMA CancelEndsKeeps ==
    ASSUME UsbfsAssumption, UsbfsInv, CancelEnds
    PROVE  UsbfsInv'
<1>0. /\ Num \in 1..MaxUrbs /\ MaxUrbs \in Nat /\ (kind = "control" => Num = 1)
      /\ InKernel \subseteq 1..submitted /\ InKernel \subseteq 1..MaxUrbs
      /\ submitted \in 0..Num /\ submitted \in 0..MaxUrbs /\ retired \in Nat
      /\ urb \in [1..MaxUrbs -> Urbs] /\ DOMAIN urb = 1..MaxUrbs
      /\ Cardinality(InKernel) \in Nat /\ (Cardinality(InKernel) = 0 <=> InKernel = {})
    BY NumIsBounded
<1> USE DEF UsbfsInv, CancelEnds, LoopEnded, params, caps, privVars, dataVars, flagVars,
            kernel, NoLoop, NoUrb, Num, InKernel, Pending
<1>1. UsbfsTypeOK'
    BY <1>0 DEF UsbfsTypeOK, Loops, Events, Reports
<1>2. CancelIsReported'
    BY DEF CancelIsReported, LockIsHeldFor
<1>3. /\ LockIsHeldFor' /\ FlightIsKnown' /\ EventsAreInPlace' /\ KernelAgrees'
      /\ UrbsOutliveKernel' /\ UrbsAreCounted' /\ OverflowIsLast'
    BY DEF LockIsHeldFor, FlightIsKnown, EventsAreInPlace, KernelAgrees, UrbsOutliveKernel,
       UrbsAreCounted, OverflowIsLast
<1> QED BY <1>1, <1>2, <1>3

\* The thread that handles events goes on where it was.
LEMMA HandleDiscardedKeeps ==
    ASSUME UsbfsAssumption, UsbfsInv, HandleDiscarded
    PROVE  UsbfsInv'
<1>0. /\ Num \in 1..MaxUrbs /\ MaxUrbs \in Nat /\ (kind = "control" => Num = 1)
      /\ InKernel \subseteq 1..submitted /\ InKernel \subseteq 1..MaxUrbs
      /\ submitted \in 0..Num /\ submitted \in 0..MaxUrbs /\ retired \in Nat
      /\ urb \in [1..MaxUrbs -> Urbs] /\ DOMAIN urb = 1..MaxUrbs
      /\ Cardinality(InKernel) \in Nat /\ (Cardinality(InKernel) = 0 <=> InKernel = {})
    BY NumIsBounded
<1> USE DEF UsbfsInv, HandleDiscarded, LoopEnded, Back, Polling, params, caps, privVars,
            dataVars, flagVars, kernel, NoLoop, NoUrb, Num, InKernel, Pending
<1>1. UsbfsTypeOK'
    <2>1. /\ kind' \in Kinds /\ mode' \in Modes /\ length' \in 0..MaxLength
          /\ submitted' \in 0..Num' /\ retired' \in Nat
        BY <1>0 DEF UsbfsTypeOK, Kinds, Modes
    <2>2. /\ drains' \in BOOLEAN /\ held' \in BOOLEAN /\ inFlight' \in BOOLEAN /\ timedOut' \in BOOLEAN
          /\ halted' \in BOOLEAN /\ disabled' \in BOOLEAN /\ gone' \in BOOLEAN
          /\ kind' # "bulk" => mode' = "whole"
        BY <1>0 DEF UsbfsTypeOK
    <2>3. /\ reapAction' \in {"normal", "early", "failed", "error", "cancelled"} /\ reapStatus' \in Reports
          /\ asked' \in {"no", "user", "timeout"}
          /\ outcome' \in Reports \cup {"none", "waiting", "refused", "cancelled", "timed_out"}
          /\ holder' \in {"none", "submit", "user", "timeout", "event"}
        BY <1>0 DEF UsbfsTypeOK, Reports
    <2>4. loop' \in Loops
        BY <1>0 DEF UsbfsTypeOK, Loops
    <2>5. event' \in Events
        <3>1. event.back \in {"poll", "drain"}
            BY DEF EventsAreInPlace, LockIsHeldFor, UsbfsTypeOK, Events
        <3> QED BY <1>0, <3>1 DEF Events
    <2>6. urb' \in [1..MaxUrbs -> Urbs] /\ done' \in Seq(1..MaxUrbs)
        BY <1>0 DEF UsbfsTypeOK, Urbs, UrbStatuses
    <2> QED BY <2>1, <2>2, <2>3, <2>4, <2>5, <2>6 DEF UsbfsTypeOK
<1>2. LockIsHeldFor'
    BY DEF LockIsHeldFor, UsbfsTypeOK, Events
<1>3. FlightIsKnown'
    BY DEF FlightIsKnown, UsbfsTypeOK, Events
<1>4. EventsAreInPlace'
    BY DEF EventsAreInPlace, UsbfsTypeOK, Events
<1>5. UrbsAreCounted'
    BY <1>0 DEF UrbsAreCounted, LockIsHeldFor, FlightIsKnown, UsbfsTypeOK, Events, Loops
<1>6. KernelAgrees' /\ UrbsOutliveKernel' /\ OverflowIsLast' /\ CancelIsReported'
    BY DEF KernelAgrees, UrbsOutliveKernel, OverflowIsLast, CancelIsReported
<1> QED BY <1>1, <1>2, <1>3, <1>4, <1>5, <1>6

\* The callback is called for a transfer without URBs.
LEMMA CompleteKeeps ==
    ASSUME UsbfsAssumption, UsbfsInv, Complete
    PROVE  UsbfsInv'
<1>0. /\ Num \in 1..MaxUrbs /\ MaxUrbs \in Nat /\ (kind = "control" => Num = 1)
      /\ InKernel \subseteq 1..submitted /\ InKernel \subseteq 1..MaxUrbs
      /\ submitted \in 0..Num /\ submitted \in 0..MaxUrbs /\ retired \in Nat
      /\ urb \in [1..MaxUrbs -> Urbs] /\ DOMAIN urb = 1..MaxUrbs
      /\ Cardinality(InKernel) \in Nat /\ (Cardinality(InKernel) = 0 <=> InKernel = {})
    BY NumIsBounded
<1> USE DEF UsbfsInv, Complete, FinalStatus, Back, Polling, params, caps, privVars, dataVars,
            flagVars, kernel, NoLoop, NoUrb, Num, InKernel, Pending
<1>1. UsbfsTypeOK'
    <2>1. /\ kind' \in Kinds /\ mode' \in Modes /\ length' \in 0..MaxLength
          /\ submitted' \in 0..Num' /\ retired' \in Nat
        BY <1>0 DEF UsbfsTypeOK, Kinds, Modes
    <2>2. /\ drains' \in BOOLEAN /\ held' \in BOOLEAN /\ inFlight' \in BOOLEAN /\ timedOut' \in BOOLEAN
          /\ halted' \in BOOLEAN /\ disabled' \in BOOLEAN /\ gone' \in BOOLEAN
          /\ kind' # "bulk" => mode' = "whole"
        BY <1>0 DEF UsbfsTypeOK
    <2>3. /\ reapAction' \in {"normal", "early", "failed", "error", "cancelled"} /\ reapStatus' \in Reports
          /\ asked' \in {"no", "user", "timeout"}
          /\ outcome' \in Reports \cup {"none", "waiting", "refused", "cancelled", "timed_out"}
          /\ holder' \in {"none", "submit", "user", "timeout", "event"}
        BY <1>0 DEF UsbfsTypeOK, Reports, Events, EventsAreInPlace
    <2>4. loop' \in Loops
        BY <1>0 DEF UsbfsTypeOK, Loops
    <2>5. event' \in Events
        <3>1. event.back \in {"poll", "drain"}
            BY DEF EventsAreInPlace, LockIsHeldFor, UsbfsTypeOK, Events
        <3> QED BY <1>0, <3>1 DEF Events
    <2>6. urb' \in [1..MaxUrbs -> Urbs] /\ done' \in Seq(1..MaxUrbs)
        BY <1>0 DEF UsbfsTypeOK, Urbs, UrbStatuses
    <2> QED BY <2>1, <2>2, <2>3, <2>4, <2>5, <2>6 DEF UsbfsTypeOK
<1>2. LockIsHeldFor'
    BY DEF LockIsHeldFor, UsbfsTypeOK, Events
<1>3. FlightIsKnown'
    <2>1. outcome' # "waiting" /\ event'.at \in {"poll", "drain"}
        BY DEF UsbfsTypeOK, Events, Reports, EventsAreInPlace
    <2> QED BY <2>1 DEF FlightIsKnown
<1>4. EventsAreInPlace'
    BY DEF EventsAreInPlace, UsbfsTypeOK, Events
<1>5. UrbsAreCounted'
    BY DEF UrbsAreCounted, UsbfsTypeOK, Events
<1>6. KernelAgrees' /\ UrbsOutliveKernel' /\ OverflowIsLast' /\ CancelIsReported'
    BY DEF KernelAgrees, UrbsOutliveKernel, OverflowIsLast, CancelIsReported
<1> QED BY <1>1, <1>2, <1>3, <1>4, <1>5, <1>6

\* A descriptor with an error is drained.
LEMMA PollErrorKeeps ==
    ASSUME UsbfsAssumption, UsbfsInv, PollError
    PROVE  UsbfsInv'
<1>0. /\ Num \in 1..MaxUrbs /\ MaxUrbs \in Nat /\ (kind = "control" => Num = 1)
      /\ InKernel \subseteq 1..submitted /\ InKernel \subseteq 1..MaxUrbs
      /\ submitted \in 0..Num /\ submitted \in 0..MaxUrbs /\ retired \in Nat
      /\ urb \in [1..MaxUrbs -> Urbs] /\ DOMAIN urb = 1..MaxUrbs
      /\ Cardinality(InKernel) \in Nat /\ (Cardinality(InKernel) = 0 <=> InKernel = {})
    BY NumIsBounded
<1> USE DEF UsbfsInv, PollError, Draining, Polling, params, caps, privVars, dataVars,
            flagVars, kernel, NoLoop, NoUrb, Num, InKernel, Pending
<1>1. UsbfsTypeOK'
    BY <1>0 DEF UsbfsTypeOK, Loops, Events, Reports
<1>2. /\ LockIsHeldFor' /\ FlightIsKnown' /\ EventsAreInPlace' /\ KernelAgrees'
      /\ UrbsOutliveKernel' /\ UrbsAreCounted' /\ OverflowIsLast' /\ CancelIsReported'
    BY DEF LockIsHeldFor, FlightIsKnown, EventsAreInPlace, KernelAgrees, UrbsOutliveKernel,
       UrbsAreCounted, OverflowIsLast, CancelIsReported
<1> QED BY <1>1, <1>2

\* A device that is gone and drained has no URB left.
LEMMA DisconnectKeeps ==
    ASSUME UsbfsAssumption, UsbfsInv, Disconnect
    PROVE  UsbfsInv'
<1>0. /\ Num \in 1..MaxUrbs /\ MaxUrbs \in Nat /\ (kind = "control" => Num = 1)
      /\ InKernel \subseteq 1..submitted /\ InKernel \subseteq 1..MaxUrbs
      /\ submitted \in 0..Num /\ submitted \in 0..MaxUrbs /\ retired \in Nat
      /\ urb \in [1..MaxUrbs -> Urbs] /\ DOMAIN urb = 1..MaxUrbs
      /\ Cardinality(InKernel) \in Nat /\ (Cardinality(InKernel) = 0 <=> InKernel = {})
    BY NumIsBounded
<1> USE DEF UsbfsInv, Disconnect, params, caps, privVars, dataVars, flagVars, kernel, NoLoop,
            NoUrb, Num, InKernel, Pending
<1>a. InKernel = {} /\ gone /\ loop = NoLoop
    <2>1. gone /\ loop = NoLoop
        BY DEF EventsAreInPlace, LockIsHeldFor
    <2>2. DOMAIN done = {}
        OBVIOUS
    <2>3. \A i \in DOMAIN urb : urb[i].at # "done"
        BY <2>2 DEF KernelAgrees
    <2> QED BY <2>1, <2>3 DEF KernelAgrees
<1>b. /\ InKernel' = InKernel /\ urb' = urb /\ loop' = loop /\ holder' = holder /\ Num' = Num
      /\ inFlight => held /\ ~held' /\ event'.at = "complete" /\ event'.status = "no_device" /\ event'.back = "drain"
      /\ ~inFlight => held' = held /\ ~held /\ event'.at = "off" /\ event'.back = event.back
    <2>1. InKernel' = InKernel /\ urb' = urb /\ loop' = loop /\ holder' = holder /\ Num' = Num
        OBVIOUS
    <2>2. event.at = "drain" /\ (inFlight /\ ~held <=> event.at = "complete")
        BY DEF FlightIsKnown
    <2>3. held => inFlight
        BY DEF FlightIsKnown
    <2>4. event \in Events
        BY DEF UsbfsTypeOK
    <2> QED BY <2>1, <2>2, <2>3, <2>4 DEF Events
<1>1. UsbfsTypeOK'
    <2>1. /\ kind' \in Kinds /\ mode' \in Modes /\ length' \in 0..MaxLength
          /\ submitted' \in 0..Num' /\ retired' \in Nat
        BY <1>0 DEF UsbfsTypeOK, Kinds, Modes
    <2>2. /\ drains' \in BOOLEAN /\ held' \in BOOLEAN /\ inFlight' \in BOOLEAN /\ timedOut' \in BOOLEAN
          /\ halted' \in BOOLEAN /\ disabled' \in BOOLEAN /\ gone' \in BOOLEAN
          /\ kind' # "bulk" => mode' = "whole"
        BY <1>0 DEF UsbfsTypeOK
    <2>3. /\ reapAction' \in {"normal", "early", "failed", "error", "cancelled"} /\ reapStatus' \in Reports
          /\ asked' \in {"no", "user", "timeout"}
          /\ outcome' \in Reports \cup {"none", "waiting", "refused", "cancelled", "timed_out"}
          /\ holder' \in {"none", "submit", "user", "timeout", "event"}
        BY <1>0 DEF UsbfsTypeOK, Reports
    <2>4. loop' \in Loops
        BY <1>0 DEF UsbfsTypeOK, Loops
    <2>5. event' \in Events
        BY <1>0 DEF UsbfsTypeOK, Events, Reports
    <2>6. urb' \in [1..MaxUrbs -> Urbs] /\ done' \in Seq(1..MaxUrbs)
        BY <1>0 DEF UsbfsTypeOK, Urbs, UrbStatuses
    <2> QED BY <2>1, <2>2, <2>3, <2>4, <2>5, <2>6 DEF UsbfsTypeOK
<1>2. LockIsHeldFor'
    BY <1>0, <1>a, <1>b DEF LockIsHeldFor
<1>3. FlightIsKnown'
    BY <1>0, <1>a, <1>b DEF FlightIsKnown
<1>4. EventsAreInPlace'
    BY <1>0, <1>a, <1>b DEF EventsAreInPlace
<1>5. UrbsOutliveKernel'
    BY <1>0, <1>a, <1>b DEF UrbsOutliveKernel
<1>6. UrbsAreCounted'
    BY DEF UrbsAreCounted, UsbfsTypeOK, Events
<1>7. CancelIsReported'
    BY <1>0, <1>a, <1>b DEF CancelIsReported
<1>8. KernelAgrees' /\ OverflowIsLast'
    BY DEF KernelAgrees, OverflowIsLast
<1> QED BY <1>1, <1>2, <1>3, <1>4, <1>5, <1>6, <1>7, <1>8

\* As long as the kernel has a URB that it has not completed, none has overflowed,
\* and the device is there.
LEMMA NoneOverflowed ==
    ASSUME UsbfsInv, NEW i \in DOMAIN urb, urb[i].at \in {"pending", "doomed"}
    PROVE  /\ ~gone /\ held /\ i \in InKernel
           /\ \A j \in DOMAIN urb : urb[j].status # "overflow"
           /\ urb[i].at = "doomed" => kind = "bulk" /\ disabled /\ mode = "continue" /\ Pending = {}
<1>1. i \in InKernel
    BY DEF InKernel
<1>2. ~gone
    BY <1>1 DEF UsbfsInv, KernelAgrees
<1>3. held
    BY <1>1 DEF UsbfsInv, UrbsOutliveKernel
<1>4. \A j \in DOMAIN urb : urb[j].status # "overflow"
    BY <1>1 DEF UsbfsInv, OverflowIsLast
<1>5. urb[i].at = "doomed" => kind = "bulk" /\ disabled /\ mode = "continue" /\ Pending = {}
    BY DEF UsbfsInv, UsbfsTypeOK, KernelAgrees
<1> QED BY <1>1, <1>2, <1>3, <1>4, <1>5

\* A URB comes back killed, without taking others along.
LEMMA KillKeepsKernel ==
    ASSUME UsbfsAssumption, UsbfsInv, NEW i \in 1..MaxUrbs, urb[i].at \in {"pending", "doomed"}, NEW n \in Nat,
           urb' = [urb EXCEPT ![i] = [at |-> "done", status |-> "killed", actual |-> n]],
           done' = Append(done, i), UNCHANGED <<kind, length, mode, drains, held, submitted, retired,
                                                holder, event, disabled, gone>>,
           (loop' = NoLoop) <=> (loop = NoLoop)
    PROVE  /\ urb' \in [1..MaxUrbs -> Urbs] /\ done' \in Seq(1..MaxUrbs)
           /\ EventsAreInPlace' /\ KernelAgrees' /\ UrbsOutliveKernel' /\ UrbsAreCounted' /\ OverflowIsLast'
<1>0. /\ Num \in 1..MaxUrbs /\ MaxUrbs \in Nat /\ urb \in [1..MaxUrbs -> Urbs] /\ DOMAIN urb = 1..MaxUrbs
    BY NumIsBounded
<1>1. urb' \in [1..MaxUrbs -> Urbs]
    BY <1>0 DEF Urbs, UrbStatuses
<1>2. \A j \in 1..MaxUrbs : urb'[j] = IF j = i THEN [at |-> "done", status |-> "killed", actual |-> n] ELSE urb[j]
    BY <1>0
<1>3. DOMAIN urb' = 1..MaxUrbs /\ urb'[i].at = "done" /\ urb'[i].status = "killed"
    BY <1>1, <1>2
<1>4. /\ InKernel' = InKernel /\ Pending' \subseteq Pending \ {i} /\ i \in InKernel
      /\ done' \in Seq(1..MaxUrbs) /\ done'[Len(done')] = i /\ done' # <<>>
      /\ \A j \in DOMAIN urb' : urb'[j].at = "done" <=> \E a \in DOMAIN done' : done'[a] = j
      /\ \A a, b \in DOMAIN done' : done'[a] = done'[b] => a = b
    BY <1>0, <1>1, <1>2, <1>3, KernelCompletes
<1>5. ~gone /\ held /\ \A j \in DOMAIN urb : urb[j].status # "overflow"
    BY <1>0, NoneOverflowed
<1>6. EventsAreInPlace'
    BY <1>0, <1>2 DEF UsbfsInv, EventsAreInPlace
<1>7. KernelAgrees'
    <2>1. \A j \in DOMAIN urb' : urb'[j].at = "none" \/ j <= submitted'
        BY <1>0, <1>2, <1>3 DEF UsbfsInv, KernelAgrees
    <2>2. ASSUME NEW j \in DOMAIN urb'
          PROVE  /\ urb'[j].at \in {"done", "reaped"} <=> urb'[j].status # "none"
                 /\ urb'[j].status = "short" => kind' = "bulk"
        BY <1>0, <1>2, <1>3, StatusIsKnown
    <2>3. ASSUME NEW j \in DOMAIN urb', urb'[j].at = "doomed"
          PROVE  Pending' = {} /\ disabled' /\ mode' = "continue"
        BY <1>0, <1>2, <1>3, <1>4, <2>3, NoneOverflowed
    <2> QED BY <1>4, <1>5, <2>1, <2>2, <2>3 DEF KernelAgrees
<1>8. UrbsOutliveKernel'
    BY <1>5 DEF UrbsOutliveKernel
<1>9. UrbsAreCounted'
    <2>1. Num' = Num
        BY DEF Num
    <2> QED BY <1>4, <2>1 DEF UsbfsInv, UrbsAreCounted
<1>10. OverflowIsLast'
    BY <1>0, <1>2, <1>3, <1>5 DEF OverflowIsLast
<1> QED BY <1>1, <1>4, <1>6, <1>7, <1>8, <1>9, <1>10

\* The kernel gives a URB back that goes with a failed one.
LEMMA UnlinkKeeps ==
    ASSUME UsbfsAssumption, UsbfsInv, NEW i \in 1..MaxUrbs, Unlink(i)
    PROVE  UsbfsInv'
<1>0. /\ Num \in 1..MaxUrbs /\ MaxUrbs \in Nat /\ (kind = "control" => Num = 1)
      /\ InKernel \subseteq 1..submitted /\ InKernel \subseteq 1..MaxUrbs
      /\ submitted \in 0..Num /\ submitted \in 0..MaxUrbs /\ retired \in Nat
      /\ urb \in [1..MaxUrbs -> Urbs] /\ DOMAIN urb = 1..MaxUrbs
      /\ Cardinality(InKernel) \in Nat /\ (Cardinality(InKernel) = 0 <=> InKernel = {})
    BY NumIsBounded
<1> USE DEF UsbfsInv, Unlink, Completed, params, caps, privVars, dataVars, flagVars, kernel,
            NoLoop, NoUrb, Num, InKernel, Pending
<1>a. /\ urb' \in [1..MaxUrbs -> Urbs] /\ done' \in Seq(1..MaxUrbs)
      /\ EventsAreInPlace' /\ KernelAgrees' /\ UrbsOutliveKernel' /\ UrbsAreCounted' /\ OverflowIsLast'
    <2>1. /\ urb[i].at \in {"pending", "doomed"} /\ 0 \in Nat /\ done' = Append(done, i)
          /\ urb' = [urb EXCEPT ![i] = [at |-> "done", status |-> "killed", actual |-> 0]]
          /\ (loop' = NoLoop) <=> (loop = NoLoop)
          /\ UNCHANGED <<kind, length, mode, drains, held, submitted, retired, holder, event, disabled, gone>>
        OBVIOUS
    <2> HIDE DEF Unlink, Completed
    <2> QED BY <2>1, KillKeepsKernel
<1>b. kind = "bulk"
    BY <1>0, NoneOverflowed
<1>1. UsbfsTypeOK'
    BY <1>0, <1>a
       DEF UsbfsTypeOK, Kinds, Modes, Reports, Loops, Events, Urbs, UrbStatuses
<1>2. EventsAreInPlace'
    BY <1>a
<1>3. KernelAgrees'
    BY <1>a
<1>4. UrbsOutliveKernel'
    BY <1>a
<1>5. UrbsAreCounted'
    BY <1>a
<1>6. OverflowIsLast'
    BY <1>a
<1>7. CancelIsReported'
    BY <1>b DEF CancelIsReported
<1>8. LockIsHeldFor' /\ FlightIsKnown'
    BY DEF LockIsHeldFor, FlightIsKnown
<1> QED BY <1>1, <1>2, <1>3, <1>4, <1>5, <1>6, <1>7, <1>8

\* discard_urbs() asks for one URB: the kernel kills it, or has it no more.
LEMMA DiscardUrbKeeps ==
    ASSUME UsbfsAssumption, UsbfsInv, NEW n \in 0..MaxLength, DiscardUrb(n)
    PROVE  UsbfsInv'
<1>0. /\ Num \in 1..MaxUrbs /\ MaxUrbs \in Nat /\ (kind = "control" => Num = 1)
      /\ InKernel \subseteq 1..submitted /\ InKernel \subseteq 1..MaxUrbs
      /\ submitted \in 0..Num /\ submitted \in 0..MaxUrbs /\ retired \in Nat
      /\ urb \in [1..MaxUrbs -> Urbs] /\ DOMAIN urb = 1..MaxUrbs
      /\ Cardinality(InKernel) \in Nat /\ (Cardinality(InKernel) = 0 <=> InKernel = {})
    BY NumIsBounded
<1> USE DEF UsbfsInv, DiscardUrb, Completed, params, caps, privVars, dataVars, flagVars,
            kernel, NoLoop, NoUrb, Num, InKernel, Pending
<1> DEFINE i == loop.at
<1>a. /\ loop # NoLoop /\ i \in 1..Num /\ i \in 1..MaxUrbs /\ holder # "none" /\ loop \in Loops
      /\ loop.last \in 1..Num /\ i <= loop.last /\ loop.first >= 1
    BY <1>0 DEF LockIsHeldFor, UsbfsTypeOK, Loops
<1>b. /\ loop' \in Loops /\ loop' # NoLoop /\ loop'.last = loop.last
      /\ loop'.at = i - 1 /\ loop'.at < loop'.last
      /\ urb[i].at \in {"pending", "doomed"} => loop'.ret = loop.ret
    <2>1. PICK r \in {"ok", "no_device", "not_found"} :
             /\ loop' = [loop EXCEPT !.at = i - 1, !.ret = r]
             /\ urb[i].at \in {"pending", "doomed"} => r = loop.ret
        <3>1. CASE urb[i].at \in {"pending", "doomed"}
            BY <1>a, <3>1 DEF Loops
        <3>2. CASE urb[i].at \notin {"pending", "doomed"}
            BY <1>a, <3>2 DEF Loops
        <3> QED BY <3>1, <3>2
    <2>2. i - 1 \in 0..MaxUrbs
        BY <1>0, <1>a
    <2> HIDE DEF DiscardUrb, Completed
    <2>3. loop' = [at |-> i - 1, first |-> loop.first, last |-> loop.last, ret |-> r]
        BY <1>a, <2>1 DEF Loops
    <2>4. loop' \in Loops
        BY <1>a, <2>2, <2>3 DEF Loops
    <2> QED BY <1>a, <2>1, <2>2, <2>3, <2>4
<1>c. ASSUME urb[i].at \in {"pending", "doomed"}
      PROVE  /\ urb' \in [1..MaxUrbs -> Urbs] /\ done' \in Seq(1..MaxUrbs)
             /\ EventsAreInPlace' /\ KernelAgrees' /\ UrbsOutliveKernel' /\ UrbsAreCounted' /\ OverflowIsLast'
    <2>1. /\ n \in Nat /\ done' = Append(done, i)
          /\ urb' = [urb EXCEPT ![i] = [at |-> "done", status |-> "killed", actual |-> n]]
        BY <1>c
    <2>2. UNCHANGED <<kind, length, mode, drains, held, submitted, retired, holder, event, disabled, gone>>
        OBVIOUS
    <2> HIDE DEF DiscardUrb, Completed, i, NoLoop
    <2> QED BY <1>a, <1>b, <1>c, <2>1, <2>2, KillKeepsKernel
<1>d. ASSUME urb[i].at \notin {"pending", "doomed"}
      PROVE  urb' = urb /\ done' = done
    BY <1>d
<1>e. ASSUME urb[i].at \notin {"pending", "doomed"}
      PROVE  /\ EventsAreInPlace' /\ KernelAgrees' /\ UrbsOutliveKernel' /\ UrbsAreCounted' /\ OverflowIsLast'
    <2>1. UNCHANGED <<kind, length, mode, drains, held, submitted, retired, holder, event, disabled, gone, urb, done>>
        BY <1>d, <1>e
    <2>2. Num' = Num /\ InKernel' = InKernel /\ Pending' = Pending
        BY <2>1
    <2> HIDE DEF DiscardUrb, Completed, i, NoLoop, Num, InKernel, Pending
    <2> QED BY <1>a, <1>b, <2>1, <2>2
            DEF EventsAreInPlace, KernelAgrees, UrbsOutliveKernel, UrbsAreCounted, OverflowIsLast
<1>1. UsbfsTypeOK'
    <2>1. UNCHANGED <<kind, length, mode, drains, gone, held, submitted, retired, reapAction, reapStatus, inFlight,
                      asked, timedOut, outcome, holder, event, halted, disabled>>
        OBVIOUS
    <2> HIDE DEF DiscardUrb, Completed, i
    <2>2. UsbfsTypeOK
        BY DEF UsbfsInv
    <2>3. urb' \in [1..MaxUrbs -> Urbs] /\ done' \in Seq(1..MaxUrbs)
        <3>1. UNCHANGED <<urb, done>> => urb' \in [1..MaxUrbs -> Urbs] /\ done' \in Seq(1..MaxUrbs)
            BY <2>2 DEF UsbfsTypeOK
        <3> QED BY <1>c, <1>d, <3>1
    <2> HIDE DEF UsbfsInv
    <2> QED BY <1>b, <2>1, <2>2, <2>3 DEF UsbfsTypeOK
<1>2. LockIsHeldFor'
    <2>1. UNCHANGED <<kind, length, mode, held, inFlight, asked, reapAction, retired, submitted, holder, event>>
        OBVIOUS
    <2> HIDE DEF DiscardUrb, i, Completed
    <2> QED BY <1>0, <1>a, <1>b, <2>1 DEF LockIsHeldFor
<1>3. FlightIsKnown'
    BY DEF FlightIsKnown
<1>4. EventsAreInPlace'
    BY <1>c, <1>e
<1>5. KernelAgrees'
    BY <1>c, <1>e
<1>6. UrbsOutliveKernel'
    BY <1>c, <1>e
<1>7. UrbsAreCounted'
    BY <1>c, <1>e
<1>8. OverflowIsLast'
    BY <1>c, <1>e
<1>9. CancelIsReported'
    <2>1. UNCHANGED <<kind, reapAction, timedOut, asked, holder, event>>
        OBVIOUS
    <2>2. ASSUME kind = "control"
          PROVE  /\ loop.at = 1 /\ loop.last = 1 /\ loop.ret = "ok" /\ loop'.at = 0
                 /\ holder \in {"user", "timeout"}
        BY <1>0, <1>a, <1>b, <2>2 DEF LockIsHeldFor, UsbfsTypeOK
    <2>3. ASSUME kind = "control", reapAction # "cancelled", NEW j \in DOMAIN urb', urb'[j].status = "killed"
          PROVE  loop'.ret = "ok"
        <3>1. \A k \in DOMAIN urb : urb[k].status # "killed"
            BY <2>2, <2>3 DEF CancelIsReported
        <3>2. urb' # urb
            BY <2>3, <3>1
        <3> QED BY <1>b, <1>d, <2>2, <2>3, <3>2
    <2> HIDE DEF DiscardUrb, Completed, i
    <2> QED BY <2>1, <2>2, <2>3 DEF CancelIsReported
<1> QED BY <1>1, <1>2, <1>3, <1>4, <1>5, <1>6, <1>7, <1>8, <1>9

\* The device answers the first URB; those that continue it may go with it.
LEMMA AnswerKeeps ==
    ASSUME UsbfsAssumption, UsbfsInv, NEW i \in 1..MaxUrbs, NEW n \in 0..MaxLength,
           NEW st \in {"ok", "short", "stall", "bus", "overflow"}, Answer(i, st, n)
    PROVE  UsbfsInv'
<1>0. /\ Num \in 1..MaxUrbs /\ MaxUrbs \in Nat /\ (kind = "control" => Num = 1)
      /\ InKernel \subseteq 1..submitted /\ InKernel \subseteq 1..MaxUrbs
      /\ submitted \in 0..Num /\ submitted \in 0..MaxUrbs /\ retired \in Nat
      /\ urb \in [1..MaxUrbs -> Urbs] /\ DOMAIN urb = 1..MaxUrbs
      /\ Cardinality(InKernel) \in Nat /\ (Cardinality(InKernel) = 0 <=> InKernel = {})
    BY NumIsBounded
<1> USE DEF UsbfsInv, Answer, params, caps, privVars, dataVars, flagVars, kernel, NoLoop,
            NoUrb, Num, InKernel, Pending
<1> DEFINE takes == kind = "bulk" /\ mode = "continue" /\ st # "ok"
<1>a. /\ i \in Pending /\ urb[i].at = "pending" /\ (\A j \in Pending : i <= j) /\ ~gone /\ held /\ i \in InKernel
      /\ \A j \in DOMAIN urb : urb[j].status # "overflow" /\ urb[j].at # "doomed"
    <2>1. i \in Pending /\ urb[i].at = "pending" /\ (\A j \in Pending : i <= j) /\ ~gone
        BY DEF Active
    <2>2. held /\ i \in InKernel /\ \A j \in DOMAIN urb : urb[j].status # "overflow"
        BY <1>0, <2>1, NoneOverflowed
    <2>3. \A j \in DOMAIN urb : urb[j].at # "doomed"
        <3> HIDE DEF Answer, InKernel, Pending
        <3> QED BY <2>1, NoneOverflowed
    <2> QED BY <2>1, <2>2, <2>3
<1>b. \A j \in 1..MaxUrbs : urb'[j] = IF j = i THEN [at |-> "done", status |-> st, actual |-> n]
                                      ELSE IF takes /\ j > i /\ urb[j].at = "pending"
                                      THEN [urb[j] EXCEPT !.at = "doomed"] ELSE urb[j]
    <2>1. DOMAIN Completed(i, st, n) = 1..MaxUrbs
        BY <1>0 DEF Completed
    <2>2. urb' = Doomed(Completed(i, st, n), i, st)
        OBVIOUS
    <2> HIDE DEF Answer
    <2>3. CASE takes
        <3>1. urb' = [j \in 1..MaxUrbs |-> IF j > i /\ Completed(i, st, n)[j].at = "pending"
                        THEN [Completed(i, st, n)[j] EXCEPT !.at = "doomed"] ELSE Completed(i, st, n)[j]]
            BY <2>1, <2>2, <2>3 DEF Doomed
        <3> QED BY <1>0, <2>3, <3>1 DEF Completed
    <2>4. CASE ~takes
        <3>1. urb' = Completed(i, st, n)
            BY <2>2, <2>4 DEF Doomed
        <3> QED BY <1>0, <2>4, <3>1 DEF Completed
    <2> QED BY <2>3, <2>4
<1>c. urb' \in [1..MaxUrbs -> Urbs] /\ DOMAIN urb' = 1..MaxUrbs
    <2>1. \A j \in 1..MaxUrbs : urb'[j] \in Urbs
        <3>1. [at |-> "done", status |-> st, actual |-> n] \in Urbs
            BY DEF Urbs, UrbStatuses
        <3>2. ASSUME NEW j \in 1..MaxUrbs
              PROVE  [urb[j] EXCEPT !.at = "doomed"] \in Urbs /\ urb[j] \in Urbs
            <4>1. urb[j] \in Urbs
                BY <1>0
            <4> QED BY <4>1, MarkedUrb
        <3> HIDE DEF Answer, takes
        <3> QED BY <1>b, <3>1, <3>2
    <2>2. urb' = [j \in 1..MaxUrbs |-> urb'[j]]
        <3> HIDE DEF takes
        <3> QED BY <1>0 DEF Doomed, Completed
    <2> QED BY <2>1, <2>2
<1>d. /\ urb'[i].at = "done"
      /\ \A j \in 1..MaxUrbs : urb'[j].status = IF j = i THEN st ELSE urb[j].status
      /\ \A j \in 1..MaxUrbs \ {i} :
            urb'[j].at = urb[j].at \/ (takes /\ j > i /\ urb[j].at = "pending" /\ urb'[j].at = "doomed")
      /\ \A j \in 1..MaxUrbs \ {i} : takes /\ j > i => urb'[j].at # "pending"
    <2> HIDE DEF Answer
    <2>1. \A j \in 1..MaxUrbs : urb[j] \in Urbs
        BY <1>0
    <2>2. urb'[i].at = "done" /\ urb'[i].status = st
        <3>1. urb'[i] = [at |-> "done", status |-> st, actual |-> n]
            BY <1>b
        <3> QED BY <3>1
    <2>3. ASSUME NEW j \in 1..MaxUrbs \ {i}
          PROVE  /\ urb'[j].status = urb[j].status
                 /\ urb'[j].at = urb[j].at \/ (takes /\ j > i /\ urb[j].at = "pending" /\ urb'[j].at = "doomed")
                 /\ takes /\ j > i => urb'[j].at # "pending"
        <3>1. CASE takes /\ j > i /\ urb[j].at = "pending"
            <4>1. urb[j] \in Urbs /\ urb'[j] = [urb[j] EXCEPT !.at = "doomed"]
                BY <1>b, <2>1, <3>1
            <4> QED BY <3>1, <4>1, MarkedUrb
        <3>2. CASE ~(takes /\ j > i /\ urb[j].at = "pending")
            BY <1>b, <3>2
        <3> QED BY <3>1, <3>2
    <2> QED BY <2>2, <2>3
<1>e. /\ InKernel' = InKernel /\ Pending' \subseteq Pending \ {i} /\ i \in InKernel
      /\ done' \in Seq(1..MaxUrbs) /\ done'[Len(done')] = i /\ done' # <<>>
      /\ \A j \in DOMAIN urb' : urb'[j].at = "done" <=> \E a \in DOMAIN done' : done'[a] = j
      /\ \A a, b \in DOMAIN done' : done'[a] = done'[b] => a = b
    <2>1. done' = Append(done, i)
        OBVIOUS
    <2>2. \A j \in 1..MaxUrbs \ {i} : urb'[j].at = urb[j].at \/ (urb[j].at = "pending" /\ urb'[j].at = "doomed")
        BY <1>d
    <2>3. urb[i].at \in {"pending", "doomed"}
        BY <1>a
    <2> HIDE DEF Answer, takes, InKernel, Pending
    <2> QED BY <1>0, <1>c, <1>d, <2>1, <2>2, <2>3, KernelCompletes
<1>f. takes => Pending' = {}
    <2>1. ASSUME takes, NEW j \in Pending'
          PROVE  FALSE
        <3>1. j \in Pending /\ j # i /\ j \in 1..MaxUrbs
            BY <1>0, <1>e
        <3>2. j > i /\ urb'[j].at = "pending"
            BY <1>0, <1>a, <3>1
        <3> QED BY <1>d, <2>1, <3>1, <3>2
    <2> QED BY <2>1
<1>g. UNCHANGED <<kind, length, mode, drains, held, submitted, retired, holder, event, loop, gone>>
    OBVIOUS
<1>h. disabled' = (disabled \/ takes) /\ (st = "short" => kind = "bulk") /\ (st = "overflow" => i = Num)
    BY DEF ShortNotOk
<1>1. UsbfsTypeOK'
    <2>1. UNCHANGED <<reapAction, reapStatus, inFlight, asked, timedOut, outcome>>
        OBVIOUS
    <2>2. halted' = (st = "stall")
        OBVIOUS
    <2> HIDE DEF Answer, takes
    <2>3. UsbfsTypeOK
        BY DEF UsbfsInv
    <2>4. disabled' \in BOOLEAN
        BY <1>h
    <2>5. halted' \in BOOLEAN
        BY <2>2
    <2> QED BY <1>c, <1>e, <1>g, <2>1, <2>3, <2>4, <2>5 DEF UsbfsTypeOK
<1>2. EventsAreInPlace'
    <2>1. event.at = "lock" => event.urb \in 1..MaxUrbs /\ event.urb # i
        BY <1>0, <1>a DEF EventsAreInPlace
    <2> HIDE DEF Answer
    <2> QED BY <1>d, <1>g, <2>1 DEF EventsAreInPlace
<1>3. KernelAgrees'
    <2> HIDE DEF Answer, takes, InKernel, Pending
    <2>1. \A j \in DOMAIN urb' : urb'[j].at = "none" \/ j <= submitted'
        BY <1>0, <1>a, <1>c, <1>d, <1>g DEF KernelAgrees
    <2>2. ASSUME NEW j \in DOMAIN urb'
          PROVE  /\ urb'[j].at \in {"done", "reaped"} <=> urb'[j].status # "none"
                 /\ urb'[j].status = "short" => kind' = "bulk"
        BY <1>0, <1>c, <1>d, <1>g, <1>h, StatusIsKnown
    <2>3. ASSUME NEW j \in DOMAIN urb', urb'[j].at = "doomed"
          PROVE  Pending' = {} /\ disabled' /\ mode' = "continue"
        <3>1. takes
            BY <1>0, <1>a, <1>c, <1>d, <2>3
        <3> QED BY <1>f, <1>g, <1>h, <3>1 DEF takes
    <2> QED BY <1>a, <1>e, <1>g, <2>1, <2>2, <2>3 DEF KernelAgrees
<1>4. UrbsOutliveKernel'
    BY <1>a DEF UrbsOutliveKernel
<1>5. UrbsAreCounted'
    <2>1. Num' = Num
        BY <1>g
    <2> HIDE DEF Answer, InKernel, Num
    <2> QED BY <1>e, <1>g, <2>1 DEF UrbsAreCounted
<1>6. OverflowIsLast'
    <2> SUFFICES ASSUME NEW k \in DOMAIN urb', urb'[k].status = "overflow"
                 PROVE  /\ k = Num' /\ \A j \in InKernel' : urb'[j].at = "done"
                        /\ urb'[k].at = "done" => done'[Len(done')] = k
                        /\ urb'[k].at # "done" => InKernel' = {}
        BY DEF OverflowIsLast
    <2>1. k = i /\ st = "overflow" /\ i = Num /\ Num' = Num
        <3> HIDE DEF Answer, takes
        <3>1. k \in 1..MaxUrbs /\ urb'[k].status = IF k = i THEN st ELSE urb[k].status
            BY <1>c, <1>d
        <3>2. k = i
            BY <1>0, <1>a, <3>1
        <3>3. st = "overflow"
            BY <3>1, <3>2
        <3> QED BY <1>g, <1>h, <3>2, <3>3
    <2>2. ASSUME NEW j \in InKernel'
          PROVE  urb'[j].at = "done"
        <3>1. j \in InKernel /\ j \in 1..MaxUrbs /\ j <= Num
            BY <1>0, <1>e
        <3>2. CASE j = i
            BY <1>d, <3>2
        <3>3. CASE j # i
            <4>1. j \notin Pending
                BY <1>0, <1>a, <2>1, <3>1, <3>3
            <4>2. urb[j].at = "done"
                BY <1>0, <1>a, <3>1, <4>1
            <4> HIDE DEF Answer, takes
            <4> QED BY <1>d, <3>1, <3>3, <4>2
        <3> QED BY <3>2, <3>3
    <2> QED BY <1>d, <1>e, <2>1, <2>2
<1>7. CancelIsReported'
    <2>1. \A j \in DOMAIN urb' : urb'[j].status = "killed" => urb[j].status = "killed" /\ j \in DOMAIN urb
        BY <1>0, <1>c, <1>d
    <2> QED BY <2>1 DEF CancelIsReported
<1>8. LockIsHeldFor' /\ FlightIsKnown'
    BY DEF LockIsHeldFor, FlightIsKnown
<1> QED BY <1>1, <1>2, <1>3, <1>4, <1>5, <1>6, <1>7, <1>8

\* A function on 1..n is a sequence of n elements.
LEMMA IsSequence ==
    ASSUME NEW S, NEW n \in Nat, NEW f \in [1..n -> S]
    PROVE  f \in Seq(S) /\ Len(f) = n
OBVIOUS

\* A kernel that can be drained completes what it has, another forgets it.
LEMMA UnplugKeeps ==
    ASSUME UsbfsAssumption, UsbfsInv, Unplug
    PROVE  UsbfsInv'
<1>0. /\ Num \in 1..MaxUrbs /\ MaxUrbs \in Nat /\ (kind = "control" => Num = 1)
      /\ InKernel \subseteq 1..submitted /\ InKernel \subseteq 1..MaxUrbs
      /\ submitted \in 0..Num /\ submitted \in 0..MaxUrbs /\ retired \in Nat
      /\ urb \in [1..MaxUrbs -> Urbs] /\ DOMAIN urb = 1..MaxUrbs
      /\ Cardinality(InKernel) \in Nat /\ (Cardinality(InKernel) = 0 <=> InKernel = {})
    BY NumIsBounded
<1> USE DEF UsbfsInv, Unplug, params, caps, privVars, dataVars, flagVars, kernel, NoLoop,
            NoUrb, Num, InKernel, Pending
<1> DEFINE ended == {i \in InKernel : urb[i].at # "done"}
<1> HIDE DEF Unplug
<1>a. /\ UNCHANGED <<kind, length, mode, drains, held, submitted, retired, reapAction, reapStatus, inFlight,
                     asked, timedOut, outcome, holder, loop, event, halted, disabled>>
      /\ Num' = Num /\ ~gone /\ gone'
    BY DEF Unplug
<1>b. ended \subseteq 1..MaxUrbs /\ Cardinality(ended) \in Nat /\ (Cardinality(ended) = 0 <=> ended = {})
    <2>1. ended \in SUBSET (1..MaxUrbs)
        BY <1>0
    <2> HIDE DEF ended
    <2> QED BY <2>1, UrbsCount
<1>c. ASSUME drains
      PROVE  /\ done' \in Seq(1..MaxUrbs)
             /\ \A i \in 1..MaxUrbs : (i \in ended \/ \E a \in DOMAIN done : done[a] = i)
                                         <=> \E a \in DOMAIN done' : done'[a] = i
             /\ \A a, b \in DOMAIN done' : done'[a] = done'[b] => a = b
             /\ ended = {} => done' = done
    <2>1. PICK order \in [1..Cardinality(ended) -> ended] :
             /\ \A a, b \in DOMAIN order : a < b => order[a] < order[b]
             /\ \A i \in ended : \E a \in DOMAIN order : order[a] = i
             /\ done' = done \o order
        BY <1>c DEF Unplug
    <2>2. done \in Seq(1..MaxUrbs) /\ DOMAIN done = 1..Len(done) /\ Len(done) \in Nat
        BY DEF UsbfsTypeOK
    <2>3. order \in [1..Cardinality(ended) -> 1..MaxUrbs] /\ DOMAIN order = 1..Cardinality(ended)
        BY <1>b, <2>1
    <2> DEFINE c == Cardinality(ended)
    <2>4. /\ done' \in Seq(1..MaxUrbs) /\ DOMAIN done' = 1 .. Len(done) + c
          /\ \A a \in 1..Len(done) : done'[a] = done[a]
          /\ \A a \in 1..c : done'[Len(done) + a] = order[a]
          /\ c = 0 => done' = done
        <3>1. c \in Nat /\ order \in [1..c -> 1..MaxUrbs]
            BY <1>b, <2>3
        <3> HIDE DEF c, ended
        <3>2. /\ done \o order \in Seq(1..MaxUrbs) /\ DOMAIN (done \o order) = 1 .. Len(done) + c
              /\ \A a \in 1..Len(done) : (done \o order)[a] = done[a]
              /\ \A a \in 1..c : (done \o order)[Len(done) + a] = order[a]
              /\ c = 0 => done \o order = done
            <4>1. order \in Seq(1..MaxUrbs) /\ Len(order) = c
                BY <3>1, IsSequence, Zenon
            <4>2. done \o order \in Seq(1..MaxUrbs) /\ DOMAIN (done \o order) = 1 .. Len(done) + c
                BY <2>2, <3>1, <4>1
            <4>3. \A a \in 1..Len(done) : (done \o order)[a] = done[a]
                BY <2>2, <3>1, <4>1
            <4>4. \A a \in 1..c : (done \o order)[Len(done) + a] = order[a]
                BY <2>2, <3>1, <4>1
            <4>5. ASSUME c = 0
                  PROVE  done \o order = done
                <5>1. order = <<>>
                    BY <4>1, <4>5
                <5> QED BY <2>2, <5>1
            <4> QED BY <4>2, <4>3, <4>4, <4>5
        <3> QED BY <2>1, <3>2
    <2>5. \A a \in 1..Len(done), b \in 1..c : done[a] # order[b]
        <3>1. \A a \in DOMAIN done : done[a] \in 1..MaxUrbs /\ urb[done[a]].at = "done"
            BY <1>0, <2>2 DEF KernelAgrees
        <3> QED BY <2>1, <2>2, <2>3, <3>1
    <2>6. \A a, b \in 1..c : order[a] = order[b] => a = b
        <3> SUFFICES ASSUME NEW a \in 1..c, NEW b \in 1..c, a < b, order[a] = order[b]
                     PROVE  FALSE
            BY <1>b
        <3>1. order[a] < order[b] /\ order[a] \in 1..MaxUrbs
            BY <2>1, <2>3
        <3> QED BY <1>0, <3>1
    <2>7. \A a \in DOMAIN done' : a \in 1..Len(done) \/ \E d \in 1..c : a = Len(done) + d
        <3> SUFFICES ASSUME NEW a \in 1 .. Len(done) + c, a \notin 1..Len(done)
                     PROVE  \E d \in 1..c : a = Len(done) + d
            BY <2>4
        <3>1. a - Len(done) \in 1..c /\ a = Len(done) + (a - Len(done))
            BY <1>b, <2>2
        <3> QED BY <3>1
    <2>8. \A d \in 1..c : Len(done) + d \in DOMAIN done'
        BY <1>b, <2>2, <2>4
    <2>9. ASSUME NEW i \in 1..MaxUrbs
          PROVE  (i \in ended \/ \E a \in DOMAIN done : done[a] = i) <=> \E a \in DOMAIN done' : done'[a] = i
        <3>1. ASSUME i \in ended
              PROVE  \E a \in DOMAIN done' : done'[a] = i
            <4>1. PICK d \in 1..c : order[d] = i
                BY <2>1, <2>3, <3>1
            <4> QED BY <2>4, <2>8, <4>1
        <3>2. ASSUME NEW a \in DOMAIN done, done[a] = i
              PROVE  \E b \in DOMAIN done' : done'[b] = i
            <4>1. a \in DOMAIN done' /\ done'[a] = i
                BY <1>b, <2>2, <2>4, <3>2
            <4> QED BY <4>1
        <3>3. ASSUME NEW a \in DOMAIN done', done'[a] = i
              PROVE  i \in ended \/ \E b \in DOMAIN done : done[b] = i
            <4>1. CASE a \in 1..Len(done)
                BY <2>2, <2>4, <3>3, <4>1
            <4>2. ASSUME NEW d \in 1..c, a = Len(done) + d
                  PROVE  i \in ended
                <5> HIDE DEF ended, c
                <5>1. order[d] \in ended
                    BY <2>1 DEF c
                <5>2. done'[a] = order[d]
                    BY <2>4, <4>2
                <5> QED BY <3>3, <5>1, <5>2
            <4> QED BY <2>7, <4>1, <4>2
        <3> QED BY <3>1, <3>2, <3>3
    <2>10. ASSUME NEW a \in DOMAIN done', NEW b \in DOMAIN done', done'[a] = done'[b]
           PROVE  a = b
        <3>1. CASE a \in 1..Len(done) /\ b \in 1..Len(done)
            BY <2>2, <2>4, <2>10, <3>1 DEF KernelAgrees
        <3>2. ASSUME NEW d \in 1..c, a = Len(done) + d, b \in 1..Len(done)
              PROVE  FALSE
            BY <2>4, <2>5, <2>10, <3>2
        <3>3. ASSUME NEW d \in 1..c, b = Len(done) + d, a \in 1..Len(done)
              PROVE  FALSE
            BY <2>4, <2>5, <2>10, <3>3
        <3>4. ASSUME NEW d \in 1..c, a = Len(done) + d, NEW e \in 1..c, b = Len(done) + e
              PROVE  a = b
            BY <2>4, <2>6, <2>10, <3>4
        <3> QED BY <2>7, <3>1, <3>2, <3>3, <3>4
    <2>11. ended = {} => done' = done
        BY <1>b, <2>4
    <2> QED BY <2>4, <2>9, <2>10, <2>11
<1>d. /\ drains => urb' = [i \in 1..MaxUrbs |-> IF i \in ended THEN [at |-> "done", status |-> "gone", actual |-> 0]
                                               ELSE urb[i]]
      /\ ~drains => done' = <<>> /\ urb' = [i \in 1..MaxUrbs |-> IF i \in InKernel THEN NoUrb ELSE urb[i]]
    BY <1>0 DEF Unplug
<1>e. /\ urb' \in [1..MaxUrbs -> Urbs] /\ DOMAIN urb' = 1..MaxUrbs
      /\ \A i \in 1..MaxUrbs : i \notin InKernel => urb'[i] = urb[i]
      /\ \A i \in 1..MaxUrbs : /\ urb'[i].at \notin {"pending", "doomed"}
                               /\ ~drains => urb'[i].at # "done"
                               /\ drains => (urb'[i].at = "done" <=> i \in InKernel)
      /\ \A i \in 1..MaxUrbs : urb'[i].status = urb[i].status \/ (i \in ended /\ urb'[i].status = "gone")
                               \/ (~drains /\ i \in InKernel /\ urb'[i].status = "none")
    <2>1. CASE drains
        <3>1. [at |-> "done", status |-> "gone", actual |-> 0] \in Urbs
            BY DEF Urbs, UrbStatuses
        <3>2. urb' \in [1..MaxUrbs -> Urbs] /\ DOMAIN urb' = 1..MaxUrbs
            BY <1>0, <1>d, <2>1, <3>1
        <3>3. \A i \in 1..MaxUrbs : urb'[i] = IF i \in ended THEN [at |-> "done", status |-> "gone", actual |-> 0]
                                              ELSE urb[i]
            BY <1>d, <2>1
        <3>4. \A i \in ended : i \in InKernel
            OBVIOUS
        <3>5. \A i \in 1..MaxUrbs : i \notin ended => urb[i].at \notin {"pending", "doomed"}
            BY <1>0
        <3>6. \A i \in 1..MaxUrbs : i \notin ended => (urb[i].at = "done" <=> i \in InKernel)
            BY <1>0
        <3> HIDE DEF ended, InKernel
        <3> QED BY <2>1, <3>2, <3>3, <3>4, <3>5, <3>6
    <2>2. CASE ~drains
        <3>1. NoUrb \in Urbs
            BY DEF Urbs, UrbStatuses
        <3>2. urb' \in [1..MaxUrbs -> Urbs] /\ DOMAIN urb' = 1..MaxUrbs
            BY <1>0, <1>d, <2>2, <3>1
        <3>3. \A i \in 1..MaxUrbs : urb'[i] = IF i \in InKernel THEN NoUrb ELSE urb[i]
            BY <1>d, <2>2
        <3>4. \A i \in 1..MaxUrbs : i \notin InKernel => urb[i].at \notin {"pending", "doomed", "done"}
            BY <1>0
        <3> HIDE DEF ended, InKernel
        <3> QED BY <2>2, <3>2, <3>3, <3>4
    <2> QED BY <2>1, <2>2
<1>f. Pending' = {} /\ (drains => InKernel' = InKernel) /\ (~drains => InKernel' = {})
    <2>1. \A i \in 1..MaxUrbs : urb'[i].at \notin {"pending", "doomed"}
        BY <1>e
    <2>2. InKernel' = {i \in 1..MaxUrbs : urb'[i].at = "done"} /\ Pending' = {}
        BY <1>e, <2>1
    <2> QED BY <1>0, <1>e, <2>2
<1>1. UsbfsTypeOK'
    <2>1. /\ kind' \in Kinds /\ mode' \in Modes /\ length' \in 0..MaxLength
          /\ submitted' \in 0..Num' /\ retired' \in Nat
        BY <1>0, <1>a DEF UsbfsTypeOK, Kinds, Modes
    <2>2. /\ drains' \in BOOLEAN /\ held' \in BOOLEAN /\ inFlight' \in BOOLEAN /\ timedOut' \in BOOLEAN
          /\ halted' \in BOOLEAN /\ disabled' \in BOOLEAN /\ gone' \in BOOLEAN
          /\ kind' # "bulk" => mode' = "whole"
        BY <1>0, <1>a DEF UsbfsTypeOK
    <2>3. /\ reapAction' \in {"normal", "early", "failed", "error", "cancelled"} /\ reapStatus' \in Reports
          /\ asked' \in {"no", "user", "timeout"}
          /\ outcome' \in Reports \cup {"none", "waiting", "refused", "cancelled", "timed_out"}
          /\ holder' \in {"none", "submit", "user", "timeout", "event"}
        BY <1>0, <1>a DEF UsbfsTypeOK, Reports
    <2>4. loop' \in Loops
        BY <1>0, <1>a DEF UsbfsTypeOK, Loops
    <2>5. event' \in Events
        BY <1>0, <1>a DEF UsbfsTypeOK, Events, Reports
    <2>6. urb' \in [1..MaxUrbs -> Urbs] /\ done' \in Seq(1..MaxUrbs)
        <3>1. <<>> \in Seq(1..MaxUrbs)
            OBVIOUS
        <3> QED BY <1>c, <1>d, <1>e, <3>1
    <2> QED BY <2>1, <2>2, <2>3, <2>4, <2>5, <2>6 DEF UsbfsTypeOK
<1>2. LockIsHeldFor'
    BY <1>a DEF LockIsHeldFor
<1>3. FlightIsKnown'
    BY <1>a DEF FlightIsKnown
<1>4. EventsAreInPlace'
    <2>1. event.at = "lock" => event.urb \in 1..MaxUrbs /\ event.urb \notin InKernel
        BY <1>0 DEF EventsAreInPlace
    <2> QED BY <1>a, <1>e, <2>1 DEF EventsAreInPlace
<1>5. KernelAgrees'
    <2>1. ASSUME NEW j \in 1..MaxUrbs
          PROVE  urb'[j].at = "none" \/ j <= submitted'
        <3>1. CASE j \in InKernel
            BY <1>0, <1>a, <3>1
        <3>2. CASE j \notin InKernel
            BY <1>0, <1>a, <1>e, <3>2 DEF KernelAgrees
        <3> QED BY <3>1, <3>2
    <2>2. ASSUME NEW j \in 1..MaxUrbs
          PROVE  urb'[j].at = "done" <=> \E a \in DOMAIN done' : done'[a] = j
        <3>1. CASE drains
            <4>1. urb'[j].at = "done" <=> j \in InKernel
                BY <1>e, <3>1
            <4>2. j \in InKernel <=> j \in ended \/ urb[j].at = "done"
                BY <1>0
            <4>3. urb[j].at = "done" <=> \E a \in DOMAIN done : done[a] = j
                BY <1>0 DEF KernelAgrees
            <4> HIDE DEF ended, InKernel
            <4> QED BY <1>c, <3>1, <4>1, <4>2, <4>3
        <3>2. CASE ~drains
            <4>1. urb'[j].at # "done" /\ done' = <<>>
                BY <1>d, <1>e, <3>2
            <4>2. DOMAIN done' = {}
                BY <4>1
            <4> QED BY <4>1, <4>2
        <3> QED BY <3>1, <3>2
    <2>3. \A a, b \in DOMAIN done' : done'[a] = done'[b] => a = b
        <3>1. CASE drains
            BY <1>c, <3>1
        <3>2. CASE ~drains
            BY <1>d, <3>2
        <3> QED BY <3>1, <3>2
    <2>4. ASSUME NEW j \in 1..MaxUrbs
          PROVE  /\ urb'[j].at \in {"done", "reaped"} <=> urb'[j].status # "none"
                 /\ urb'[j].status = "short" => kind' = "bulk"
        <3>1. CASE j \in InKernel /\ ~drains
            BY <1>a, <1>d, <3>1
        <3>2. CASE j \in ended /\ drains
            BY <1>a, <1>d, <3>2
        <3>3. CASE (drains /\ j \notin ended) \/ (~drains /\ j \notin InKernel)
            <4>1. urb'[j] = urb[j]
                BY <1>d, <3>3
            <4> QED BY <1>0, <1>a, <4>1, StatusIsKnown
        <3> QED BY <3>1, <3>2, <3>3
    <2>5. ASSUME NEW j \in InKernel'
          PROVE  urb'[j].at = "done" /\ drains'
        BY <1>0, <1>a, <1>e, <1>f
    <2> HIDE DEF ended, InKernel, Pending
    <2> QED BY <1>e, <2>1, <2>2, <2>3, <2>4, <2>5 DEF KernelAgrees
<1>6. UrbsOutliveKernel'
    <2>1. ASSUME ~held
          PROVE  ended = {} /\ InKernel = {} /\ done = <<>>
        BY <2>1 DEF UrbsOutliveKernel
    <2> HIDE DEF ended, InKernel
    <2> QED BY <1>a, <1>c, <1>d, <1>f, <2>1 DEF UrbsOutliveKernel
<1>7. UrbsAreCounted'
    <2> HIDE DEF ended, InKernel, Num
    <2> QED BY <1>a, <1>f DEF UrbsAreCounted
<1>8. OverflowIsLast'
    <2> SUFFICES ASSUME NEW k \in 1..MaxUrbs, urb'[k].status = "overflow"
                 PROVE  /\ k = Num' /\ \A j \in InKernel' : urb'[j].at = "done"
                        /\ urb'[k].at = "done" => done'[Len(done')] = k
                        /\ urb'[k].at # "done" => InKernel' = {}
        BY <1>e DEF OverflowIsLast
    <2>1. urb[k].status = "overflow"
        BY <1>e
    <2>2. k = Num /\ \A j \in InKernel : urb[j].at = "done"
        BY <1>0, <2>1 DEF OverflowIsLast
    <2>3. ended = {} /\ \A j \in InKernel' : urb'[j].at = "done"
        BY <1>0, <1>e, <1>f, <2>2
    <2>4. CASE drains
        <3>1. done' = done /\ urb'[k] = urb[k] /\ InKernel' = InKernel
            BY <1>c, <1>d, <1>f, <2>3, <2>4
        <3> QED BY <1>0, <1>a, <2>1, <2>2, <2>3, <3>1 DEF OverflowIsLast
    <2>5. CASE ~drains
        BY <1>a, <1>e, <1>f, <2>2, <2>5
    <2> QED BY <2>4, <2>5
<1>9. CancelIsReported'
    <2>1. \A j \in DOMAIN urb' : urb'[j].status = "killed" => urb[j].status = "killed" /\ j \in DOMAIN urb
        BY <1>0, <1>e
    <2> QED BY <1>a, <2>1 DEF CancelIsReported
<1> QED BY <1>1, <1>2, <1>3, <1>4, <1>5, <1>6, <1>7, <1>8, <1>9

\* The thread that handles events takes the URB that was completed first.
LEMMA ReapKeeps ==
    ASSUME UsbfsAssumption, UsbfsInv, Reap
    PROVE  UsbfsInv'
<1>0. /\ Num \in 1..MaxUrbs /\ MaxUrbs \in Nat /\ (kind = "control" => Num = 1)
      /\ InKernel \subseteq 1..submitted /\ InKernel \subseteq 1..MaxUrbs
      /\ submitted \in 0..Num /\ submitted \in 0..MaxUrbs /\ retired \in Nat
      /\ urb \in [1..MaxUrbs -> Urbs] /\ DOMAIN urb = 1..MaxUrbs
      /\ Cardinality(InKernel) \in Nat /\ (Cardinality(InKernel) = 0 <=> InKernel = {})
    BY NumIsBounded
<1> USE DEF UsbfsInv, Reap, params, caps, privVars, dataVars, flagVars, kernel, NoLoop,
            NoUrb, Num, InKernel, Pending
<1> DEFINE h == Head(done)
<1> HIDE DEF Reap
<1>a. /\ UNCHANGED <<kind, length, mode, drains, held, submitted, retired, reapAction, reapStatus, inFlight,
                     asked, timedOut, outcome, holder, loop, disabled, halted, gone>>
      /\ Num' = Num /\ event.at \in {"poll", "drain"} /\ done # <<>> /\ done' = Tail(done)
      /\ event' = [event EXCEPT !.urb = h, !.back = event.at, !.at = "lock"]
      /\ urb' = [urb EXCEPT ![h].at = "reaped"]
    BY DEF Reap
<1>b. /\ Len(done) \in Nat \ {0} /\ DOMAIN done = 1..Len(done) /\ h = done[1] /\ h \in 1..MaxUrbs
      /\ done' \in Seq(1..MaxUrbs) /\ Len(done') = Len(done) - 1 /\ DOMAIN done' = 1..Len(done)-1
      /\ \A a \in 1..Len(done)-1 : done'[a] = done[a + 1]
    <2>1. done \in Seq(1..MaxUrbs)
        BY DEF UsbfsTypeOK
    <2> HIDE DEF h
    <2>2. /\ Len(done) \in Nat \ {0} /\ DOMAIN done = 1..Len(done)
          /\ Head(done) = done[1] /\ Head(done) \in 1..MaxUrbs
          /\ Tail(done) \in Seq(1..MaxUrbs) /\ Len(Tail(done)) = Len(done) - 1
          /\ \A a \in 1..Len(done)-1 : Tail(done)[a] = done[a + 1]
        BY <1>a, <2>1, FirstOf, Zenon
    <2>3. DOMAIN done' = 1..Len(done')
        BY <1>a, <2>2
    <2> QED BY <1>a, <2>2, <2>3 DEF h
<1>c. \A j \in 1..MaxUrbs : (\E a \in 1..Len(done) : done[a] = j) <=> urb[j].at = "done"
    BY <1>0, <1>b DEF KernelAgrees
<1>d. \A a, b \in 1..Len(done) : done[a] = done[b] => a = b
    BY <1>b DEF KernelAgrees
<1>e. urb[h].at = "done" /\ h \in InKernel /\ held
    <2>1. 1 \in 1..Len(done)
        BY <1>b
    <2>2. urb[h].at = "done"
        BY <1>b, <1>c, <2>1
    <2> QED BY <1>0, <1>a, <1>b, <2>2 DEF UrbsOutliveKernel
<1>f. /\ urb' \in [1..MaxUrbs -> Urbs] /\ DOMAIN urb' = 1..MaxUrbs
      /\ urb'[h].at = "reaped" /\ urb'[h].status = urb[h].status
      /\ \A j \in 1..MaxUrbs \ {h} : urb'[j] = urb[j]
    <2>1. /\ urb[h] \in Urbs /\ urb' = [urb EXCEPT ![h] = [urb[h] EXCEPT !.at = "reaped"]]
        BY <1>0, <1>a, <1>b
    <2> DEFINE u == [urb[h] EXCEPT !.at = "reaped"]
    <2>2. u \in Urbs /\ u.at = "reaped" /\ u.status = urb[h].status
        BY <2>1, MarkedUrb
    <2> HIDE DEF u, h
    <2>3. urb' = [urb EXCEPT ![h] = u]
        BY <2>1 DEF u
    <2> QED BY <1>0, <1>b, <2>2, <2>3
<1>g. InKernel' = InKernel \ {h} /\ Pending' = Pending
    <2> HIDE DEF h
    <2> QED BY <1>0, <1>e, <1>f
<1>h. Cardinality(InKernel') = Cardinality(InKernel) - 1
    <2>1. InKernel \in SUBSET (1..MaxUrbs)
        BY <1>0
    <2> HIDE DEF InKernel, h
    <2> QED BY <1>e, <1>g, <2>1, UrbsCount
<1>i. /\ event' \in Events /\ event'.at = "lock" /\ event'.urb = h /\ event'.back = event.at
    <2>1. event \in Events /\ h \in 0..MaxUrbs
        BY <1>0, <1>b DEF UsbfsTypeOK
    <2> HIDE DEF h
    <2> QED BY <1>a, <2>1 DEF Events
<1>1. UsbfsTypeOK'
    <2> HIDE DEF h
    <2>1. UsbfsTypeOK
        BY DEF UsbfsInv
    <2> HIDE DEF UsbfsInv
    <2> QED BY <1>a, <1>i, <1>b, <1>f, <2>1 DEF UsbfsTypeOK
<1>2. LockIsHeldFor'
    BY <1>a, <1>i DEF LockIsHeldFor
<1>3. FlightIsKnown'
    BY <1>a, <1>i DEF FlightIsKnown
<1>4. EventsAreInPlace'
    <2>1. h \in 1..submitted
        BY <1>0, <1>e
    <2> HIDE DEF h
    <2> QED BY <1>a, <1>e, <1>f, <1>i, <2>1 DEF EventsAreInPlace
<1>5. KernelAgrees'
    <2>1. ASSUME NEW j \in 1..MaxUrbs
          PROVE  /\ urb'[j].at = "none" \/ j <= submitted'
                 /\ urb'[j].at \in {"done", "reaped"} <=> urb'[j].status # "none"
                 /\ urb'[j].status = "short" => kind' = "bulk"
                 /\ urb'[j].at = "doomed" => Pending' = {} /\ disabled' /\ mode' = "continue"
        <3>1. CASE j = h
            <4>1. j <= submitted /\ urb[j].at = "done"
                BY <1>0, <1>e, <3>1
            <4> HIDE DEF h
            <4> QED BY <1>0, <1>a, <1>f, <3>1, <4>1, StatusIsKnown
        <3>2. CASE j # h
            <4>1. urb'[j] = urb[j] /\ j \in DOMAIN urb
                BY <1>0, <1>f, <3>2
            <4>2. /\ urb[j].at = "none" \/ j <= submitted
                  /\ urb[j].at = "doomed" => Pending = {} /\ disabled /\ mode = "continue"
                BY <4>1 DEF KernelAgrees
            <4> HIDE DEF h, Pending
            <4> QED BY <1>a, <1>g, <4>1, <4>2, StatusIsKnown
        <3> QED BY <3>1, <3>2
    <2>2. ASSUME NEW j \in 1..MaxUrbs, urb'[j].at = "done"
          PROVE  \E a \in DOMAIN done' : done'[a] = j
        <3>1. j # h /\ urb[j].at = "done"
            BY <1>f, <2>2
        <3>2. PICK b \in 1..Len(done) : done[b] = j
            BY <1>c, <3>1
        <3>3. b # 1 /\ b - 1 \in 1..Len(done)-1 /\ (b - 1) + 1 = b
            BY <1>b, <3>1, <3>2
        <3>4. b - 1 \in DOMAIN done' /\ done'[b - 1] = j
            BY <1>b, <3>2, <3>3
        <3> QED BY <3>4
    <2>3. ASSUME NEW j \in 1..MaxUrbs, NEW a \in DOMAIN done', done'[a] = j
          PROVE  urb'[j].at = "done"
        <3>1. a + 1 \in 1..Len(done) /\ a + 1 # 1 /\ 1 \in 1..Len(done) /\ done[a + 1] = j
            BY <1>b, <2>3
        <3>2. j # h /\ urb[j].at = "done"
            BY <1>b, <1>c, <1>d, <3>1
        <3> QED BY <1>f, <3>2
    <2>4. ASSUME NEW a \in DOMAIN done', NEW b \in DOMAIN done', done'[a] = done'[b]
          PROVE  a = b
        <3>1. a + 1 \in 1..Len(done) /\ b + 1 \in 1..Len(done) /\ done[a + 1] = done[b + 1]
            BY <1>b, <2>4
        <3>2. a + 1 = b + 1
            BY <1>d, <3>1
        <3> QED BY <1>b, <3>2
    <2>5. ASSUME gone, NEW j \in InKernel'
          PROVE  urb'[j].at = "done" /\ drains
        <3>1. j \in InKernel /\ j # h /\ j \in 1..MaxUrbs
            BY <1>0, <1>g, <2>5
        <3>2. urb[j].at = "done" /\ drains
            BY <2>5, <3>1 DEF KernelAgrees
        <3> QED BY <1>f, <3>1, <3>2
    <2> HIDE DEF h, InKernel, Pending
    <2> QED BY <1>a, <1>f, <2>1, <2>2, <2>3, <2>4, <2>5 DEF KernelAgrees
<1>6. UrbsOutliveKernel'
    BY <1>a, <1>e DEF UrbsOutliveKernel
<1>7. UrbsAreCounted'
    <2>1. (gone /\ ~drains) \/ retired + Cardinality(InKernel) = IF holder = "submit" /\ loop = NoLoop THEN submitted ELSE Num
        BY <1>0, <1>a, <1>e DEF UrbsAreCounted
    <2>2. retired + Cardinality(InKernel) = retired + Cardinality(InKernel') + 1
        BY <1>0, <1>h
    <2> HIDE DEF h, InKernel, Num
    <2> QED BY <1>a, <1>i, <2>1, <2>2 DEF UrbsAreCounted
<1>8. OverflowIsLast'
    <2> SUFFICES ASSUME NEW k \in 1..MaxUrbs, urb'[k].status = "overflow"
                 PROVE  /\ k = Num' /\ \A j \in InKernel' : urb'[j].at = "done"
                        /\ urb'[k].at = "done" => done'[Len(done')] = k
                        /\ urb'[k].at # "done" => InKernel' = {}
        BY <1>f DEF OverflowIsLast
    <2>1. urb[k].status = "overflow"
        BY <1>f
    <2>2. /\ k = Num /\ \A j \in InKernel : urb[j].at = "done"
          /\ urb[k].at = "done" => done[Len(done)] = k
          /\ urb[k].at # "done" => InKernel = {}
        BY <1>0, <2>1 DEF OverflowIsLast
    <2>3. urb[k].at = "done" /\ done[Len(done)] = k /\ Len(done) \in 1..Len(done) /\ 1 \in 1..Len(done)
        BY <1>b, <1>e, <2>2
    <2>4. \A j \in InKernel' : j \in InKernel /\ j # h /\ urb'[j].at = "done"
        BY <1>0, <1>f, <1>g, <2>2
    <2>5. CASE k = h
        <3>1. Len(done) = 1
            BY <1>b, <1>d, <2>3, <2>5
        <3>2. \A j \in InKernel : j = h
            BY <1>0, <1>b, <1>c, <2>2, <3>1
        <3>3. InKernel' = {}
            BY <2>4, <3>2
        <3> QED BY <1>a, <1>f, <2>2, <2>4, <2>5, <3>3
    <2>6. CASE k # h
        <3>1. Len(done) # 1
            BY <1>b, <2>3, <2>6
        <3>2. Len(done) - 1 \in 1..Len(done)-1 /\ (Len(done) - 1) + 1 = Len(done)
            BY <1>b, <3>1
        <3>3. done'[Len(done')] = k
            BY <1>b, <2>3, <3>2
        <3>4. urb'[k].at = "done"
            BY <1>f, <2>3, <2>6
        <3> QED BY <1>a, <2>2, <2>4, <3>3, <3>4
    <2> QED BY <2>5, <2>6
<1>9. CancelIsReported'
    <2>1. \A j \in DOMAIN urb' : urb'[j].status = urb[j].status /\ j \in DOMAIN urb
        BY <1>0, <1>f
    <2> HIDE DEF h
    <2> QED BY <1>a, <1>i, <2>1 DEF CancelIsReported
<1> QED BY <1>1, <1>2, <1>3, <1>4, <1>5, <1>6, <1>7, <1>8, <1>9

\* A handled URB ends the transfer when it is the last one or has overflowed, and
\* the kernel then has none; otherwise the thread goes on, or discards the rest.
LEMMA HandleOutcome ==
    ASSUME UsbfsAssumption, UsbfsInv, Handle
    PROVE  /\ event.at = "lock" /\ holder = "none" /\ loop = NoLoop /\ held /\ inFlight
           /\ event.urb \in 1..submitted /\ event.urb \in 1..Num
           /\ UNCHANGED <<params, caps, submitted, flagVars, kernel>> /\ retired' = retired + 1
           /\ reapAction' \in {"normal", "early", "failed", "error", "cancelled"} /\ reapStatus' \in Reports
           /\ reapAction' = "cancelled" <=> reapAction = "cancelled"
           /\ \/ InKernel = {} /\ \E st \in Reports \cup {"cancel"} :
                                     Finish(st) /\ (st = "cancel" => reapAction = "cancelled")
              \/ Continue
              \/ kind = "bulk" /\ CancelRest(event.urb)
<1>0. /\ Num \in 1..MaxUrbs /\ MaxUrbs \in Nat /\ (kind = "control" => Num = 1)
      /\ InKernel \subseteq 1..submitted /\ submitted \in 0..Num /\ retired \in Nat
      /\ urb \in [1..MaxUrbs -> Urbs] /\ DOMAIN urb = 1..MaxUrbs
      /\ Cardinality(InKernel) \in Nat /\ (Cardinality(InKernel) = 0 <=> InKernel = {})
    BY NumIsBounded
<1>1. /\ event.at = "lock" /\ holder = "none" /\ loop = NoLoop /\ held /\ inFlight
      /\ event.urb \in 1..submitted /\ urb[event.urb].at = "reaped" /\ event.urb \in 1..Num
    <2>1. event.at = "lock" /\ holder = "none"
        BY DEF Handle
    <2> QED BY <1>0, <2>1 DEF UsbfsInv, LockIsHeldFor, FlightIsKnown, EventsAreInPlace
<1>2. UNCHANGED <<params, caps, submitted, flagVars, kernel>> /\ retired' = retired + 1
    BY DEF Handle
<1> DEFINE i == event.urb
           u == urb[i]
           last == retired + 1 = Num
<1>3. u \in Urbs /\ u.status # "none" /\ (u.status = "short" => kind = "bulk") /\ i \in DOMAIN urb
    <2>1. i \in DOMAIN urb /\ u \in Urbs
        BY <1>0, <1>1
    <2> QED BY <1>1, <2>1, StatusIsKnown
<1>4. last => InKernel = {}
    <2>1. gone /\ ~drains => InKernel = {}
        BY DEF UsbfsInv, KernelAgrees
    <2>2. (gone /\ ~drains) \/ retired + Cardinality(InKernel) + 1 = Num
        BY <1>1 DEF UsbfsInv, UrbsAreCounted
    <2> HIDE DEF InKernel, Num
    <2> QED BY <1>0, <2>1, <2>2
<1>5. u.status = "overflow" => InKernel = {}
    BY <1>1, <1>3 DEF UsbfsInv, OverflowIsLast
<1>6. kind = "control" => InKernel = {} /\ (u.status = "killed" => reapAction = "cancelled")
    <2>1. ASSUME kind = "control"
          PROVE  InKernel = {}
        <3>1. \A j \in InKernel : j = i
            BY <1>0, <1>1, <2>1
        <3> QED BY <1>1, <3>1 DEF InKernel
    <2>2. ASSUME kind = "control", u.status = "killed"
          PROVE  reapAction = "cancelled"
        BY <1>1, <1>3, <2>2 DEF UsbfsInv, CancelIsReported
    <2> QED BY <2>1, <2>2
<1>7. reapAction \in {"normal", "early", "failed", "error", "cancelled"} /\ reapStatus \in Reports /\ kind \in Kinds
    BY DEF UsbfsInv, UsbfsTypeOK
<1> DEFINE Result ==
        /\ reapAction' \in {"normal", "early", "failed", "error", "cancelled"} /\ reapStatus' \in Reports
        /\ reapAction' = "cancelled" <=> reapAction = "cancelled"
        /\ \/ InKernel = {} /\ \E st \in Reports \cup {"cancel"} :
                                  Finish(st) /\ (st = "cancel" => reapAction = "cancelled")
           \/ Continue
           \/ kind = "bulk" /\ CancelRest(event.urb)
<1> HIDE DEF u, last
<1>8. ASSUME kind = "bulk", HandleBulk(i)
      PROVE  Result
    <2>1. reapAction = "normal"
        BY <1>8 DEF HandleBulk
    <2>2. CASE /\ u.status \in DOMAIN FatalStatus
               /\ reapAction' = IF u.status = "bus" THEN "error" ELSE reapAction
               /\ reapStatus' = IF reapStatus = "completed" \/ FatalStatus[u.status] = "no_device"
                                THEN FatalStatus[u.status] ELSE reapStatus
               /\ IF last THEN Finish(reapStatus') ELSE CancelRest(i)
        <3>1. FatalStatus[u.status] \in Reports
            BY <2>2 DEF FatalStatus, Reports
        <3>2. reapStatus' \in Reports /\ reapStatus' # "cancel"
            BY <1>7, <2>2, <3>1 DEF Reports
        <3> QED BY <1>4, <1>8, <2>1, <2>2, <3>2
    <2>3. CASE /\ u.status = "overflow"
               /\ reapStatus' = (IF reapStatus = "completed" THEN "overflow" ELSE reapStatus)
               /\ UNCHANGED reapAction /\ Finish(reapStatus')
        <3>1. reapStatus' \in Reports /\ reapStatus' # "cancel"
            BY <1>7, <2>3 DEF Reports
        <3> QED BY <1>5, <1>7, <2>3, <3>1
    <2>4. CASE /\ UNCHANGED reapStatus
               /\ reapAction' = IF ~last /\ u.actual < Size(i) THEN "early" ELSE reapAction
               /\ IF last THEN Finish(reapStatus)
                  ELSE IF u.actual < Size(i) THEN CancelRest(i) ELSE Continue
        <3>1. reapStatus # "cancel"
            BY <1>7 DEF Reports
        <3> QED BY <1>4, <1>7, <1>8, <2>1, <2>4, <3>1
    <2> QED BY <1>8, <2>2, <2>3, <2>4 DEF HandleBulk, u, last
<1>9. ASSUME HandleEndedBulk(i)
      PROVE  Result
    <2>1. UNCHANGED reapAction
        BY <1>9 DEF HandleEndedBulk
    <2>2. CASE last
        <3>1. reapStatus' \in Reports /\ reapStatus' # "cancel"
            BY <1>7, <1>9, <2>2 DEF HandleEndedBulk, Reports, last
        <3>2. Finish(IF reapAction = "cancelled" THEN "cancel" ELSE reapStatus')
            BY <1>9, <2>2 DEF HandleEndedBulk, last
        <3> QED BY <1>4, <1>7, <2>1, <2>2, <3>1, <3>2
    <2>3. CASE ~last
        BY <1>7, <1>9, <2>1, <2>3 DEF HandleEndedBulk, last
    <2> QED BY <2>2, <2>3
<1>10. ASSUME HandleIso(i), kind = "iso"
       PROVE  Result
    <2>1. UNCHANGED <<reapAction, reapStatus>>
        BY <1>10 DEF HandleIso
    <2>2. CASE last
        <3>1. IsoStatus(u.status) \in Reports /\ IsoStatus(u.status) # "cancel" /\ "error" \in Reports
            BY DEF IsoStatus, Reports
        <3>2. Finish(IF reapAction = "normal" THEN IsoStatus(u.status)
                     ELSE IF reapAction = "cancelled" THEN "cancel" ELSE "error")
            BY <1>10, <2>2 DEF HandleIso, last, u
        <3> QED BY <1>4, <1>7, <2>1, <2>2, <3>1, <3>2
    <2>3. CASE ~last
        BY <1>7, <1>10, <2>1, <2>3 DEF HandleIso, last
    <2> QED BY <2>2, <2>3
<1>11. ASSUME HandleControl(i), kind = "control"
       PROVE  Result
    <2>1. UNCHANGED <<reapAction, reapStatus>>
        BY <1>11 DEF HandleControl
    <2>2. Finish(IF reapAction = "cancelled" THEN "cancel" ELSE ControlStatus(u.status))
        BY <1>11 DEF HandleControl, u
    <2>3. reapAction # "cancelled" => ControlStatus(u.status) \in Reports /\ ControlStatus(u.status) # "cancel"
        BY <1>3, <1>6, <1>11 DEF ControlStatus, Reports, Urbs, UrbStatuses
    <2> QED BY <1>6, <1>7, <1>11, <2>1, <2>2, <2>3
<1>12. Result
    BY <1>7, <1>8, <1>9, <1>10, <1>11 DEF Handle, Kinds
<1> QED BY <1>1, <1>2, <1>12

\* A URB is handled once, and the transfer is freed when the kernel has none of it.
LEMMA HandleKeeps ==
    ASSUME UsbfsAssumption, UsbfsInv, Handle
    PROVE  UsbfsInv'
<1>0. /\ Num \in 1..MaxUrbs /\ MaxUrbs \in Nat /\ (kind = "control" => Num = 1)
      /\ InKernel \subseteq 1..submitted /\ InKernel \subseteq 1..MaxUrbs
      /\ submitted \in 0..Num /\ submitted \in 0..MaxUrbs /\ retired \in Nat
      /\ urb \in [1..MaxUrbs -> Urbs] /\ DOMAIN urb = 1..MaxUrbs
      /\ Cardinality(InKernel) \in Nat /\ (Cardinality(InKernel) = 0 <=> InKernel = {})
    BY NumIsBounded
<1> USE DEF UsbfsInv, params, caps, privVars, dataVars, flagVars, kernel, NoLoop, NoUrb, Num,
            InKernel, Pending
<1>a. /\ event.at = "lock" /\ holder = "none" /\ loop = NoLoop /\ held /\ inFlight
      /\ event.urb \in 1..submitted /\ event.urb \in 1..Num
      /\ retired' = retired + 1 /\ Num' = Num /\ InKernel' = InKernel /\ Pending' = Pending
      /\ UNCHANGED <<kind, length, mode, drains, submitted, inFlight, asked, timedOut, outcome,
                     urb, done, halted, disabled, gone>>
    BY HandleOutcome
<1>b. /\ reapAction' \in {"normal", "early", "failed", "error", "cancelled"} /\ reapStatus' \in Reports
      /\ reapAction' = "cancelled" <=> reapAction = "cancelled"
    BY HandleOutcome
<1>c. event.back \in {"poll", "drain"} /\ (event.back = "drain" => gone) /\ event \in Events
    BY <1>a DEF EventsAreInPlace, UsbfsTypeOK, Events
<1>d. \/ /\ event' = Back /\ UNCHANGED <<held, holder, loop>>
      \/ /\ kind = "bulk" /\ UNCHANGED held /\ holder' = "event"
         /\ loop' = [at |-> Num, first |-> event.urb + 1, last |-> Num, ret |-> "ok"]
         /\ event' = [event EXCEPT !.at = "discard"]
      \/ /\ InKernel = {} /\ held' = FALSE /\ UNCHANGED <<holder, loop>>
         /\ \E st \in Reports \cup {"cancel"} :
               /\ event' = [event EXCEPT !.at = "complete", !.urb = 0, !.status = st]
               /\ st = "cancel" => reapAction = "cancelled"
    <2>1. CASE Continue
        BY <2>1 DEF Continue
    <2>2. CASE kind = "bulk" /\ CancelRest(event.urb)
        BY <2>2 DEF CancelRest
    <2>3. CASE InKernel = {} /\ \E st \in Reports \cup {"cancel"} :
                                   Finish(st) /\ (st = "cancel" => reapAction = "cancelled")
        BY <2>3 DEF Finish
    <2> QED BY <2>1, <2>2, <2>3, HandleOutcome
<1>e. /\ event' \in Events /\ event'.at \in {"poll", "drain", "discard", "complete"}
      /\ event'.at = "drain" \/ event'.back = "drain" => gone
      /\ event'.at \in {"discard", "complete"} => event'.back # "none"
      /\ event'.at = "complete" <=> held' = FALSE
      /\ event'.at = "complete" => /\ event'.status # "none" /\ UNCHANGED <<holder, loop>> /\ InKernel = {}
                                   /\ event'.status = "cancel" => reapAction = "cancelled"
      /\ event'.at = "discard" <=> holder' = "event"
      /\ event'.at # "discard" => UNCHANGED <<holder, loop>>
      /\ event'.at = "discard" =>
           kind = "bulk" /\ loop' = [at |-> Num, first |-> event.urb + 1, last |-> Num, ret |-> "ok"]
    <2>1. CASE event' = Back /\ UNCHANGED <<held, holder, loop>>
        BY <1>0, <1>a, <1>c, <2>1 DEF Back, Polling, Events
    <2>2. CASE /\ kind = "bulk" /\ UNCHANGED held /\ holder' = "event"
               /\ loop' = [at |-> Num, first |-> event.urb + 1, last |-> Num, ret |-> "ok"]
               /\ event' = [event EXCEPT !.at = "discard"]
        <3> HIDE DEF Num, NoLoop, InKernel
        <3> QED BY <1>0, <1>a, <1>c, <2>2 DEF Events
    <2>3. ASSUME InKernel = {}, held' = FALSE, UNCHANGED <<holder, loop>>, NEW st \in Reports \cup {"cancel"},
                 event' = [event EXCEPT !.at = "complete", !.urb = 0, !.status = st],
                 st = "cancel" => reapAction = "cancelled"
          PROVE  <1>e!:
        <3>1. st # "none"
            BY DEF Reports
        <3> HIDE DEF Num, NoLoop, InKernel
        <3>2. event' = [at |-> "complete", urb |-> 0, back |-> event.back, status |-> st]
            BY <1>c, <2>3 DEF Events
        <3>3. event' \in Events
            BY <1>0, <1>c, <3>2 DEF Events
        <3> QED BY <1>a, <1>c, <2>3, <3>1, <3>2, <3>3
    <2> QED BY <1>d, <2>1, <2>2, <2>3
<1>f. /\ loop' \in Loops /\ (holder' = "none" => loop' = NoLoop) /\ holder' \in {"none", "event"}
      /\ loop' # NoLoop => loop'.last \in 1..Num /\ loop'.at <= loop'.last /\ loop'.ret = "ok"
      /\ loop'.at = loop'.last => loop'.ret = "ok"
      /\ holder' = "event" => loop' # NoLoop
    <2>1. CASE event'.at # "discard"
        BY <1>0, <1>a, <1>e, <2>1 DEF Loops
    <2>2. CASE event'.at = "discard"
        BY <1>0, <1>a, <1>e, <2>2 DEF Loops
    <2> QED BY <2>1, <2>2
<1>g. held' \in BOOLEAN
    <2>1. held \in BOOLEAN
        BY DEF UsbfsTypeOK
    <2> QED BY <1>d, <2>1
<1>1. UsbfsTypeOK'
    BY <1>0, <1>a, <1>g, <1>b, <1>f, <1>e
       DEF UsbfsTypeOK, Kinds, Modes, Reports, Loops, Events, Urbs, UrbStatuses
<1>2. LockIsHeldFor'
    BY <1>a, <1>e, <1>f DEF LockIsHeldFor
<1>3. FlightIsKnown'
    BY <1>a, <1>e, <1>f DEF FlightIsKnown
<1>4. EventsAreInPlace'
    BY <1>a, <1>e DEF EventsAreInPlace
<1>5. KernelAgrees'
    <2> HIDE DEF InKernel, Pending
    <2> QED BY <1>a DEF KernelAgrees
<1>6. UrbsOutliveKernel'
    <2>1. ASSUME ~held'
          PROVE  InKernel = {} /\ done = <<>>
        BY <1>a, <1>e, <2>1, NothingLeft DEF UsbfsTypeOK
    <2> HIDE DEF InKernel
    <2> QED BY <1>a, <2>1 DEF UrbsOutliveKernel
<1>7. UrbsAreCounted'
    <2>1. (gone /\ ~drains) \/ retired + Cardinality(InKernel) + 1 = Num
        BY <1>a DEF UrbsAreCounted
    <2>2. event'.at # "lock" /\ holder' # "submit"
        BY <1>e, <1>f
    <2> HIDE DEF InKernel, Num
    <2>3. /\ retired' \in Nat /\ Cardinality(InKernel') \in Nat
          /\ (gone /\ ~drains) \/ retired' + Cardinality(InKernel') = Num'
        BY <1>0, <1>a, <2>1
    <2> QED BY <1>a, <2>2, <2>3 DEF UrbsAreCounted
<1>8. OverflowIsLast'
    <2> HIDE DEF InKernel, Num
    <2> QED BY <1>a DEF OverflowIsLast
<1>9. CancelIsReported'
    BY <1>a, <1>b, <1>e, <1>f DEF CancelIsReported
<1> QED BY <1>1, <1>2, <1>3, <1>4, <1>5, <1>6, <1>7, <1>8, <1>9

\* The parts of UsbfsInv hold before the first submission.
LEMMA InitHolds ==
    ASSUME UsbfsAssumption, Init
    PROVE  UsbfsInv
<1> USE DEF Init, NoLoop, NoUrb, Polling
<1>0. Num \in 1..MaxUrbs /\ MaxUrbs \in Nat
    BY CountIsBounded DEF UsbfsAssumption, Num, Kinds
<1>1. InKernel = {} /\ Pending = {} /\ DOMAIN done = {}
    BY DEF InKernel, Pending
<1>2. UsbfsTypeOK
    <2>1. /\ kind \in Kinds /\ length \in 0..MaxLength /\ submitted \in 0..Num /\ retired \in Nat
          /\ reapStatus \in Reports /\ outcome \in Reports \cup {"none"}
        BY <1>0 DEF UsbfsAssumption, Kinds, Reports
    <2>2. loop \in Loops /\ event \in Events
        BY <1>0 DEF Loops, Events
    <2>3. urb \in [1..MaxUrbs -> Urbs] /\ done \in Seq(1..MaxUrbs)
        BY DEF Urbs, UrbStatuses
    <2> QED BY <2>1, <2>2, <2>3 DEF UsbfsTypeOK
<1>3. LockIsHeldFor /\ FlightIsKnown /\ EventsAreInPlace /\ UrbsOutliveKernel /\ UrbsAreCounted
    BY <1>1 DEF LockIsHeldFor, FlightIsKnown, EventsAreInPlace, UrbsOutliveKernel, UrbsAreCounted
<1>4. KernelAgrees /\ OverflowIsLast /\ CancelIsReported
    BY <1>1 DEF KernelAgrees, OverflowIsLast, CancelIsReported
<1> QED BY <1>2, <1>3, <1>4 DEF UsbfsInv

\* Every step keeps all the parts of UsbfsInv.
LEMMA StepKeeps ==
    ASSUME UsbfsAssumption, UsbfsInv, [Next]_vars
    PROVE  UsbfsInv'
<1>1. CASE UNCHANGED vars
    <2> USE <1>1 DEF vars, params, caps, privVars, dataVars, flagVars, kernel
    <2>1. UsbfsTypeOK' /\ LockIsHeldFor' /\ FlightIsKnown' /\ EventsAreInPlace' /\ KernelAgrees'
        BY DEF UsbfsInv, UsbfsTypeOK, LockIsHeldFor, FlightIsKnown, EventsAreInPlace, KernelAgrees, Num, InKernel, Pending
    <2>2. UrbsOutliveKernel' /\ UrbsAreCounted' /\ OverflowIsLast' /\ CancelIsReported'
        BY DEF UsbfsInv, UrbsOutliveKernel, UrbsAreCounted, OverflowIsLast, CancelIsReported, Num, InKernel
    <2> QED BY <2>1, <2>2 DEF UsbfsInv
<1>2. CASE \E k \in Kinds, len \in 0..MaxLength : Submit(k, len)
    BY <1>2, SubmitKeeps
<1>3. CASE SubmitRefused
    BY <1>3, SubmitRefusedKeeps
<1>4. CASE SubmitStep
    BY <1>4, SubmitUrbKeeps, SubmitDiscardedKeeps, SubmitUrbFailsKeeps DEF SubmitStep
<1>5. CASE \E reason \in {"user", "timeout"} : Cancel(reason)
    BY <1>5, CancelKeeps
<1>6. CASE \E n \in 0..MaxLength : DiscardUrb(n)
    BY <1>6, DiscardUrbKeeps
<1>7. CASE CancelEnds
    BY <1>7, CancelEndsKeeps
<1>8. CASE EventStep
    BY <1>8, ReapKeeps, HandleKeeps, HandleDiscardedKeeps, CompleteKeeps, PollErrorKeeps, DisconnectKeeps
       DEF EventStep
<1>9. CASE KernelStep \/ Unplug
    BY <1>9, UnlinkKeeps, UnplugKeeps DEF KernelStep
<1>10. CASE \E i \in 1..MaxUrbs, st \in {"ok", "short", "stall", "bus", "overflow"},
               n \in 0..MaxLength : n <= Size(i) /\ Answer(i, st, n)
    BY <1>10, AnswerKeeps
<1> QED BY <1>1, <1>2, <1>3, <1>4, <1>5, <1>6, <1>7, <1>8, <1>9, <1>10 DEF Next

\* linux_usbfs.c: the lock of a transfer is held for what it protects, the counts of
\* URBs that are submitted and retired agree with what the kernel has, and the URBs are
\* freed, and the callback is called, only when the kernel has none of them any more.
THEOREM UsbfsHoldsInv == Spec => []UsbfsInv
<1>1. Init => UsbfsInv
    BY UsbfsAssumption, InitHolds
<1>2. UsbfsInv /\ [Next]_vars => UsbfsInv'
    BY UsbfsAssumption, StepKeeps
<1> QED BY <1>1, <1>2, PTL DEF Spec

-----------------------------------------------------------------------------
(* The transfer that the URBs implement *)

\* What a step does to the state of the transfer, in terms of LibusbTransfer.
LEMMA StepImplements ==
    ASSUME UsbfsAssumption, UsbfsInv, [Next]_vars
    PROVE  [Transfer!Next]_(Transfer!vars)
<1> DEFINE x == "transfer"
           shown == IF Reported /\ ~inFlight THEN outcome ELSE "none"
<1> USE DEF TheTransfer, UsbfsInv
<1>0. /\ x \in TheTransfer
      /\ inFlight \in BOOLEAN /\ (outcome = "waiting" <=> inFlight \/ holder = "submit")
      /\ holder = "submit" => ~inFlight /\ asked = "no"
    BY DEF UsbfsTypeOK, FlightIsKnown, LockIsHeldFor
<1>a. ASSUME UNCHANGED flagVars
      PROVE  UNCHANGED Transfer!vars
    BY <1>a DEF Transfer!vars, flagVars, Reported
<1>b. ASSUME ~inFlight, UNCHANGED inFlight, asked' = "no", outcome' = "waiting"
      PROVE  Transfer!Prepare(x)
    BY <1>b DEF Transfer!Prepare, Reported
<1>c. ASSUME holder = "submit", inFlight' = TRUE, UNCHANGED <<asked, outcome>>
      PROVE  Transfer!Submit(x)
    BY <1>0, <1>c DEF Transfer!Submit, Reported
<1>d. ASSUME NEW reason \in {"user", "timeout"}, inFlight, asked = "no", asked' = reason,
             UNCHANGED <<inFlight, outcome>>
      PROVE  Transfer!Cancel(x, reason)
    BY <1>0, <1>d DEF Transfer!Cancel, Reported
<1>1. CASE UNCHANGED vars
    BY <1>1, <1>a DEF vars
<1>2. ASSUME NEW k \in Kinds, NEW len \in 0..MaxLength, Submit(k, len)
      PROVE  Transfer!Next
    BY <1>0, <1>2, <1>b DEF Submit, Transfer!Next
<1>3. CASE SubmitRefused
    BY <1>0, <1>3 DEF SubmitRefused, Transfer!vars, Reported
<1>4. CASE SubmitStep
    <2>1. /\ holder = "submit" /\ UNCHANGED <<asked, outcome>>
          /\ inFlight' = TRUE \/ UNCHANGED inFlight
        BY <1>4 DEF SubmitStep, SubmitUrb, SubmitDiscarded, SubmitUrbFails
    <2>2. CASE inFlight' = TRUE
        BY <1>0, <1>c, <2>1, <2>2 DEF Transfer!Next
    <2>3. CASE UNCHANGED inFlight
        BY <1>a, <2>1, <2>3 DEF Transfer!vars, Reported
    <2> QED BY <2>1, <2>2, <2>3
<1>5. ASSUME NEW reason \in {"user", "timeout"}, Cancel(reason)
      PROVE  [Transfer!Next]_(Transfer!vars)
    <2>1. CASE held
        BY <1>5, <2>1 DEF Cancel, Transfer!vars, Reported
    <2>2. CASE ~held
        BY <1>0, <1>5, <1>d, <2>2 DEF Cancel, Transfer!Next
    <2> QED BY <2>1, <2>2
<1>6. ASSUME NEW n \in 0..MaxLength, DiscardUrb(n)
      PROVE  UNCHANGED Transfer!vars
    BY <1>6, <1>a DEF DiscardUrb
<1>7. CASE CancelEnds
    <2>1. holder \in {"user", "timeout"} /\ inFlight /\ asked = "no" /\ asked' = holder
        BY <1>7 DEF CancelEnds, LockIsHeldFor
    <2> QED BY <1>0, <1>7, <1>d, <2>1 DEF CancelEnds, Transfer!Next
<1>8. CASE Reap \/ HandleDiscarded \/ PollError \/ Disconnect
    BY <1>8, <1>a DEF Reap, HandleDiscarded, PollError, Disconnect
<1>9. CASE Handle
    BY <1>9, <1>a, HandleOutcome
<1>10. CASE Complete
    <2>1. inFlight /\ inFlight' = FALSE /\ asked' = asked
        BY <1>10 DEF Complete, FlightIsKnown
    <2>2. PICK strict \in BOOLEAN : outcome' = FinalStatus(event.status, strict)
        BY <1>10 DEF Complete
    <2>3. event.status \in Reports \cup {"cancel"}
        BY <1>10 DEF Complete, UsbfsTypeOK, Events, EventsAreInPlace
    <2>4. event.status = "cancel" => asked # "no" /\ (timedOut <=> asked = "timeout")
        BY <1>10 DEF Complete, CancelIsReported
    <2>5. /\ outcome' \in Transfer!Statuses
          /\ outcome' = "cancelled" => asked = "user"
          /\ outcome' = "timed_out" => asked = "timeout"
        BY <2>2, <2>3, <2>4 DEF FinalStatus, Reports, Transfer!Statuses, UsbfsTypeOK
    <2>6. Reported'
        BY <2>5 DEF Reported, Transfer!Statuses
    <2>7. Transfer!Report(x, outcome')
        BY <2>1, <2>5, <2>6 DEF Transfer!Report
    <2> QED BY <1>0, <2>5, <2>7 DEF Transfer!Next
<1>11. CASE KernelStep \/ Unplug
    BY <1>11, <1>a DEF KernelStep, Unlink, Unplug
<1>12. ASSUME NEW i \in 1..MaxUrbs, NEW n \in 0..MaxLength,
              NEW st \in {"ok", "short", "stall", "bus", "overflow"}, Answer(i, st, n)
       PROVE  UNCHANGED Transfer!vars
    BY <1>12, <1>a DEF Answer
<1> QED BY <1>1, <1>2, <1>3, <1>4, <1>5, <1>6, <1>7, <1>8, <1>9, <1>10, <1>11, <1>12
           DEF Next, EventStep

\* linux_usbfs.c implements what libusb promises of a transfer: it is accepted once and
\* reported once, and as cancelled or timed out only to whom it was cancelled for.
THEOREM UsbfsImplementsTransfer == Spec => ImplementsTransfer
<1>1. Init => Transfer!Init
    BY DEF Init, Transfer!Init, TheTransfer, Reported
<1>2. UsbfsInv /\ [Next]_vars => [Transfer!Next]_(Transfer!vars)
    BY UsbfsAssumption, StepImplements
<1> QED BY <1>1, <1>2, UsbfsHoldsInv, PTL DEF Spec, ImplementsTransfer, Transfer!Spec

(***************************************************************************)
(* Why the data and the status that LibusbUsbfs reports are true.  The     *)
(* handler takes the URBs in the order in which the kernel completed them; *)
(* what waits to be handled continues, unit by unit, what was handled; and *)
(* as long as nothing has ended the transfer every URB handled was full,   *)
(* so that it lies where it belongs.  A URB that is killed has its reason: *)
(* a cancellation, or the failure of one before it.  One lemma per action  *)
(* shows that it keeps this, and the theorem combines them.                *)
(***************************************************************************)

\* Where URBs begin are products of a number of URBs and a length.
LEMMA ProductsGrow ==
    ASSUME NEW a \in Nat, NEW b \in Nat, NEW s \in Nat, a <= b
    PROVE  a * s \in Nat /\ a * s <= b * s
<1>1. PICK d \in Nat : b = a + d
    <2>1. b - a \in Nat /\ b = a + (b - a)
        OBVIOUS
    <2> QED BY <2>1
<1>2. d * s \in Nat /\ a * s \in Nat
    OBVIOUS
<1>3. b * s = a * s + d * s
    BY <1>1
<1> QED BY <1>2, <1>3

LEMMA OneMore ==
    ASSUME NEW a \in Nat, NEW s \in Nat
    PROVE  (a + 1) * s = a * s + s
OBVIOUS

\* A transfer of some length is split into full URBs, and a last one.
LEMMA SplitFits ==
    ASSUME UsbfsAssumption, NEW k \in Kinds, NEW m \in Modes, NEW len \in 0..MaxLength
    PROVE  /\ Step(k, m, len) \in Nat \ {0} /\ Count(k, m, len) \in Nat \ {0}
           /\ (Count(k, m, len) - 1) * Step(k, m, len) <= len
           /\ len > 0 => (Count(k, m, len) - 1) * Step(k, m, len) < len
           /\ len <= (Count(k, m, len) - 1) * Step(k, m, len) + Step(k, m, len)
<1> DEFINE s == Step(k, m, len)
           c == Count(k, m, len)
<1>1. s \in Nat \ {0} /\ len \in Nat
    BY DEF UsbfsAssumption, Step
<1>2. CASE len = 0
    <2>1. c = 1
        BY <1>2 DEF Count
    <2> QED BY <1>1, <1>2, <2>1
<1>3. CASE len # 0
    <2>1. c = (len + s - 1) \div s
        BY <1>3 DEF Count
    <2> HIDE DEF s, c
    <2>2. ASSUME NEW x \in Nat \ {0}, NEW y \in Nat \ {0}, NEW z, z = (x + y - 1) \div y
          PROVE  z \in Nat \ {0} /\ (z - 1) * y < x /\ x <= (z - 1) * y + y
        <3>1. PICK w \in Nat : w = z /\ y * w <= x + y - 1 /\ x + y - 1 < y * w + y
            BY <2>2
        <3>2. w # 0
            BY <3>1
        <3>3. (w - 1) * y = y * w - y
            BY <3>1
        <3> QED BY <3>1, <3>2, <3>3
    <2>3. c \in Nat \ {0} /\ (c - 1) * s < len /\ len <= (c - 1) * s + s
        BY <1>1, <1>3, <2>1, <2>2
    <2>4. (c - 1) * s \in Nat
        <3>1. c - 1 \in Nat
            BY <2>3
        <3> QED BY <1>1, <3>1, ProductsGrow
    <2> DEFINE p == (c - 1) * s
    <2>5. p \in Nat /\ p < len /\ len <= p + s
        BY <2>3, <2>4
    <2>6. p <= len
        <3> HIDE DEF p
        <3> QED BY <1>1, <2>5
    <2>7. c \in Nat \ {0} /\ (c - 1) * s <= len /\ (c - 1) * s < len /\ len <= (c - 1) * s + s
        BY <2>3, <2>5, <2>6
    <2> QED BY <1>1, <1>3, <2>7 DEF s, c
<1> QED BY <1>2, <1>3

\* Where the URBs of a transfer lie in its buffer.
LEMMA Layout ==
    ASSUME UsbfsAssumption, UsbfsInv
    PROVE  /\ Num \in Nat \ {0} /\ length \in Nat /\ length <= MaxLength /\ MaxLength \in Nat
           /\ \A i \in 1..Num : Start(i) \in Nat /\ Size(i) \in Nat /\ Start(i) + Size(i) <= length
           /\ \A i, j \in 1..Num : i < j => Start(i) + Size(i) <= Start(j) /\ Size(i) > 0 /\ Size(j) > 0
           /\ \A i \in 1..Num : i < Num => Start(i + 1) = Start(i) + Size(i)
           /\ Start(1) = 0 /\ Start(Num) + Size(Num) = length
<1> DEFINE s == Step(kind, mode, length)
<1>1. /\ s \in Nat \ {0} /\ Num \in Nat \ {0} /\ (Num - 1) * s <= length /\ length <= (Num - 1) * s + s
      /\ length > 0 => (Num - 1) * s < length
    BY SplitFits DEF UsbfsInv, UsbfsTypeOK, Num
<1>2. length \in Nat /\ length <= MaxLength /\ MaxLength \in Nat
    BY DEF UsbfsInv, UsbfsTypeOK, UsbfsAssumption
<1>3. /\ \A i : Start(i) = (i - 1) * s
      /\ \A i : Size(i) = IF i = Num THEN length - Start(i) ELSE s
    BY DEF Start, Size
<1> HIDE DEF s
<1>4. ASSUME NEW i \in 1..Num
      PROVE  /\ Start(i) \in Nat /\ Size(i) \in Nat /\ Start(i) + Size(i) <= length
             /\ i < Num => Start(i + 1) = Start(i) + Size(i) /\ Size(i) = s
    <2>1. /\ i - 1 \in Nat /\ Num - 1 \in Nat /\ i - 1 <= Num - 1
        BY <1>1
    <2>2. (i - 1) * s \in Nat /\ (i - 1) * s <= (Num - 1) * s
        BY <1>1, <2>1, ProductsGrow
    <2>3. CASE i = Num
        BY <1>1, <1>2, <1>3, <2>2, <2>3
    <2>4. CASE i # Num
        <3>1. i \in Nat /\ i <= Num - 1 /\ i = (i - 1) + 1 /\ (i + 1) - 1 = i
            BY <1>1, <2>4
        <3>2. i * s <= (Num - 1) * s
            BY <1>1, <2>1, <3>1, ProductsGrow
        <3>3. ((i - 1) + 1) * s = (i - 1) * s + s
            BY <1>1, <2>1, OneMore
        <3>4. i * s = (i - 1) * s + s
            BY <3>1, <3>3
        <3>5. Start(i) = (i - 1) * s /\ Size(i) = s /\ Start(i + 1) = i * s
            BY <1>3, <2>4, <3>1
        <3> DEFINE p == i * s
                   q == (i - 1) * s
                   r == (Num - 1) * s
        <3>6. q \in Nat /\ p <= r /\ p = q + s /\ r <= length /\ Start(i) = q /\ Size(i) = s /\ Start(i + 1) = p
            BY <1>1, <2>2, <3>2, <3>4, <3>5
        <3>7. r \in Nat
            BY <1>1, <2>1, ProductsGrow
        <3> HIDE DEF p, q, r
        <3> QED BY <1>1, <1>2, <2>4, <3>6, <3>7
    <2> QED BY <2>3, <2>4
<1>5. ASSUME NEW i \in 1..Num, NEW j \in 1..Num, i < j
      PROVE  Start(i) + Size(i) <= Start(j) /\ Size(i) > 0 /\ Size(j) > 0
    <2>1. i - 1 \in Nat /\ i \in Nat /\ j - 1 \in Nat /\ i <= j - 1 /\ i < Num /\ (i + 1) - 1 = i
        BY <1>1, <1>5
    <2>2. i * s <= (j - 1) * s
        BY <1>1, <2>1, ProductsGrow
    <2>3. Start(i + 1) = i * s /\ Start(j) = (j - 1) * s
        BY <1>3, <2>1
    <2>4. Start(i) + Size(i) = Start(i + 1) /\ Size(i) = s
        BY <1>4, <2>1
    <2> DEFINE p == i * s
               q == (j - 1) * s
    <2>5. p <= q /\ Start(i + 1) = p /\ Start(j) = q
        BY <2>2, <2>3
    <2>6. Start(i) \in Nat /\ Start(j) \in Nat
        BY <1>4
    <2>7. length > 0 /\ (j = Num => (j - 1) * s < length)
        <3>1. Start(i) + Size(i) <= length
            BY <1>4
        <3> QED BY <1>1, <1>2, <2>4, <2>6, <3>1
    <2> HIDE DEF p, q
    <2>8. Size(j) > 0
        <3>1. CASE j = Num
            <4>1. Size(j) = length - q /\ q < length /\ q = Start(j)
                BY <1>3, <2>5, <2>7, <3>1 DEF q
            <4> QED BY <1>2, <2>6, <4>1
        <3>2. CASE j # Num
            BY <1>1, <1>3, <3>2
        <3> QED BY <3>1, <3>2
    <2> QED BY <1>1, <2>4, <2>5, <2>6, <2>8
<1>6. Start(1) = 0 /\ Start(Num) + Size(Num) = length
    <2>1. Start(1) = (1 - 1) * s
        BY <1>3
    <2>2. Start(Num) \in Nat /\ Size(Num) = length - Start(Num)
        BY <1>1, <1>3, <1>4
    <2> QED BY <1>1, <1>2, <2>1, <2>2
<1> QED BY <1>1, <1>2, <1>4, <1>5, <1>6

\* The URBs to be reaped are those the kernel has completed, each once.
LEMMA DoneOnce ==
    ASSUME UsbfsInv
    PROVE  /\ done \in Seq(1..MaxUrbs) /\ Len(done) \in Nat /\ DOMAIN done = 1..Len(done)
           /\ urb \in [1..MaxUrbs -> Urbs] /\ DOMAIN urb = 1..MaxUrbs
           /\ \A b \in 1..Len(done) : done[b] \in 1..MaxUrbs /\ urb[done[b]].at = "done"
           /\ \A i \in 1..MaxUrbs : urb[i].at = "done" => \E b \in 1..Len(done) : done[b] = i
           /\ \A a, b \in 1..Len(done) : done[a] = done[b] => a = b
<1>1. /\ done \in Seq(1..MaxUrbs) /\ urb \in [1..MaxUrbs -> Urbs]
    BY DEF UsbfsInv, UsbfsTypeOK
<1>2. Len(done) \in Nat /\ DOMAIN done = 1..Len(done) /\ DOMAIN urb = 1..MaxUrbs
    BY <1>1
<1>3. ASSUME NEW b \in 1..Len(done)
      PROVE  done[b] \in 1..MaxUrbs
    <2> DEFINE S == 1..MaxUrbs
    <2>1. done \in Seq(S)
        BY <1>1
    <2> HIDE DEF S
    <2>2. done[b] \in S
        BY <2>1
    <2> QED BY <2>2 DEF S
<1>4. /\ \A i \in DOMAIN urb : urb[i].at = "done" <=> \E a \in DOMAIN done : done[a] = i
      /\ \A a, b \in DOMAIN done : done[a] = done[b] => a = b
    BY DEF UsbfsInv, KernelAgrees
<1> QED BY <1>1, <1>2, <1>3, <1>4

\* What is handled, is waiting and is in order is so by the URBs that are completed.
LEMMA SameOrder ==
    ASSUME UsbfsInv, UNCHANGED <<kind, length, mode, done, buffer>>,
           event' = event \/ (event.at # "lock" /\ event'.at # "lock"), DOMAIN urb' = DOMAIN urb,
           \A i \in DOMAIN urb : /\ urb'[i].status = urb[i].status /\ urb'[i].actual = urb[i].actual
                                 /\ \/ urb'[i].at = urb[i].at
                                    \/ urb'[i].at \notin {"done", "reaped"} /\ urb[i].at \notin {"done", "reaped"}
    PROVE  /\ Handled' = Handled /\ Waiting' = Waiting /\ Num' = Num
           /\ \A i : Start(i)' = Start(i) /\ Size(i)' = Size(i) /\ First(i)' = First(i)
           /\ \A i \in DOMAIN urb : (Full(i)' <=> Full(i))
           /\ \A i \in DOMAIN urb : \A j : (Earlier(j, i)' <=> Earlier(j, i))
           /\ \A i \in DOMAIN urb : (InOrder(i)' <=> InOrder(i))
<1>1. Num' = Num /\ \A i : Start(i)' = Start(i) /\ Size(i)' = Size(i) /\ First(i)' = First(i)
    BY DEF Num, Start, Size, First
<1>2. Handled' = Handled
    BY DEF Handled
<1>3. \A i \in DOMAIN urb : urb[i].at = "done" \/ (event.at = "lock" /\ event.urb = i) <=>
                            urb'[i].at = "done" \/ (event'.at = "lock" /\ event'.urb = i)
    OBVIOUS
<1>4. Waiting' = Waiting
    BY <1>3 DEF Waiting
<1>5. \A i \in DOMAIN urb : (Full(i)' <=> Full(i))
    BY <1>1 DEF Full
<1>6. \A i \in DOMAIN urb : \A j : (Earlier(j, i)' <=> Earlier(j, i))
    BY <1>2 DEF Earlier
<1>7. \A i \in DOMAIN urb : (InOrder(i)' <=> InOrder(i))
    BY <1>6 DEF InOrder
<1> QED BY <1>1, <1>2, <1>4, <1>5, <1>6, <1>7

\* Only a URB that was submitted has data, and only once it is completed.
LEMMA DataIsSubmitted ==
    ASSUME UsbfsAssumption, UsbfsInv, ReportIsTrue
    PROVE  /\ \A i \in DOMAIN urb : urb[i].actual > 0 => urb[i].status # "none"
           /\ \A i \in DOMAIN urb : urb[i].status # "none" =>
                i \in 1..submitted /\ i \in 1..Num /\ urb[i].at \in {"done", "reaped"}
           /\ Waiting \subseteq 1..Num /\ Handled \subseteq 1..submitted
<1>1. DOMAIN urb = 1..MaxUrbs /\ submitted \in 0..Num /\ Num \in 1..MaxUrbs /\ MaxUrbs \in Nat
    BY NumIsBounded
<1>2. \A i \in DOMAIN urb : urb[i].actual > 0 => urb[i].status # "none"
    BY DEF ReportIsTrue, DataTypeOK
<1>3. \A i \in DOMAIN urb : urb[i].at = "none" \/ i <= submitted
    BY DEF UsbfsInv, KernelAgrees
<1>4. \A i \in DOMAIN urb : urb[i].status # "none" =>
        i \in 1..submitted /\ i \in 1..Num /\ urb[i].at \in {"done", "reaped"}
    BY <1>1, <1>3, StatusIsKnown
<1>5. Waiting \subseteq 1..Num /\ Handled \subseteq 1..submitted
    BY <1>1, <1>2, <1>3, <1>4 DEF Waiting, Handled
<1> QED BY <1>2, <1>4, <1>5

\* A step that moves no data and completes nothing.
LEMMA SameData ==
    ASSUME UsbfsAssumption, UsbfsInv, ReportIsTrue, UNCHANGED <<kind, length, mode, done, buffer, transferred, sent>>,
           event' = event \/ (event.at # "lock" /\ event'.at # "lock"), urb' \in [1..MaxUrbs -> Urbs],
           \A i \in DOMAIN urb : /\ urb'[i].status = urb[i].status /\ urb'[i].actual = urb[i].actual
                                 /\ \/ urb'[i].at = urb[i].at
                                    \/ urb'[i].at \notin {"done", "reaped"} /\ urb[i].at \notin {"done", "reaped"},
           \A i \in 1..Num : i \in Pending' \/ i > submitted' => i \in Pending \/ i > submitted,
           UNCHANGED <<halted, gone>>
    PROVE  DataTypeOK' /\ DataFollows' /\ DataComesInOrder'
<1>1. DOMAIN urb = 1..MaxUrbs /\ DOMAIN urb' = 1..MaxUrbs /\ 1..Num \subseteq 1..MaxUrbs
    BY NumIsBounded
<1>2. /\ Handled' = Handled /\ Waiting' = Waiting /\ Num' = Num
      /\ \A i : Start(i)' = Start(i) /\ Size(i)' = Size(i) /\ First(i)' = First(i)
      /\ \A i \in DOMAIN urb : (Full(i)' <=> Full(i))
    BY <1>1, SameOrder
<1>3. DataTypeOK'
    BY <1>1, <1>2 DEF ReportIsTrue, DataTypeOK
<1>4. \A i \in 1..Num : (\A j \in 1..i-1 : Full(j)') <=> (\A j \in 1..i-1 : Full(j))
    BY <1>1, <1>2, NumIsBounded
<1>5. DataFollows'
    <2>1. \A i \in Waiting : i \in 1..Num
        BY DataIsSubmitted
    <2> QED BY <1>1, <1>2, <1>4, <2>1 DEF ReportIsTrue, DataFollows
<1>6. DataComesInOrder'
    BY <1>1, <1>2, <1>4 DEF ReportIsTrue, DataComesInOrder
<1> QED BY <1>3, <1>5, <1>6

-----------------------------------------------------------------------------
(* The kernel completes a URB *)

\* What is earlier is completed.
LEMMA EarlierIsCompleted ==
    ASSUME UsbfsAssumption, UsbfsInv, NEW i \in DOMAIN urb, NEW j, Earlier(j, i)
    PROVE  j \in DOMAIN urb /\ urb[j].at \in {"done", "reaped"}
<1>1. CASE j \in Handled
    BY <1>1 DEF Handled
<1>2. CASE event.at = "lock" /\ event.urb = j /\ urb[i].at = "done"
    <2>1. j \in 1..submitted /\ urb[j].at = "reaped"
        BY <1>2 DEF UsbfsInv, EventsAreInPlace
    <2> QED BY <2>1, NumIsBounded
<1>3. CASE \E b \in DOMAIN done : done[b] = i /\ \E a \in 1..b-1 : done[a] = j
    <2>1. PICK b \in DOMAIN done : \E a \in 1..b-1 : done[a] = j
        BY <1>3
    <2>2. PICK a \in 1..b-1 : done[a] = j
        BY <2>1
    <2>3. a \in 1..Len(done)
        BY <2>1, <2>2, DoneOnce
    <2> QED BY <2>2, <2>3, DoneOnce
<1> QED BY <1>1, <1>2, <1>3 DEF Earlier

\* The first URB that is pending comes after all that are completed.
LEMMA ActiveIsNext ==
    ASSUME UsbfsAssumption, UsbfsInv, ReportIsTrue, NEW i \in DOMAIN urb, Active(i)
    PROVE  /\ i \in 1..submitted /\ i \in 1..Num /\ ~halted /\ urb[i].at = "pending"
           /\ \A j \in 1..i-1 : j \in DOMAIN urb /\ urb[j].at \in {"done", "reaped"}
           /\ \A j \in Pending : i <= j
           /\ kind = "bulk" => \A j \in DOMAIN urb : i <= j => urb[j].actual = 0
<1>1. urb[i].at = "pending" /\ i \in Pending /\ ~halted /\ \A j \in Pending : i <= j
    BY DEF Active, Pending
<1>2. /\ DOMAIN urb = 1..MaxUrbs /\ submitted \in 0..Num /\ Num \in 1..MaxUrbs /\ MaxUrbs \in Nat
      /\ urb \in [1..MaxUrbs -> Urbs]
    BY NumIsBounded
<1>3. i \in 1..submitted /\ i \in 1..Num
    BY <1>1, <1>2 DEF UsbfsInv, KernelAgrees
<1>4. ~gone
    BY <1>1, NoneOverflowed
<1>5. ASSUME NEW j \in 1..i-1
      PROVE  j \in DOMAIN urb /\ urb[j].at \in {"done", "reaped"}
    <2>1. j \in 1..submitted /\ j \in DOMAIN urb
        BY <1>2, <1>3
    <2>2. urb[j].at # "none"
        BY <1>4, <2>1 DEF ReportIsTrue, RetiredAreHandled
    <2>3. urb[j].at # "pending"
        BY <1>1, <1>2, <2>1 DEF Pending
    <2>4. urb[j].at # "doomed"
        BY <1>1, <2>1, NoneOverflowed
    <2>5. urb[j].at \in {"none", "pending", "doomed", "done", "reaped"}
        BY <1>2, <2>1 DEF Urbs
    <2> QED BY <2>1, <2>2, <2>3, <2>4, <2>5
<1>6. ASSUME kind = "bulk", NEW j \in DOMAIN urb, i <= j, urb[j].actual > 0
      PROVE  FALSE
    <2>1. urb[j].status # "none"
        BY <1>6 DEF ReportIsTrue, DataTypeOK
    <2>2. i # j
        BY <1>1, <2>1, StatusIsKnown
    <2>3. InOrder(j)
        BY <1>6 DEF ReportIsTrue, OrderIsKept
    <2>4. Earlier(i, j)
        BY <1>2, <1>6, <2>2, <2>3 DEF InOrder
    <2> QED BY <1>1, <2>4, EarlierIsCompleted
<1>7. \A j \in DOMAIN urb : urb[j].actual \in Nat
    BY <1>2 DEF Urbs
<1>8. kind = "bulk" => \A j \in DOMAIN urb : i <= j => urb[j].actual = 0
    BY <1>6, <1>7
<1> QED BY <1>1, <1>3, <1>5, <1>8

\* What was completed comes before what is completed now.
LEMMA CompletedLast ==
    ASSUME UsbfsAssumption, UsbfsInv, NEW i \in DOMAIN urb, urb[i].at \in {"pending", "doomed"},
           done' = Append(done, i), event' = event, DOMAIN urb' = DOMAIN urb, urb'[i].at = "done",
           \A j \in DOMAIN urb \ {i} : /\ urb'[j].actual = urb[j].actual
                                       /\ \/ urb'[j].at = urb[j].at
                                          \/ urb[j].at = "pending" /\ urb'[j].at = "doomed"
    PROVE  /\ Handled' = Handled
           /\ Waiting' = (IF urb'[i].actual > 0 THEN Waiting \cup {i} ELSE Waiting) /\ i \notin Waiting
           /\ \A k \in DOMAIN urb : \A j : Earlier(j, k) => Earlier(j, k)'
           /\ \A k \in DOMAIN urb : InOrder(k) => InOrder(k)'
           /\ \A j \in DOMAIN urb : urb[j].at \in {"done", "reaped"} => Earlier(j, i)'
<1>1. /\ done \in Seq(1..MaxUrbs) /\ Len(done) \in Nat /\ DOMAIN done = 1..Len(done) /\ DOMAIN urb = 1..MaxUrbs
      /\ \A b \in 1..Len(done) : urb[done[b]].at = "done"
      /\ \A j \in 1..MaxUrbs : urb[j].at = "done" => \E b \in 1..Len(done) : done[b] = j
    BY DoneOnce
<1>2. /\ DOMAIN done' = 1..Len(done)+1 /\ done'[Len(done) + 1] = i
      /\ \A b \in 1..Len(done) : done'[b] = done[b]
    BY <1>1
<1>3. event.at = "lock" => event.urb # i /\ urb[event.urb].at = "reaped"
    BY DEF UsbfsInv, EventsAreInPlace
<1>4. Handled' = Handled
    BY <1>3 DEF Handled
<1>5. Waiting' = IF urb'[i].actual > 0 THEN Waiting \cup {i} ELSE Waiting
    BY <1>3 DEF Waiting
<1>6. ASSUME NEW k \in DOMAIN urb, NEW j, Earlier(j, k)
      PROVE  Earlier(j, k)'
    <2>1. CASE j \in Handled
        BY <1>4, <2>1 DEF Earlier
    <2>2. CASE event.at = "lock" /\ event.urb = j /\ urb[k].at = "done"
        BY <2>2 DEF Earlier
    <2>3. CASE \E b \in DOMAIN done : done[b] = k /\ \E a \in 1..b-1 : done[a] = j
        <3>1. PICK b \in DOMAIN done : done[b] = k /\ \E a \in 1..b-1 : done[a] = j
            BY <2>3
        <3>2. PICK a \in 1..b-1 : done[a] = j
            BY <3>1
        <3>3. b \in DOMAIN done' /\ done'[b] = k /\ done'[a] = j
            BY <1>1, <1>2, <3>1, <3>2
        <3> QED BY <3>2, <3>3 DEF Earlier
    <2> QED BY <1>6, <2>1, <2>2, <2>3 DEF Earlier
<1>7. \A k \in DOMAIN urb : InOrder(k) => InOrder(k)'
    BY <1>6 DEF InOrder
<1>8. ASSUME NEW j \in DOMAIN urb, urb[j].at \in {"done", "reaped"}
      PROVE  Earlier(j, i)'
    <2>1. CASE urb[j].at = "done"
        <3>1. PICK a \in 1..Len(done) : done[a] = j
            BY <1>1, <2>1
        <3>2. /\ Len(done) + 1 \in DOMAIN done' /\ done'[Len(done) + 1] = i
              /\ a \in 1..(Len(done) + 1)-1 /\ done'[a] = j
            BY <1>1, <1>2, <3>1
        <3> QED BY <3>2 DEF Earlier
    <2>2. CASE urb[j].at = "reaped" /\ event.at = "lock" /\ event.urb = j
        BY <2>2 DEF Earlier
    <2>3. CASE urb[j].at = "reaped" /\ ~(event.at = "lock" /\ event.urb = j)
        BY <1>4, <2>3 DEF Earlier, Handled
    <2> QED BY <1>8, <2>1, <2>2, <2>3
<1>9. i \notin Waiting
    BY <1>3 DEF Waiting
<1> QED BY <1>4, <1>5, <1>6, <1>7, <1>8, <1>9

\* The data of a URB that is completed continue the data of those before.
LEMMA CompletedData ==
    ASSUME UsbfsAssumption, UsbfsInv, ReportIsTrue, NEW i \in DOMAIN urb, urb[i].at \in {"pending", "doomed"},
           done' = Append(done, i), event' = event, urb' \in [1..MaxUrbs -> Urbs], urb'[i].at = "done",
           \A j \in DOMAIN urb \ {i} : /\ urb'[j].status = urb[j].status /\ urb'[j].actual = urb[j].actual
                                       /\ \/ urb'[j].at = urb[j].at
                                          \/ urb[j].at = "pending" /\ urb'[j].at = "doomed",
           NEW n \in Nat, n <= Size(i), urb'[i].actual = n, n > 0 => Active(i),
           buffer' = Received(i, n), sent' = sent + n,
           urb'[i].status \notin {"none", "gone"}, urb'[i].status = "short" => n < Size(i),
           urb'[i].status = "stall" => halted' /\ Active(i), halted => halted',
           UNCHANGED <<kind, length, mode, transferred, submitted, gone>>
    PROVE  /\ DataTypeOK' /\ DataFollows' /\ DataComesInOrder'
           /\ kind = "bulk" => \A k \in DOMAIN urb : urb'[k].actual > 0 => InOrder(k)'
<1>0. /\ DOMAIN urb = 1..MaxUrbs /\ DOMAIN urb' = 1..MaxUrbs /\ Num \in 1..MaxUrbs /\ MaxUrbs \in Nat
      /\ submitted \in 0..Num /\ urb \in [1..MaxUrbs -> Urbs] /\ i \in 1..MaxUrbs
    BY NumIsBounded
<1>1. Num' = Num /\ \A j : Start(j)' = Start(j) /\ Size(j)' = Size(j)
    BY DEF Num, Start, Size
<1>2. /\ Handled' = Handled
      /\ Waiting' = (IF urb'[i].actual > 0 THEN Waiting \cup {i} ELSE Waiting) /\ i \notin Waiting
      /\ \A k \in DOMAIN urb : InOrder(k) => InOrder(k)'
      /\ \A j \in DOMAIN urb : urb[j].at \in {"done", "reaped"} => Earlier(j, i)'
    BY <1>0, CompletedLast
<1>3. i \in 1..submitted /\ i \in 1..Num
    BY <1>0 DEF UsbfsInv, KernelAgrees
<1>4. Active(i) => /\ ~halted /\ (\A j \in Pending : i <= j)
                   /\ \A j \in 1..i-1 : j \in DOMAIN urb /\ urb[j].at \in {"done", "reaped"}
                   /\ kind = "bulk" => \A j \in DOMAIN urb : i <= j => urb[j].actual = 0
    BY ActiveIsNext
<1>5. urb[i].status = "none" /\ urb[i].actual = 0
    BY <1>0, StatusIsKnown DEF ReportIsTrue, DataTypeOK
<1>6. /\ transferred \in Nat /\ sent \in Nat /\ buffer \in [1..MaxLength -> Nat]
      /\ \A j \in DOMAIN urb : /\ urb[j].status \in {"none", "gone"} => urb[j].actual = 0
                               /\ j <= Num => urb[j].actual <= Size(j)
                               /\ urb[j].status = "gone" => gone
                               /\ urb[j].status = "short" => urb[j].actual < Size(j)
    BY DEF ReportIsTrue, DataTypeOK
<1>7. /\ length \in Nat /\ length <= MaxLength /\ MaxLength \in Nat
      /\ \A j \in 1..Num : Start(j) \in Nat /\ Size(j) \in Nat /\ Start(j) + Size(j) <= length
      /\ \A j, k \in 1..Num : j < k => Start(j) + Size(j) <= Start(k) /\ Size(j) > 0
      /\ \A j \in 1..Num : j < Num => Start(j + 1) = Start(j) + Size(j)
    BY Layout
<1>8. DataTypeOK'
    <2>1. buffer' \in [1..MaxLength -> Nat]
        <3>1. CASE kind = "iso"
            BY <1>6, <3>1 DEF Received
        <3>2. CASE kind # "iso"
            <4>1. buffer' = [p \in 1..MaxLength |-> IF p \in Start(i)+1 .. Start(i)+n
                                                    THEN sent + p - Start(i) ELSE buffer[p]]
                BY <1>6, <3>2 DEF Received
            <4>2. Start(i) \in Nat
                BY <1>3, <1>7
            <4>3. \A p \in Start(i)+1 .. Start(i)+n : sent + p - Start(i) \in Nat
                BY <1>6, <4>2
            <4>4. \A p \in 1..MaxLength : buffer[p] \in Nat
                BY <1>6
            <4> QED BY <4>1, <4>3, <4>4
        <3> QED BY <3>1, <3>2
    <2>2. sent' \in Nat /\ transferred' \in Nat
        BY <1>6
    <2>3. \A j \in DOMAIN urb' : /\ urb'[j].status \in {"none", "gone"} => urb'[j].actual = 0
                                 /\ j <= Num => urb'[j].actual <= Size(j)
                                 /\ urb'[j].status = "gone" => gone
                                 /\ urb'[j].status = "short" => urb'[j].actual < Size(j)
        BY <1>0, <1>6
    <2> QED BY <1>0, <1>1, <2>1, <2>2, <2>3 DEF DataTypeOK
<1>9. ASSUME kind = "bulk", NEW k \in DOMAIN urb, urb'[k].actual > 0
      PROVE  InOrder(k)'
    <2>1. CASE k = i
        <3>1. Active(i)
            BY <1>9, <2>1
        <3> QED BY <1>2, <1>4, <2>1, <3>1 DEF InOrder
    <2>2. CASE k # i
        BY <1>2, <1>9, <2>2 DEF ReportIsTrue, OrderIsKept
    <2> QED BY <2>1, <2>2
<1> DEFINE Bulk == kind = "bulk" /\ ~gone
\* A URB that has data already is before i.
<1>10. ASSUME Bulk, NEW k \in DOMAIN urb, urb[k].actual > 0
       PROVE  k < i /\ k \in 1..Num /\ Start(k) + Size(k) <= Start(i) /\ urb[k].actual <= Size(k)
    <2>1. k # i
        BY <1>5, <1>10
    <2>2. ~(i < k)
        <3>1. SUFFICES ASSUME i < k PROVE FALSE
            OBVIOUS
        <3>2. Earlier(i, k)
            BY <1>0, <1>10, <3>1 DEF InOrder, ReportIsTrue, OrderIsKept
        <3> QED BY <3>2, EarlierIsCompleted
    <2>3. k \in 1..Num
        BY <1>10, DataIsSubmitted
    <2> QED BY <1>0, <1>3, <1>6, <1>7, <2>1, <2>2, <2>3
<1>11. ASSUME Bulk, NEW k \in 1..Num, k <= i
       PROVE  (\A j \in 1..k-1 : Full(j)') <=> (\A j \in 1..k-1 : Full(j))
    <2>1. \A j \in 1..k-1 : j \in DOMAIN urb \ {i}
        BY <1>0, <1>3, <1>11
    <2> QED BY <1>1, <2>1 DEF Full
<1>12. DataFollows'
    <2> SUFFICES ASSUME Bulk PROVE DataFollows'
        BY DEF DataFollows
    <2>1. /\ transferred <= sent /\ \A p \in 1..transferred : buffer[p] = p
          /\ \A k \in Waiting :
             /\ transferred < First(k) /\ First(k) + urb[k].actual <= sent + 1
             /\ \A q \in 1..urb[k].actual : buffer[Start(k) + q] = First(k) + q - 1
             /\ First(k) <= Start(k) + 1
             /\ (\A j \in 1..k-1 : Full(j)) => First(k) = Start(k) + 1
             /\ (\A j \in Waiting : k <= j) => First(k) = transferred + 1
             /\ (\A j \in Waiting : j <= k) => First(k) + urb[k].actual = sent + 1
             /\ \A l \in Waiting : k < l =>
                  /\ First(k) + urb[k].actual <= First(l)
                  /\ (\A j \in Waiting : j <= k \/ l <= j) => First(l) = First(k) + urb[k].actual
          /\ Waiting = {} => transferred = sent
        BY DEF ReportIsTrue, DataFollows
    <2>2. \A k \in Waiting : k \in DOMAIN urb /\ urb[k].actual > 0 /\ urb[k].actual \in Nat
        BY <1>0 DEF Waiting, Urbs
    <2>3. /\ \A k \in Waiting : k < i /\ k \in 1..Num /\ Start(k) + Size(k) <= Start(i) /\ urb[k].actual <= Size(k)
          /\ \A k \in Waiting : urb'[k].actual = urb[k].actual /\ k \in DOMAIN urb \ {i}
        BY <1>2, <1>10, <2>2
    <2>4. \A k \in Waiting : (\A j \in 1..k-1 : Full(j)') <=> (\A j \in 1..k-1 : Full(j))
        BY <1>3, <1>11, <2>3
    <2>5. CASE n = 0
        <3>1. buffer' = buffer /\ sent' = sent /\ Waiting' = Waiting
            BY <1>2, <1>3, <1>6, <1>7, <2>5 DEF Received
        <3>2. \A k : First(k)' = First(k)
            BY <1>1, <3>1 DEF First
        <3> QED BY <1>1, <2>1, <2>3, <2>4, <3>1, <3>2 DEF DataFollows
    <2>6. CASE n > 0
        <3>1. sent <= Start(i)
            BY <1>3, <2>6 DEF ReportIsTrue, DataComesInOrder, Active
        <3>2. Waiting' = Waiting \cup {i}
            BY <1>2, <2>6
        <3>3. \A p \in 1..MaxLength : buffer'[p] = IF p \in Start(i)+1 .. Start(i)+n
                                                   THEN sent + p - Start(i) ELSE buffer[p]
            BY <1>6 DEF Received
        <3>4. \A p \in 1..transferred : buffer'[p] = p
            <4> SUFFICES ASSUME NEW p \in 1..transferred PROVE buffer'[p] = p
                OBVIOUS
            <4>1. /\ p \in Nat /\ 1 <= p /\ p <= Start(i) /\ Start(i) \in Nat /\ Start(i) <= MaxLength
                  /\ MaxLength \in Nat
                BY <1>3, <1>6, <1>7, <2>1, <3>1
            <4>2. p \in 1..MaxLength /\ p \notin Start(i)+1 .. Start(i)+n
                BY <4>1
            <4> QED BY <2>1, <3>3, <4>2
        <3>5. ASSUME NEW k \in Waiting
              PROVE  /\ \A q \in 1..urb[k].actual : buffer'[Start(k) + q] = buffer[Start(k) + q]
                     /\ First(k)' = First(k) /\ First(k) \in Nat
            <4>1. /\ Start(k) \in Nat /\ Start(i) \in Nat /\ Size(k) \in Nat /\ Size(i) \in Nat
                  /\ Start(i) + Size(i) <= MaxLength
                BY <1>3, <1>7, <2>3
            <4>2. \A q \in 1..urb[k].actual : Start(k) + q \in 1..MaxLength /\ Start(k) + q <= Start(i)
                BY <1>7, <2>2, <2>3, <4>1
            <4>3. \A q \in 1..urb[k].actual : buffer'[Start(k) + q] = buffer[Start(k) + q]
                BY <3>3, <4>1, <4>2
            <4>4. 1 \in 1..urb[k].actual /\ Start(k) + 1 \in 1..MaxLength
                BY <2>2, <4>2
            <4>5. First(k)' = First(k) /\ First(k) \in Nat
                BY <1>1, <1>6, <4>3, <4>4 DEF First
            <4> QED BY <4>3, <4>5
        <3>6. /\ \A q \in 1..n : buffer'[Start(i) + q] = sent + q
              /\ First(i)' = sent + 1
            <4>1. /\ Start(i) \in Nat /\ Size(i) \in Nat /\ Start(i) + Size(i) <= MaxLength
                BY <1>3, <1>7
            <4>2. ASSUME NEW q \in 1..n
                  PROVE  buffer'[Start(i) + q] = sent + q
                <5>1. Start(i) + q \in 1..MaxLength /\ Start(i) + q \in Start(i)+1 .. Start(i)+n
                    BY <1>7, <4>1
                <5>2. buffer'[Start(i) + q] = sent + (Start(i) + q) - Start(i)
                    BY <3>3, <5>1
                <5> QED BY <1>6, <4>1, <5>2
            <4> QED BY <1>1, <2>6, <4>2 DEF First
        <3>7. Active(i)
            BY <2>6
        <3>8. (\A j \in 1..i-1 : Full(j)') => sent = Start(i)
            <4>1. \A j \in i..Num : urb[j].actual = 0
                BY <1>0, <1>3, <1>4, <3>7
            <4> QED BY <1>3, <1>11, <4>1 DEF ReportIsTrue, DataComesInOrder
        <3>9. i \in Nat /\ \A k \in Waiting : k \in Nat /\ k < i
            BY <1>3, <2>3
        <3> DEFINE F(k) == First(k)
        <3>10. ASSUME NEW k \in Waiting
               PROVE  /\ transferred < First(k) /\ First(k) + urb[k].actual <= sent' + 1
                      /\ \A q \in 1..urb[k].actual : buffer'[Start(k) + q] = First(k) + q - 1
                      /\ First(k) <= Start(k) + 1
                      /\ (\A j \in 1..k-1 : Full(j)') => First(k) = Start(k) + 1
                      /\ (\A j \in Waiting' : k <= j) => First(k) = transferred + 1
                      /\ ~\A j \in Waiting' : j <= k
                      /\ \A l \in Waiting : k < l =>
                           /\ First(k) + urb[k].actual <= First(l)
                           /\ (\A j \in Waiting' : j <= k \/ l <= j) => First(l) = First(k) + urb[k].actual
                      /\ First(k) + urb[k].actual <= sent + 1
                      /\ (\A j \in Waiting' : j <= k \/ i <= j) => sent + 1 = First(k) + urb[k].actual
            <4>1. transferred < First(k) /\ First(k) + urb[k].actual <= sent' + 1
                BY <1>6, <2>1, <2>2, <3>5
            <4>2. /\ \A q \in 1..urb[k].actual : buffer'[Start(k) + q] = First(k) + q - 1
                  /\ First(k) <= Start(k) + 1
                  /\ (\A j \in 1..k-1 : Full(j)') => First(k) = Start(k) + 1
                BY <2>1, <2>4, <3>5
            <4>3. (\A j \in Waiting' : k <= j) => First(k) = transferred + 1
                BY <2>1, <3>2
            <4>4. ~\A j \in Waiting' : j <= k
                BY <3>2, <3>9
            <4>5. \A l \in Waiting : k < l =>
                           /\ First(k) + urb[k].actual <= First(l)
                           /\ (\A j \in Waiting' : j <= k \/ l <= j) => First(l) = First(k) + urb[k].actual
                BY <2>1, <3>2
            <4>6. (\A j \in Waiting' : j <= k \/ i <= j) => sent + 1 = First(k) + urb[k].actual
                <5>1. SUFFICES ASSUME \A j \in Waiting' : j <= k \/ i <= j
                               PROVE  \A j \in Waiting : j <= k
                    BY <2>1
                <5> QED BY <3>2, <3>9, <5>1
            <4> QED BY <2>1, <4>1, <4>2, <4>3, <4>4, <4>5, <4>6
        <3>11. /\ transferred < First(i)' /\ First(i)' + n <= sent' + 1
               /\ \A q \in 1..n : buffer'[Start(i) + q] = First(i)' + q - 1
               /\ First(i)' <= Start(i) + 1
               /\ (\A j \in 1..i-1 : Full(j)') => First(i)' = Start(i) + 1
               /\ (\A j \in Waiting' : i <= j) => First(i)' = transferred + 1
               /\ First(i)' + n = sent' + 1
            <4>1. (\A j \in Waiting' : i <= j) => First(i)' = transferred + 1
                <5>1. SUFFICES ASSUME \A j \in Waiting' : i <= j
                               PROVE  Waiting = {}
                    BY <2>1, <3>6
                <5> QED BY <3>2, <3>9, <5>1
            <4> QED BY <1>3, <1>6, <1>7, <2>1, <3>1, <3>6, <3>8, <4>1
        <3>12. transferred' <= sent'
            BY <1>6, <2>1
        <3>13. \A k \in Waiting : First(k)' = First(k) /\ urb'[k].actual = urb[k].actual
            BY <2>3, <3>5
        <3>14. \A k \in Waiting' : k \in Waiting \/ k = i
            BY <3>2
        <3>15. ASSUME NEW k \in Waiting'
               PROVE  /\ transferred' < First(k)' /\ First(k)' + urb'[k].actual <= sent' + 1
                      /\ \A q \in 1..urb'[k].actual : buffer'[Start(k)' + q] = First(k)' + q - 1
                      /\ First(k)' <= Start(k)' + 1
                      /\ (\A j \in 1..k-1 : Full(j)') => First(k)' = Start(k)' + 1
                      /\ (\A j \in Waiting' : k <= j) => First(k)' = transferred' + 1
                      /\ (\A j \in Waiting' : j <= k) => First(k)' + urb'[k].actual = sent' + 1
                      /\ \A l \in Waiting' : k < l =>
                           /\ First(k)' + urb'[k].actual <= First(l)'
                           /\ (\A j \in Waiting' : j <= k \/ l <= j) => First(l)' = First(k)' + urb'[k].actual
            <4>1. CASE k = i
                <5>1. \A l \in Waiting' : ~(k < l)
                    BY <3>9, <3>14, <4>1
                <5> QED BY <1>1, <3>11, <4>1, <5>1
            <4>2. CASE k \in Waiting
                <5>1. \A l \in Waiting' : k < l =>
                           /\ First(k)' + urb'[k].actual <= First(l)'
                           /\ (\A j \in Waiting' : j <= k \/ l <= j) => First(l)' = First(k)' + urb'[k].actual
                    BY <3>6, <3>10, <3>13, <3>14, <4>2
                <5> QED BY <1>1, <3>10, <3>13, <4>2, <5>1
            <4> QED BY <3>14, <4>1, <4>2
        <3>16. Waiting' # {}
            BY <3>2
        <3> QED BY <3>4, <3>12, <3>15, <3>16 DEF DataFollows
    <2> QED BY <2>5, <2>6
<1>13. ASSUME Bulk, NEW j \in 1..Num, j \in Pending' \/ j > submitted
       PROVE  sent' <= Start(j)
    <2>1. sent <= Start(j) /\ Start(j) \in Nat /\ j # i
        <3>1. j \in Pending \/ j > submitted
            BY <1>0, <1>13 DEF Pending
        <3>2. j # i
            BY <1>0, <1>3, <1>13 DEF Pending
        <3> QED BY <1>7, <1>13, <3>1, <3>2 DEF ReportIsTrue, DataComesInOrder
    <2>2. CASE n = 0
        BY <1>6, <2>1, <2>2
    <2>3. CASE n > 0
        <3>1. Active(i) /\ i \in Pending
            BY <2>3 DEF Active
        <3>2. i < j
            BY <1>0, <1>3, <1>4, <1>13, <2>1, <3>1 DEF Pending
        <3>3. sent <= Start(i)
            BY <1>3, <1>13, <3>1 DEF ReportIsTrue, DataComesInOrder
        <3>4. Start(i) \in Nat /\ Size(i) \in Nat /\ Start(i) + Size(i) <= Start(j)
            BY <1>3, <1>7, <3>2
        <3> QED BY <1>6, <2>1, <3>3, <3>4
    <2> QED BY <2>2, <2>3
<1>14. ASSUME Bulk, NEW j \in 1..Num, \A k \in 1..j-1 : Full(k)', \A k \in j..Num : urb'[k].actual = 0
       PROVE  sent' = Start(j)
    <2>0. /\ j \in Nat /\ i \in Nat /\ i <= Num
          /\ i < j => (urb'[i].actual = Size(i) /\ Size(i) > 0)
          /\ i >= j => n = 0
        <3>1. i < j => Full(i)' /\ Size(i) > 0
            BY <1>3, <1>7, <1>14
        <3>2. i >= j => i \in j..Num
            BY <1>3, <1>14
        <3> QED BY <1>1, <1>3, <1>14, <3>1, <3>2 DEF Full
    <2>1. CASE i >= j
        <3>1. \A k \in 1..j-1 : Full(k)
            BY <1>0, <1>11, <1>14, <2>0, <2>1
        <3>2. \A k \in j..Num : urb[k].actual = 0
            BY <1>0, <1>5, <1>14
        <3>3. sent = Start(j)
            BY <1>14, <3>1, <3>2 DEF ReportIsTrue, DataComesInOrder
        <3> QED BY <1>6, <2>0, <2>1, <3>3
    <2>2. CASE i < j
        <3>1. n > 0 /\ n = Size(i) /\ Active(i) /\ i < Num
            <4>1. urb'[i].actual = Size(i) /\ Size(i) > 0 /\ j <= Num
                BY <1>0, <1>14, <2>0, <2>2
            <4>2. n > 0 /\ n = Size(i)
                BY <4>1
            <4>3. Active(i)
                BY <4>2
            <4> QED BY <1>0, <2>0, <2>2, <4>1, <4>2, <4>3
        <3>2. j = i + 1
            <4>1. SUFFICES ASSUME i + 1 < j PROVE FALSE
                BY <2>0, <2>2
            <4>2. i + 1 \in 1..j-1 /\ i + 1 \in 1..Num /\ i + 1 \in DOMAIN urb \ {i} /\ i <= i + 1
                BY <1>0, <1>3, <2>0, <4>1
            <4>3. Size(i + 1) > 0
                BY <1>7, <1>14, <4>1, <4>2
            <4>4. urb[i + 1].actual = Size(i + 1)
                BY <1>1, <1>14, <4>2 DEF Full
            <4>5. urb[i + 1].actual = 0
                BY <1>4, <1>14, <3>1, <4>2
            <4> QED BY <4>3, <4>4, <4>5
        <3>3. \A k \in 1..i-1 : Full(k)
            <4>1. \A k \in 1..i-1 : k \in 1..j-1
                BY <2>0, <2>2
            <4> QED BY <1>3, <1>11, <1>14, <4>1
        <3>4. \A k \in i..Num : urb[k].actual = 0
            BY <1>0, <1>3, <1>4, <1>14, <3>1
        <3>5. sent = Start(i)
            BY <1>3, <1>14, <3>3, <3>4 DEF ReportIsTrue, DataComesInOrder
        <3> QED BY <1>3, <1>7, <3>1, <3>2, <3>5
    <2> QED BY <2>0, <2>1, <2>2
<1>15. ASSUME Bulk, NEW k \in DOMAIN urb, urb'[k].status = "stall"
       PROVE  halted' /\ \A j \in DOMAIN urb : k < j => urb'[j].actual = 0
    <2>1. CASE k = i
        <3>1. halted' /\ Active(i)
            BY <1>15, <2>1
        <3> QED BY <1>0, <1>3, <1>4, <1>15, <2>1, <3>1
    <2>2. CASE k # i
        <3>1. halted /\ \A j \in DOMAIN urb : k < j => urb[j].actual = 0
            BY <1>15, <2>2 DEF ReportIsTrue, DataComesInOrder
        <3>2. n = 0
            BY <1>4, <3>1
        <3> QED BY <3>1, <3>2
    <2> QED BY <2>1, <2>2
<1>16. DataComesInOrder'
    BY <1>0, <1>1, <1>13, <1>14, <1>15 DEF DataComesInOrder
<1> QED BY <1>8, <1>9, <1>12, <1>16

\* What a completion leaves as it is.
LEMMA CompletedRest ==
    ASSUME UsbfsAssumption, UsbfsInv, ReportIsTrue, NEW i \in DOMAIN urb, urb[i].at \in {"pending", "doomed"},
           done' = Append(done, i), event' = event, urb' \in [1..MaxUrbs -> Urbs], urb'[i].at = "done",
           \A j \in DOMAIN urb \ {i} : /\ urb'[j].status = urb[j].status /\ urb'[j].actual = urb[j].actual
                                       /\ \/ urb'[j].at = urb[j].at
                                          \/ urb[j].at = "pending" /\ urb'[j].at = "doomed",
           kind = "iso" => buffer' = buffer, (loop' = NoLoop) <=> (loop = NoLoop),
           UNCHANGED <<kind, length, mode, transferred, submitted, gone, held, retired, reapAction, reapStatus,
                       asked, outcome, holder>>
    PROVE  RetiredAreHandled' /\ NormalIsFull' /\ EndHasReason' /\ CompletedIsTrue'
<1>0. /\ DOMAIN urb = 1..MaxUrbs /\ DOMAIN urb' = 1..MaxUrbs /\ Num \in 1..MaxUrbs /\ MaxUrbs \in Nat
      /\ submitted \in 0..Num /\ urb \in [1..MaxUrbs -> Urbs] /\ i \in 1..MaxUrbs
    BY NumIsBounded
<1>1. Num' = Num /\ \A j : Start(j)' = Start(j) /\ Size(j)' = Size(j)
    BY DEF Num, Start, Size
<1>2. Handled' = Handled
    BY <1>0, CompletedLast
<1>3. urb[i].status = "none" /\ held /\ ~gone
    BY <1>0, StatusIsKnown, NoneOverflowed
<1>4. \A j \in Handled : j \in DOMAIN urb \ {i}
    BY <1>0 DEF Handled
<1>5. RetiredAreHandled'
    <2>1. \A j \in 1..submitted : urb'[j].at = "none" => gone
        BY <1>0 DEF ReportIsTrue, RetiredAreHandled
    <2> QED BY <1>1, <1>2, <2>1 DEF ReportIsTrue, RetiredAreHandled
<1>6. NormalIsFull'
    <2>1. \A j \in Handled : (Full(j)' <=> Full(j)) /\ urb'[j].status = urb[j].status
        BY <1>1, <1>4 DEF Full
    <2>2. (CancelLostDevice' <=> CancelLostDevice) /\ (Normal' <=> Normal)
        BY DEF CancelLostDevice, Normal
    <2> QED BY <1>1, <1>2, <2>1, <2>2 DEF ReportIsTrue, NormalIsFull
<1>7. outcome = "waiting" /\ event.at # "complete"
    BY <1>3 DEF UsbfsInv, FlightIsKnown
<1>8. CompletedIsTrue'
    BY <1>7 DEF CompletedIsTrue
<1>9. EndHasReason'
    <2>1. IsShort => IsShort'
        BY <1>0, <1>1, <1>3 DEF IsShort
    <2>2. FailedBeforeContinuation => FailedBeforeContinuation'
        BY <1>0, <1>1, <1>3 DEF FailedBeforeContinuation, FatalStatus
    <2>3. (\E j \in 1..submitted : urb[j].at = "none") => \E j \in 1..submitted : urb'[j].at = "none"
        BY <1>0
    <2>4. CancelLostDevice' <=> CancelLostDevice
        BY DEF CancelLostDevice
    <2> QED BY <1>7, <2>1, <2>2, <2>3, <2>4 DEF ReportIsTrue, EndHasReason
<1> QED BY <1>5, <1>6, <1>8, <1>9

\* A failure that takes a URB along comes before it.
LEMMA DoomedIsAfterFailure ==
    ASSUME UsbfsAssumption, UsbfsInv, ReportIsTrue, NEW i \in DOMAIN urb, urb[i].at = "doomed"
    PROVE  /\ kind = "bulk" /\ Pending = {}
           /\ \E j \in DOMAIN urb : urb[j].status \in Failures /\ urb[j].at \in {"done", "reaped"}
<1>1. /\ kind = "bulk" /\ Pending = {} /\ disabled /\ ~gone /\ held
      /\ \A j \in DOMAIN urb : urb[j].status # "overflow"
    BY NoneOverflowed
<1>2. i \in 1..submitted /\ DOMAIN urb = 1..MaxUrbs /\ submitted \in 0..MaxUrbs /\ MaxUrbs \in Nat
    <2>1. i <= submitted
        BY DEF UsbfsInv, KernelAgrees
    <2> QED BY <2>1, NumIsBounded
<1>3. PICK j \in 1..submitted : urb[j].status \in Failures \cup {"overflow"}
    BY <1>1, <1>2 DEF ReportIsTrue, FailureIsKnown
<1>4. j \in DOMAIN urb
    BY <1>2
<1>5. urb[j].status \in Failures
    BY <1>1, <1>3, <1>4
<1>6. urb[j].status # "none"
    BY <1>5 DEF Failures
<1> QED BY <1>1, <1>4, <1>5, <1>6, DataIsSubmitted

\* The device answers.
LEMMA AnswerIsTrue ==
    ASSUME UsbfsAssumption, UsbfsInv, UsbfsInv', ReportIsTrue, NEW i \in 1..MaxUrbs,
           NEW st \in {"ok", "short", "stall", "bus", "overflow"}, NEW n \in 0..MaxLength,
           n <= Size(i), Answer(i, st, n)
    PROVE  /\ DataTypeOK' /\ RetiredAreHandled' /\ CancelKnowsWhy' /\ FailureIsKnown' /\ OrderIsKept'
           /\ NormalIsFull' /\ DataFollows' /\ DataComesInOrder' /\ EndHasReason' /\ CompletedIsTrue'
<1>0. /\ DOMAIN urb = 1..MaxUrbs /\ Num \in 1..MaxUrbs /\ MaxUrbs \in Nat
      /\ submitted \in 0..Num /\ urb \in [1..MaxUrbs -> Urbs] /\ MaxLength \in Nat
    BY NumIsBounded DEF UsbfsAssumption
<1>1. /\ Active(i) /\ ~gone /\ urb' = Doomed(Completed(i, st, n), i, st) /\ done' = Append(done, i)
      /\ buffer' = Received(i, n) /\ sent' = sent + n /\ halted' = (st = "stall")
      /\ st = "short" => n < Size(i)
      /\ disabled' = (disabled \/ (kind = "bulk" /\ mode = "continue" /\ st # "ok"))
      /\ UNCHANGED <<kind, length, mode, transferred, submitted, gone, held, retired, reapAction, reapStatus,
                     asked, outcome, holder, loop, event, inFlight>>
    BY DEF Answer, params, caps, privVars, flagVars
<1>2. /\ urb[i].at = "pending" /\ ~halted /\ (\A j \in Pending : i <= j) /\ i \in 1..submitted /\ i \in 1..Num
      /\ \A j \in 1..i-1 : j \in DOMAIN urb /\ urb[j].at \in {"done", "reaped"}
    BY <1>0, <1>1, ActiveIsNext
<1>3. /\ urb' \in [1..MaxUrbs -> Urbs]
      /\ urb'[i].at = "done" /\ urb'[i].status = st /\ urb'[i].actual = n
      /\ \A j \in DOMAIN urb \ {i} : /\ urb'[j].status = urb[j].status /\ urb'[j].actual = urb[j].actual
                                     /\ \/ urb'[j].at = urb[j].at
                                        \/ urb[j].at = "pending" /\ urb'[j].at = "doomed"
    <2>1. urb' \in [1..MaxUrbs -> Urbs]
        BY DEF UsbfsInv, UsbfsTypeOK
    <2>2. /\ Completed(i, st, n)[i] = [at |-> "done", status |-> st, actual |-> n]
          /\ \A j \in DOMAIN urb \ {i} : Completed(i, st, n)[j] = urb[j]
          /\ DOMAIN Completed(i, st, n) = DOMAIN urb
        BY <1>0 DEF Completed
    <2> DEFINE f == Completed(i, st, n)
    <2>3. \A j \in DOMAIN urb : f[j] \in Urbs
        BY <1>0, <2>2 DEF Urbs, UrbStatuses
    <2> HIDE DEF f
    <2>4. \A j \in DOMAIN urb : \/ urb'[j] = f[j]
                                \/ f[j].at = "pending" /\ j # i /\ urb'[j] = [f[j] EXCEPT !.at = "doomed"]
        BY <1>0, <1>1, <2>2 DEF Doomed, f
    <2>5. urb'[i] = f[i]
        BY <1>0, <2>4
    <2>6. f[i] = [at |-> "done", status |-> st, actual |-> n] /\ \A j \in DOMAIN urb \ {i} : f[j] = urb[j]
        BY <2>2 DEF f
    <2>7. \A j \in DOMAIN urb \ {i} : /\ urb'[j].status = urb[j].status /\ urb'[j].actual = urb[j].actual
                                      /\ \/ urb'[j].at = urb[j].at
                                         \/ urb[j].at = "pending" /\ urb'[j].at = "doomed"
        <3>1. ASSUME NEW u \in Urbs
              PROVE  /\ [u EXCEPT !.at = "doomed"].status = u.status /\ [u EXCEPT !.at = "doomed"].actual = u.actual
                     /\ [u EXCEPT !.at = "doomed"].at = "doomed"
            BY DEF Urbs
        <3>2. ASSUME NEW j \in DOMAIN urb \ {i}
              PROVE  /\ urb'[j].status = urb[j].status /\ urb'[j].actual = urb[j].actual
                     /\ \/ urb'[j].at = urb[j].at
                        \/ urb[j].at = "pending" /\ urb'[j].at = "doomed"
            <4>1. f[j] = urb[j] /\ urb[j] \in Urbs
                BY <2>3, <2>6
            <4>2. CASE urb'[j] = f[j]
                BY <4>1, <4>2
            <4>3. CASE f[j].at = "pending" /\ j # i /\ urb'[j] = [f[j] EXCEPT !.at = "doomed"]
                BY <3>1, <4>1, <4>3
            <4> QED BY <2>4, <4>2, <4>3
        <3> QED BY <3>2
    <2> QED BY <2>1, <2>5, <2>6, <2>7
<1>4. /\ DataTypeOK' /\ DataFollows' /\ DataComesInOrder'
      /\ kind = "bulk" => \A k \in DOMAIN urb : urb'[k].actual > 0 => InOrder(k)'
    <2>1. /\ n \in Nat /\ (n > 0 => Active(i)) /\ urb[i].at \in {"pending", "doomed"} /\ i \in DOMAIN urb
          /\ urb'[i].status = "short" => n < Size(i)
          /\ urb'[i].status \notin {"none", "gone"}
        BY <1>0, <1>1, <1>2, <1>3
    <2>2. /\ urb'[i].status = "stall" => halted' /\ Active(i)
          /\ halted => halted'
        <3>1. halted' = (st = "stall") /\ ~halted /\ Active(i) /\ urb'[i].status = st
            BY <1>1, <1>2, <1>3
        <3> QED BY <3>1
    <2> QED BY <1>1, <1>3, <2>1, <2>2, CompletedData
<1>5. RetiredAreHandled' /\ NormalIsFull' /\ EndHasReason' /\ CompletedIsTrue'
    <2>1. kind = "iso" => buffer' = buffer
        BY <1>1 DEF Received
    <2> QED BY <1>0, <1>1, <1>2, <1>3, <2>1, CompletedRest
<1>6. /\ \A k \in DOMAIN urb : \A j : Earlier(j, k) => Earlier(j, k)'
      /\ \A k \in DOMAIN urb : InOrder(k) => InOrder(k)'
      /\ \A j \in DOMAIN urb : urb[j].at \in {"done", "reaped"} => Earlier(j, i)'
    BY <1>0, <1>1, <1>2, <1>3, CompletedLast
<1>7. (CancelLostDevice' <=> CancelLostDevice) /\ (Normal' <=> Normal) /\ (Cancelling' <=> Cancelling) /\ Num' = Num
    BY <1>1 DEF CancelLostDevice, Normal, Cancelling, Num
<1>8. OrderIsKept'
    <2>1. InOrder(i)'
        BY <1>2, <1>6 DEF InOrder
    <2>2. \A k \in DOMAIN urb : urb'[k].status # "none" => k = i \/ urb[k].status # "none"
        BY <1>3
    <2>3. DOMAIN urb' = DOMAIN urb
        BY <1>0, <1>3
    <2> QED BY <1>1, <1>4, <1>6, <1>7, <2>1, <2>2, <2>3 DEF ReportIsTrue, OrderIsKept
<1>9. FailureIsKnown'
    <2>1. held' /\ submitted' > 0 /\ disabled' /\ ~gone' =>
             \E j \in 1..submitted' : urb'[j].status \in Failures \cup {"overflow"}
        <3>1. CASE st = "ok"
            <4>1. disabled' = disabled
                BY <1>1, <3>1 DEF UsbfsInv, UsbfsTypeOK
            <4>2. \A j \in 1..submitted : urb[j].status \in Failures \cup {"overflow"} => urb'[j].status = urb[j].status
                <5>1. urb[i].status = "none"
                    BY <1>0, <1>2, StatusIsKnown
                <5> QED BY <1>0, <1>3, <5>1 DEF Failures
            <4> QED BY <1>1, <4>1, <4>2 DEF ReportIsTrue, FailureIsKnown
        <3>2. CASE st # "ok"
            BY <1>1, <1>2, <1>3, <3>2 DEF Failures
        <3> QED BY <3>1, <3>2
    <2>2. ASSUME NEW k \in DOMAIN urb, Normal', kind = "bulk", urb'[k].status = "killed"
          PROVE  CancelLostDevice' \/ Cancelling' \/ \E j \in DOMAIN urb : Earlier(j, k)' /\ urb'[j].status \in Failures
        <3>1. k # i /\ urb[k].status = "killed"
            BY <1>3, <2>2
        <3>2. CASE CancelLostDevice \/ Cancelling
            BY <1>7, <3>2
        <3>3. CASE \E j \in DOMAIN urb : Earlier(j, k) /\ urb[j].status \in Failures
            <4>1. PICK j \in DOMAIN urb : Earlier(j, k) /\ urb[j].status \in Failures
                BY <3>3
            <4>2. j # i
                BY <1>2, <4>1, EarlierIsCompleted
            <4> QED BY <1>3, <1>6, <4>1, <4>2
        <3> QED BY <1>7, <2>2, <3>1, <3>2, <3>3 DEF ReportIsTrue, FailureIsKnown
    <2>3. DOMAIN urb' = DOMAIN urb
        BY <1>0, <1>3
    <2> QED BY <1>1, <2>1, <2>2, <2>3 DEF FailureIsKnown
<1>10. CancelKnowsWhy'
    <2>1. Pending' \subseteq Pending \ {i}
        BY <1>0, <1>3 DEF Pending
    <2>2. urb[Num].status # "none" => urb'[Num].status # "none"
        BY <1>0, <1>3
    <2>3. urb'[Num].status # "none" => urb[Num].status # "none" \/ Pending' = {}
        <3>1. CASE i = Num
            <4>1. \A j \in Pending : j <= Num
                BY <1>0, NumIsBounded DEF UsbfsInv, KernelAgrees, Pending
            <4>2. \A j \in Pending : j = i
                BY <1>0, <1>2, <3>1, <4>1 DEF Pending
            <4> QED BY <2>1, <4>2
        <3>2. CASE i # Num
            BY <1>0, <1>3, <3>2
        <3> QED BY <3>1, <3>2
    <2>4. Pending = {} => Pending' = {}
        BY <2>1
    <2> QED BY <1>1, <1>7, <2>2, <2>3, <2>4 DEF ReportIsTrue, CancelKnowsWhy
<1> QED BY <1>4, <1>5, <1>8, <1>9, <1>10

\* A URB is killed: after a failure, or while the transfer is being cancelled.
LEMMA KilledIsTrue ==
    ASSUME UsbfsAssumption, UsbfsInv, UsbfsInv', ReportIsTrue, NEW i \in 1..MaxUrbs,
           urb[i].at \in {"pending", "doomed"}, NEW n \in 0..MaxLength, n <= Size(i),
           n > 0 => Active(i), n > 0 => kind # "iso",
           urb' = Completed(i, "killed", n), done' = Append(done, i), buffer' = Received(i, n), sent' = sent + n,
           (loop' = NoLoop) <=> (loop = NoLoop), loop'.ret = loop.ret, loop'.last = loop.last,
           Cancelling => Cancelling', i = Num /\ urb[i].at = "pending" /\ Normal => Cancelling',
           urb[i].at = "doomed" \/ (Normal => Cancelling'),
           UNCHANGED <<kind, length, mode, transferred, submitted, gone, held, retired, reapAction, reapStatus,
                       asked, outcome, holder, event, inFlight, halted, disabled>>
    PROVE  /\ DataTypeOK' /\ RetiredAreHandled' /\ CancelKnowsWhy' /\ FailureIsKnown' /\ OrderIsKept'
           /\ NormalIsFull' /\ DataFollows' /\ DataComesInOrder' /\ EndHasReason' /\ CompletedIsTrue'
<1>0. /\ DOMAIN urb = 1..MaxUrbs /\ Num \in 1..MaxUrbs /\ MaxUrbs \in Nat
      /\ submitted \in 0..Num /\ urb \in [1..MaxUrbs -> Urbs] /\ MaxLength \in Nat
    BY NumIsBounded DEF UsbfsAssumption
<1>1. /\ urb' \in [1..MaxUrbs -> Urbs] /\ DOMAIN urb' = DOMAIN urb
      /\ urb'[i].at = "done" /\ urb'[i].status = "killed" /\ urb'[i].actual = n
      /\ \A j \in DOMAIN urb \ {i} : urb'[j] = urb[j]
    BY <1>0 DEF Completed, UsbfsInv, UsbfsTypeOK
<1>2. /\ DataTypeOK' /\ DataFollows' /\ DataComesInOrder'
      /\ kind = "bulk" => \A k \in DOMAIN urb : urb'[k].actual > 0 => InOrder(k)'
    <2>1. /\ n \in Nat /\ i \in DOMAIN urb
          /\ urb'[i].status = "short" => n < Size(i)
          /\ urb'[i].status \notin {"none", "gone"} /\ urb'[i].status # "stall"
          /\ halted => halted'
        BY <1>0, <1>1
    <2> QED BY <1>1, <2>1, CompletedData
<1>3. RetiredAreHandled' /\ NormalIsFull' /\ EndHasReason' /\ CompletedIsTrue'
    <2>1. kind = "iso" => buffer' = buffer
        BY DEF Received
    <2>2. i \in DOMAIN urb
        BY <1>0
    <2> QED BY <1>1, <2>1, <2>2, CompletedRest
<1>4. /\ \A k \in DOMAIN urb : \A j : Earlier(j, k) => Earlier(j, k)'
      /\ \A k \in DOMAIN urb : InOrder(k) => InOrder(k)'
      /\ \A j \in DOMAIN urb : urb[j].at \in {"done", "reaped"} => Earlier(j, i)'
    BY <1>0, <1>1, CompletedLast
<1>5. (CancelLostDevice' <=> CancelLostDevice) /\ (Normal' <=> Normal) /\ Num' = Num
    BY DEF CancelLostDevice, Normal, Num
<1>6. urb[i].status = "none" /\ urb[i].at # "done" /\ urb[i].at # "reaped"
    BY <1>0, StatusIsKnown
<1>7. OrderIsKept'
    <2>1. CASE urb[i].at = "doomed"
        <3>1. kind = "bulk"
            BY <1>0, <2>1, DoomedIsAfterFailure
        <3> QED BY <1>1, <1>2, <3>1 DEF OrderIsKept
    <2>2. CASE urb[i].at # "doomed"
        BY <1>1, <1>2, <1>5, <2>2 DEF OrderIsKept
    <2> QED BY <2>1, <2>2
<1>8. FailureIsKnown'
    <2>1. held' /\ submitted' > 0 /\ disabled' /\ ~gone' =>
             \E j \in 1..submitted' : urb'[j].status \in Failures \cup {"overflow"}
        <3>1. \A j \in 1..submitted : urb[j].status \in Failures \cup {"overflow"} => urb'[j].status = urb[j].status
            BY <1>0, <1>1, <1>6 DEF Failures
        <3> QED BY <3>1 DEF ReportIsTrue, FailureIsKnown
    <2>2. ASSUME NEW k \in DOMAIN urb, Normal', kind = "bulk", urb'[k].status = "killed", ~Cancelling'
          PROVE  CancelLostDevice' \/ \E j \in DOMAIN urb : Earlier(j, k)' /\ urb'[j].status \in Failures
        <3>1. CASE k = i
            <4>1. urb[i].at = "doomed"
                BY <1>5, <2>2
            <4>2. PICK j \in DOMAIN urb : urb[j].status \in Failures /\ urb[j].at \in {"done", "reaped"}
                BY <1>0, <4>1, DoomedIsAfterFailure
            <4>3. j # i
                BY <1>6, <4>2
            <4> QED BY <1>1, <1>4, <3>1, <4>2, <4>3
        <3>2. CASE k # i
            <4>1. urb[k].status = "killed" /\ Normal /\ ~Cancelling
                BY <1>1, <1>5, <2>2, <3>2
            <4>2. CancelLostDevice \/ \E j \in DOMAIN urb : Earlier(j, k) /\ urb[j].status \in Failures
                BY <2>2, <4>1 DEF ReportIsTrue, FailureIsKnown
            <4>3. CASE \E j \in DOMAIN urb : Earlier(j, k) /\ urb[j].status \in Failures
                <5>1. PICK j \in DOMAIN urb : Earlier(j, k) /\ urb[j].status \in Failures
                    BY <4>3
                <5>2. j # i
                    BY <1>6, <5>1, EarlierIsCompleted
                <5> QED BY <1>1, <1>4, <5>1, <5>2
            <4> QED BY <1>5, <4>2, <4>3
        <3> QED BY <3>1, <3>2
    <2> QED BY <1>1, <2>1, <2>2 DEF FailureIsKnown
<1>9. CancelKnowsWhy'
    <2>1. Pending' \subseteq Pending \ {i}
        BY <1>0, <1>1 DEF Pending
    <2>2. urb[Num].status # "none" => urb'[Num].status # "none"
        BY <1>0, <1>1
    <2>3. Normal /\ urb'[Num].status # "none" => urb[Num].status # "none" \/ Pending' = {} \/ Cancelling'
        <3>1. CASE i = Num /\ urb[i].at = "doomed"
            BY <1>0, <2>1, <3>1, DoomedIsAfterFailure
        <3>2. CASE i # Num
            BY <1>0, <1>1, <3>2
        <3>3. CASE i = Num /\ urb[i].at = "pending"
            BY <3>3
        <3> QED BY <3>1, <3>2, <3>3
    <2>4. Pending = {} => Pending' = {}
        BY <2>1
    <2> QED BY <1>5, <2>2, <2>3, <2>4 DEF ReportIsTrue, CancelKnowsWhy
<1> QED BY <1>2, <1>3, <1>7, <1>8, <1>9

\* A URB that is killed for the one before it that failed.
LEMMA UnlinkIsTrue ==
    ASSUME UsbfsAssumption, UsbfsInv, UsbfsInv', ReportIsTrue, NEW i \in 1..MaxUrbs, Unlink(i)
    PROVE  /\ DataTypeOK' /\ RetiredAreHandled' /\ CancelKnowsWhy' /\ FailureIsKnown' /\ OrderIsKept'
           /\ NormalIsFull' /\ DataFollows' /\ DataComesInOrder' /\ EndHasReason' /\ CompletedIsTrue'
<1>0. /\ DOMAIN urb = 1..MaxUrbs /\ Num \in 1..MaxUrbs /\ MaxUrbs \in Nat
      /\ submitted \in 0..Num /\ MaxLength \in Nat \ {0}
    BY NumIsBounded DEF UsbfsAssumption
<1>1. /\ urb[i].at = "doomed" /\ urb' = Completed(i, "killed", 0) /\ done' = Append(done, i)
      /\ UNCHANGED <<kind, length, mode, transferred, submitted, gone, held, retired, reapAction, reapStatus,
                     asked, outcome, holder, loop, event, inFlight, halted, disabled, buffer, sent>>
    BY DEF Unlink, params, caps, privVars, dataVars, flagVars
<1>2. i \in 1..Num /\ sent \in Nat /\ buffer \in [1..MaxLength -> Nat]
    <2>1. i <= submitted
        BY <1>0, <1>1 DEF UsbfsInv, KernelAgrees
    <2> QED BY <1>0, <2>1 DEF ReportIsTrue, DataTypeOK
<1>3. Start(i) \in Nat /\ 0 <= Size(i)
    BY <1>2, Layout
<1>4. buffer' = Received(i, 0) /\ sent' = sent + 0
    BY <1>1, <1>2, <1>3 DEF Received
<1>5. Cancelling' <=> Cancelling
    BY <1>1 DEF Cancelling
<1>6. 0 \in 0..MaxLength /\ ~(0 > 0)
    BY <1>0
<1> QED BY <1>1, <1>3, <1>4, <1>5, <1>6, KilledIsTrue

\* discard_urbs() asks the kernel for one URB.
LEMMA DiscardUrbIsTrue ==
    ASSUME UsbfsAssumption, UsbfsInv, UsbfsInv', ReportIsTrue, NEW n \in 0..MaxLength, DiscardUrb(n)
    PROVE  /\ DataTypeOK' /\ RetiredAreHandled' /\ CancelKnowsWhy' /\ FailureIsKnown' /\ OrderIsKept'
           /\ NormalIsFull' /\ DataFollows' /\ DataComesInOrder' /\ EndHasReason' /\ CompletedIsTrue'
<1> DEFINE i == loop.at
           Found == urb[i].at \in {"pending", "doomed"}
<1>0. /\ DOMAIN urb = 1..MaxUrbs /\ Num \in 1..MaxUrbs /\ MaxUrbs \in Nat /\ urb \in [1..MaxUrbs -> Urbs]
      /\ submitted \in 0..Num /\ MaxLength \in Nat \ {0}
    BY NumIsBounded DEF UsbfsAssumption
<1>1. /\ loop.at >= loop.first
      /\ UNCHANGED <<kind, length, mode, transferred, submitted, gone, held, retired, reapAction, reapStatus,
                     asked, outcome, holder, event, inFlight, halted, disabled>>
    BY DEF DiscardUrb, params, caps, privVars, flagVars
<1>2. /\ loop \in Loops /\ loop' \in Loops /\ loop # NoLoop
      /\ loop.at \in 1..loop.last /\ loop.last \in 1..Num /\ holder # "none"
      /\ loop.at = loop.last => loop.ret = "ok"
    <2>1. loop \in Loops /\ loop' \in Loops
        BY DEF UsbfsInv, UsbfsTypeOK
    <2>2. loop # NoLoop /\ loop.at >= 1
        BY <1>0, <1>1, <2>1 DEF NoLoop, Loops
    <2> QED BY <1>0, <2>1, <2>2 DEF UsbfsInv, LockIsHeldFor, Loops
<1>3. Normal => holder \in {"user", "timeout"} /\ held
    <2>1. holder \in {"none", "submit", "user", "timeout", "event"}
        BY DEF UsbfsInv, UsbfsTypeOK
    <2> QED BY <1>2, <2>1 DEF ReportIsTrue, RetiredAreHandled, CancelKnowsWhy, Normal
<1>4. i \in 1..MaxUrbs /\ i \in 1..Num
    BY <1>0, <1>2
<1>5. loop'.at = i - 1 /\ loop'.last = loop.last
    BY <1>2 DEF DiscardUrb, Loops
<1>6. (loop' = NoLoop) <=> (loop = NoLoop)
    BY <1>0, <1>2, <1>5 DEF NoLoop
<1>7. holder \in {"user", "timeout"} => loop.last = Num
    BY DEF ReportIsTrue, CancelKnowsWhy
<1>8. CASE Found
    <2>1. /\ n <= Size(i) /\ (n > 0 => Active(i)) /\ (n > 0 => kind # "iso")
          /\ urb' = Completed(i, "killed", n) /\ done' = Append(done, i)
          /\ buffer' = Received(i, n) /\ sent' = sent + n
          /\ loop' = [loop EXCEPT !.at = i - 1]
        BY <1>8 DEF DiscardUrb
    <2>2. loop'.ret = loop.ret
        BY <1>2, <2>1 DEF Loops
    <2>3. Cancelling => Cancelling'
        BY <1>1, <1>0, <1>2, <1>5, <2>2 DEF Cancelling
    <2>4. Normal /\ loop.ret = "ok" => Cancelling'
        BY <1>0, <1>1, <1>2, <1>3, <1>5, <2>2 DEF Cancelling
    <2>5. i = Num /\ urb[i].at = "pending" /\ Normal => Cancelling'
        BY <1>2, <1>3, <1>7, <2>4
    <2>6. urb[i].at = "doomed" \/ (Normal => Cancelling')
        <3>1. SUFFICES ASSUME urb[i].at = "pending", Normal, ~gone, loop.ret # "ok"
                       PROVE  FALSE
            BY <1>1, <1>3, <1>8, <2>4 DEF Cancelling
        <3>2. loop.ret = "not_found"
            BY <1>2, <3>1 DEF Loops, ReportIsTrue, CancelKnowsWhy
        <3>3. Pending = {}
            BY <1>3, <3>1, <3>2 DEF ReportIsTrue, CancelKnowsWhy, Normal, Cancelling
        <3> QED BY <1>0, <1>4, <3>1, <3>3 DEF Pending
    <2> HIDE DEF i
    <2> QED BY <1>1, <1>4, <1>5, <1>6, <1>8, <2>1, <2>2, <2>3, <2>5, <2>6, KilledIsTrue
<1>9. CASE ~Found
    <2>1. /\ UNCHANGED <<urb, done, buffer, sent>>
          /\ loop' = [loop EXCEPT !.at = i - 1, !.ret = IF gone THEN "no_device"
                                                        ELSE IF i = loop.last THEN "not_found" ELSE @]
        BY <1>9 DEF DiscardUrb
    <2>2. loop'.ret = IF gone THEN "no_device" ELSE IF i = loop.last THEN "not_found" ELSE loop.ret
        BY <1>2, <2>1 DEF Loops
    <2>3. Pending' = Pending /\ Num' = Num
        BY <1>1, <2>1 DEF Pending, Num
    <2>4. DataTypeOK' /\ DataFollows' /\ DataComesInOrder'
        BY <1>0, <1>1, <2>1, <2>3, SameData
    <2>5. /\ Handled' = Handled /\ \A j : Start(j)' = Start(j) /\ Size(j)' = Size(j)
          /\ \A j \in DOMAIN urb : (Full(j)' <=> Full(j))
          /\ \A k \in DOMAIN urb : \A j : (Earlier(j, k)' <=> Earlier(j, k))
          /\ \A k \in DOMAIN urb : (InOrder(k)' <=> InOrder(k))
        BY <1>1, <2>1, SameOrder
    <2>6. (CancelLostDevice' <=> CancelLostDevice) /\ (Normal' <=> Normal)
        BY <1>1 DEF CancelLostDevice, Normal
    <2>7. Cancelling => Cancelling'
        BY <1>0, <1>1, <1>2, <1>5, <2>2 DEF Cancelling
    <2>8. RetiredAreHandled'
        BY <1>1, <1>6, <2>1, <2>3, <2>5 DEF ReportIsTrue, RetiredAreHandled
    <2>9. CancelKnowsWhy'
        <3>1. loop'.ret = "no_device" => gone'
            BY <1>1, <2>2 DEF ReportIsTrue, CancelKnowsWhy
        <3>2. ASSUME holder \in {"user", "timeout"}, loop'.ret = "not_found", reapAction = "normal", ~gone
              PROVE  urb[Num].status # "none"
            <4>1. CASE i = loop.last
                <5>1. i = Num /\ held
                    BY <1>7, <3>2, <4>1 DEF UsbfsInv, LockIsHeldFor
                <5>2. submitted = Num
                    BY <3>2, <5>1 DEF ReportIsTrue, RetiredAreHandled
                <5>3. urb[Num].at # "none"
                    BY <1>0, <3>2, <5>2 DEF ReportIsTrue, RetiredAreHandled
                <5>4. urb[Num].at \in {"done", "reaped"}
                    <6>1. urb[Num] \in Urbs /\ urb[Num].at \notin {"pending", "doomed"}
                        BY <1>0, <1>9, <5>1
                    <6> QED BY <5>3, <6>1 DEF Urbs
                <5> QED BY <1>0, <5>4, StatusIsKnown
            <4>2. CASE i # loop.last
                BY <2>2, <3>2, <4>2 DEF ReportIsTrue, CancelKnowsWhy
            <4> QED BY <4>1, <4>2
        <3> QED BY <1>1, <1>5, <2>1, <2>3, <2>6, <2>7, <3>1, <3>2 DEF ReportIsTrue, CancelKnowsWhy
    <2>10. FailureIsKnown'
        BY <1>1, <2>1, <2>5, <2>6, <2>7 DEF ReportIsTrue, FailureIsKnown
    <2>11. OrderIsKept'
        BY <1>1, <2>1, <2>5, <2>6, <2>7 DEF ReportIsTrue, OrderIsKept
    <2>12. NormalIsFull'
        <3>1. \A j \in Handled : j \in DOMAIN urb
            BY DEF Handled
        <3> QED BY <1>1, <2>1, <2>3, <2>5, <2>6, <3>1 DEF ReportIsTrue, NormalIsFull
    <2>13. (IsShort' <=> IsShort) /\ (FailedBeforeContinuation' <=> FailedBeforeContinuation)
        BY <1>1, <2>1, <2>3, <2>5 DEF IsShort, FailedBeforeContinuation
    <2>14. IsCompleted' <=> IsCompleted
        BY <1>1, <2>1, <2>13 DEF IsCompleted
    <2>15. EndHasReason' /\ CompletedIsTrue'
        BY <1>1, <2>1, <2>6, <2>13, <2>14 DEF ReportIsTrue, EndHasReason, CompletedIsTrue
    <2> QED BY <2>4, <2>8, <2>9, <2>10, <2>11, <2>12, <2>15
<1> QED BY <1>8, <1>9

-----------------------------------------------------------------------------
(* Steps in which the kernel does nothing, and no URB is handled *)

\* What such a step has to see to.
LEMMA QuietIsTrue ==
    ASSUME UsbfsAssumption, UsbfsInv, ReportIsTrue, UNCHANGED <<params, caps, submitted, dataVars, kernel>>,
           event' = event \/ (event.at # "lock" /\ event'.at # "lock"), held' => held,
           held' /\ reapAction' = "normal" => reapAction = "normal" /\ reapStatus' = reapStatus /\ retired' = retired,
           CancelLostDevice => CancelLostDevice', Normal' /\ Cancelling => Cancelling' \/ CancelLostDevice',
           event'.at = "complete" /\ event'.status = "completed" => event' = event,
           outcome' = "completed" => \/ outcome = "completed"
                                     \/ event.at = "complete" /\ event.status = "completed"
    PROVE  /\ DataTypeOK' /\ FailureIsKnown' /\ OrderIsKept' /\ NormalIsFull' /\ DataFollows'
           /\ DataComesInOrder' /\ CompletedIsTrue'
           /\ Num' = Num /\ Pending' = Pending /\ Handled' = Handled
           /\ IsShort => IsShort'
           /\ FailedBeforeContinuation => FailedBeforeContinuation'
           /\ event'.at = "complete" /\ event'.status = "completed" => CancelLostDevice' \/ IsCompleted'
           /\ (reapAction' = reapAction /\ reapStatus' = reapStatus) \/ ~held' \/ reapAction' # "early" => EndHasReason'
<1>0. /\ DOMAIN urb = 1..MaxUrbs /\ Num \in 1..MaxUrbs /\ MaxUrbs \in Nat /\ urb \in [1..MaxUrbs -> Urbs]
      /\ submitted \in 0..Num /\ UNCHANGED <<kind, length, mode, submitted, transferred, buffer, urb, done, sent,
                                             halted, disabled, gone>>
    BY NumIsBounded DEF params, caps, dataVars, kernel
<1>1. DataTypeOK' /\ DataFollows' /\ DataComesInOrder'
    <2>1. Pending' = Pending
        BY <1>0 DEF Pending
    <2> QED BY <1>0, <2>1, SameData
<1>2. /\ Handled' = Handled /\ Num' = Num /\ \A j : Start(j)' = Start(j) /\ Size(j)' = Size(j)
      /\ \A j \in DOMAIN urb : (Full(j)' <=> Full(j))
      /\ \A k \in DOMAIN urb : \A j : (Earlier(j, k)' <=> Earlier(j, k))
      /\ \A k \in DOMAIN urb : (InOrder(k)' <=> InOrder(k))
    BY <1>0, SameOrder
<1>3. Normal' => Normal
    BY DEF Normal
<1>4. FailureIsKnown'
    BY <1>0, <1>2, <1>3 DEF ReportIsTrue, FailureIsKnown
<1>5. OrderIsKept'
    BY <1>0, <1>2, <1>3 DEF ReportIsTrue, OrderIsKept
<1>6. NormalIsFull'
    <2>1. \A j \in Handled : j \in DOMAIN urb
        BY DEF Handled
    <2>2. Normal' => retired' = retired
        BY DEF Normal
    <2> QED BY <1>0, <1>2, <1>3, <2>1, <2>2 DEF ReportIsTrue, NormalIsFull
<1>7. (IsShort' <=> IsShort) /\ (FailedBeforeContinuation' <=> FailedBeforeContinuation)
    BY <1>0, <1>2 DEF IsShort, FailedBeforeContinuation
<1>8. IsCompleted' <=> IsCompleted
    BY <1>0, <1>7 DEF IsCompleted
<1>9. CompletedIsTrue'
    BY <1>8 DEF ReportIsTrue, EndHasReason, CompletedIsTrue
<1>10. event'.at = "complete" /\ event'.status = "completed" => CancelLostDevice' \/ IsCompleted'
    BY <1>8 DEF ReportIsTrue, EndHasReason
<1>11. (reapAction' = reapAction /\ reapStatus' = reapStatus) \/ ~held' \/ reapAction' # "early" => EndHasReason'
    BY <1>0, <1>7, <1>10 DEF ReportIsTrue, EndHasReason
<1>12. Pending' = Pending
    BY <1>0 DEF Pending
<1> QED BY <1>1, <1>2, <1>4, <1>5, <1>6, <1>7, <1>9, <1>10, <1>11, <1>12

\* The event handler goes on polling, or draining.
LEMMA BackIsNoLock ==
    ASSUME UsbfsInv
    PROVE  Back.at # "lock" /\ Back.at # "complete" /\ Back.status = "none" /\ event \in Events
<1>1. event \in Events /\ Back.at = event.back /\ Back.status = "none"
    BY DEF UsbfsInv, UsbfsTypeOK, Back, Polling
<1> QED BY <1>1 DEF Events

\* A refused submission gives up the transfer, and reports nothing.
LEMMA SubmitRefusedIsTrue ==
    ASSUME UsbfsAssumption, UsbfsInv, ReportIsTrue, SubmitRefused
    PROVE  /\ DataTypeOK' /\ RetiredAreHandled' /\ CancelKnowsWhy' /\ FailureIsKnown' /\ OrderIsKept'
           /\ NormalIsFull' /\ DataFollows' /\ DataComesInOrder' /\ EndHasReason' /\ CompletedIsTrue'
<1>1. /\ ~held' /\ holder' = "none" /\ outcome' = "refused" /\ event' = event /\ loop' = loop /\ asked' = asked
      /\ UNCHANGED <<params, caps, submitted, dataVars, kernel, reapStatus>>
    BY DEF SubmitRefused
<1>2. UNCHANGED <<urb, gone>> /\ submitted' = submitted
    BY <1>1 DEF kernel
<1>3. /\ DataTypeOK' /\ FailureIsKnown' /\ OrderIsKept' /\ NormalIsFull' /\ DataFollows'
      /\ DataComesInOrder' /\ CompletedIsTrue' /\ EndHasReason'
    <2>1. CancelLostDevice => CancelLostDevice'
        BY <1>1, <1>2 DEF CancelLostDevice
    <2>2. ~Normal'
        BY <1>1 DEF Normal
    <2> QED BY <1>1, <2>1, <2>2, QuietIsTrue
<1>4. RetiredAreHandled'
    BY <1>1, <1>2 DEF ReportIsTrue, RetiredAreHandled, params
<1>5. CancelKnowsWhy'
    BY <1>1, <1>2 DEF ReportIsTrue, CancelKnowsWhy, Normal
<1> QED BY <1>3, <1>4, <1>5

\* A failed submission that has discarded its URBs is marked as failed.
LEMMA SubmitDiscardedIsTrue ==
    ASSUME UsbfsAssumption, UsbfsInv, ReportIsTrue, SubmitDiscarded
    PROVE  /\ DataTypeOK' /\ RetiredAreHandled' /\ CancelKnowsWhy' /\ FailureIsKnown' /\ OrderIsKept'
           /\ NormalIsFull' /\ DataFollows' /\ DataComesInOrder' /\ EndHasReason' /\ CompletedIsTrue'
<1>1. /\ holder = "submit" /\ loop # NoLoop /\ holder' = "none" /\ loop' = NoLoop
      /\ UNCHANGED <<params, caps, submitted, dataVars, kernel, held, retired, reapAction, reapStatus, event,
                     outcome, asked>>
    BY DEF SubmitDiscarded, LoopEnded, privVars
<1>2. UNCHANGED <<urb, gone>> /\ reapAction = "failed"
    BY <1>1 DEF kernel, ReportIsTrue, RetiredAreHandled
<1>3. CancelLostDevice => CancelLostDevice'
    BY <1>1, <1>2 DEF CancelLostDevice
<1>4. ~Normal'
    BY <1>1, <1>2 DEF Normal
<1>5. /\ DataTypeOK' /\ FailureIsKnown' /\ OrderIsKept' /\ NormalIsFull' /\ DataFollows'
      /\ DataComesInOrder' /\ CompletedIsTrue' /\ EndHasReason' /\ Num' = Num /\ Handled' = Handled
    BY <1>1, <1>2, <1>3, <1>4, QuietIsTrue
<1>6. RetiredAreHandled'
    BY <1>1, <1>2, <1>5 DEF ReportIsTrue, RetiredAreHandled, params
<1>7. CancelKnowsWhy'
    BY <1>1, <1>4 DEF CancelKnowsWhy, NoLoop
<1> QED BY <1>5, <1>6, <1>7

\* libusb_cancel_transfer()
LEMMA CancelIsTrue ==
    ASSUME UsbfsAssumption, UsbfsInv, ReportIsTrue, NEW reason \in {"user", "timeout"}, Cancel(reason)
    PROVE  /\ DataTypeOK' /\ RetiredAreHandled' /\ CancelKnowsWhy' /\ FailureIsKnown' /\ OrderIsKept'
           /\ NormalIsFull' /\ DataFollows' /\ DataComesInOrder' /\ EndHasReason' /\ CompletedIsTrue'
<1>1. /\ inFlight /\ asked = "no" /\ holder = "none" /\ loop = NoLoop
      /\ UNCHANGED <<params, caps, submitted, dataVars, kernel, held, retired, reapAction, reapStatus, event, outcome>>
    BY DEF Cancel, privVars, UsbfsInv, LockIsHeldFor
<1>2. UNCHANGED <<urb, gone>>
    BY <1>1 DEF kernel
<1>3. ~CancelLostDevice /\ ~Cancelling
    BY <1>1 DEF CancelLostDevice, Cancelling
<1>4. /\ DataTypeOK' /\ FailureIsKnown' /\ OrderIsKept' /\ NormalIsFull' /\ DataFollows'
      /\ DataComesInOrder' /\ CompletedIsTrue' /\ EndHasReason' /\ Num' = Num /\ Handled' = Handled
      /\ Pending' = Pending
    BY <1>1, <1>3, QuietIsTrue
<1>5. \/ held /\ holder' = reason /\ loop' = [at |-> Num, first |-> 1, last |-> Num, ret |-> "ok"]
      \/ ~held /\ holder' = holder /\ loop' = loop
    BY DEF Cancel
<1>6. RetiredAreHandled'
    BY <1>1, <1>2, <1>4, <1>5 DEF ReportIsTrue, RetiredAreHandled, params
<1>7. Normal' <=> Normal
    BY <1>1 DEF Normal
<1>8. CancelKnowsWhy'
    <2>1. CASE ~held
        <3>1. ~Normal'
            BY <1>7, <2>1 DEF Normal
        <3> QED BY <1>1, <1>5, <2>1, <3>1 DEF CancelKnowsWhy, NoLoop
    <2>2. CASE held
        <3>1. holder' = reason /\ loop'.ret = "ok" /\ loop'.last = Num
            BY <1>5, <2>2
        <3> QED BY <1>2, <1>3, <1>4, <1>7, <3>1 DEF ReportIsTrue, CancelKnowsWhy
    <2> QED BY <2>1, <2>2
<1> QED BY <1>4, <1>6, <1>8

\* A cancellation marks the transfer as cancelled, or has found that the device is lost.
LEMMA CancelEndsIsTrue ==
    ASSUME UsbfsAssumption, UsbfsInv, ReportIsTrue, CancelEnds
    PROVE  /\ DataTypeOK' /\ RetiredAreHandled' /\ CancelKnowsWhy' /\ FailureIsKnown' /\ OrderIsKept'
           /\ NormalIsFull' /\ DataFollows' /\ DataComesInOrder' /\ EndHasReason' /\ CompletedIsTrue'
<1>1. /\ holder \in {"user", "timeout"} /\ loop # NoLoop /\ holder' = "none" /\ loop' = NoLoop /\ asked' = holder
      /\ UNCHANGED <<params, caps, submitted, dataVars, kernel, held, retired, reapStatus, event, outcome>>
    BY DEF CancelEnds, LoopEnded
<1>2. UNCHANGED <<urb, gone>>
    BY <1>1 DEF kernel
<1>3. \/ reapAction' = reapAction /\ (loop.ret # "ok" \/ reapAction # "normal")
      \/ reapAction' = "cancelled"
    BY DEF CancelEnds
<1>4. CancelLostDevice => CancelLostDevice'
    BY <1>1, <1>2 DEF CancelLostDevice
<1>5. Normal' => Normal /\ loop.ret # "ok"
    BY <1>1, <1>3 DEF Normal
<1>6. Normal' /\ Cancelling => CancelLostDevice'
    BY <1>1, <1>2, <1>5 DEF Cancelling, CancelLostDevice
<1>7. /\ DataTypeOK' /\ FailureIsKnown' /\ OrderIsKept' /\ NormalIsFull' /\ DataFollows'
      /\ DataComesInOrder' /\ CompletedIsTrue' /\ Num' = Num /\ Handled' = Handled /\ Pending' = Pending
      /\ (reapAction' = reapAction /\ reapStatus' = reapStatus) \/ ~held' \/ reapAction' # "early" => EndHasReason'
    BY <1>1, <1>3, <1>4, <1>6, QuietIsTrue
<1>8. EndHasReason'
    BY <1>1, <1>3, <1>7
<1>9. RetiredAreHandled'
    BY <1>1, <1>2, <1>3, <1>7 DEF ReportIsTrue, RetiredAreHandled, params
<1>10. CancelKnowsWhy'
    <2>1. Normal' /\ ~gone => ~Cancelling
        BY <1>5 DEF Cancelling
    <2> QED BY <1>1, <1>2, <1>5, <1>7, <2>1 DEF ReportIsTrue, CancelKnowsWhy, NoLoop
<1> QED BY <1>7, <1>8, <1>9, <1>10

\* The handler has discarded the rest of a transfer that has ended.
LEMMA HandleDiscardedIsTrue ==
    ASSUME UsbfsAssumption, UsbfsInv, ReportIsTrue, HandleDiscarded
    PROVE  /\ DataTypeOK' /\ RetiredAreHandled' /\ CancelKnowsWhy' /\ FailureIsKnown' /\ OrderIsKept'
           /\ NormalIsFull' /\ DataFollows' /\ DataComesInOrder' /\ EndHasReason' /\ CompletedIsTrue'
<1>1. /\ holder = "event" /\ loop # NoLoop /\ holder' = "none" /\ loop' = NoLoop /\ event' = Back
      /\ UNCHANGED <<params, caps, submitted, dataVars, kernel, held, retired, reapAction, reapStatus,
                     outcome, asked>>
    BY DEF HandleDiscarded, LoopEnded, privVars, flagVars
<1>2. UNCHANGED <<urb, gone>> /\ event.at = "discard" /\ event'.at # "lock" /\ event'.at # "complete"
    BY <1>1, BackIsNoLock DEF kernel, UsbfsInv, LockIsHeldFor
<1>3. CancelLostDevice => CancelLostDevice'
    BY <1>1, <1>2 DEF CancelLostDevice
<1>4. ~Normal' /\ ~Cancelling
    BY <1>1, <1>2 DEF Normal, ReportIsTrue, CancelKnowsWhy, Cancelling
<1>5. /\ DataTypeOK' /\ FailureIsKnown' /\ OrderIsKept' /\ NormalIsFull' /\ DataFollows'
      /\ DataComesInOrder' /\ CompletedIsTrue' /\ EndHasReason' /\ Num' = Num /\ Handled' = Handled
    BY <1>1, <1>2, <1>3, <1>4, QuietIsTrue
<1>6. RetiredAreHandled'
    BY <1>1, <1>2, <1>5 DEF ReportIsTrue, RetiredAreHandled, params
<1>7. CancelKnowsWhy'
    BY <1>1, <1>4 DEF CancelKnowsWhy, NoLoop
<1> QED BY <1>5, <1>6, <1>7

\* The callback is told what the handler has found.
LEMMA CompleteIsTrue ==
    ASSUME UsbfsAssumption, UsbfsInv, ReportIsTrue, Complete
    PROVE  /\ DataTypeOK' /\ RetiredAreHandled' /\ CancelKnowsWhy' /\ FailureIsKnown' /\ OrderIsKept'
           /\ NormalIsFull' /\ DataFollows' /\ DataComesInOrder' /\ EndHasReason' /\ CompletedIsTrue'
<1>1. /\ event.at = "complete" /\ event' = Back
      /\ UNCHANGED <<params, caps, submitted, dataVars, kernel, held, retired, reapAction, reapStatus,
                     asked, holder, loop>>
    BY DEF Complete, privVars
<1>2. UNCHANGED <<urb, gone>> /\ event'.at # "lock" /\ event'.at # "complete" /\ ~held
    BY <1>1, BackIsNoLock DEF kernel, UsbfsInv, FlightIsKnown
<1>3. outcome' = "completed" => event.status = "completed"
    BY DEF Complete, FinalStatus
<1>4. (CancelLostDevice => CancelLostDevice') /\ ~Normal'
    BY <1>1, <1>2 DEF CancelLostDevice, Normal
<1>5. /\ DataTypeOK' /\ FailureIsKnown' /\ OrderIsKept' /\ NormalIsFull' /\ DataFollows'
      /\ DataComesInOrder' /\ CompletedIsTrue' /\ EndHasReason' /\ Num' = Num /\ Handled' = Handled
    BY <1>1, <1>2, <1>3, <1>4, QuietIsTrue
<1>6. RetiredAreHandled'
    BY <1>1, <1>2, <1>5 DEF ReportIsTrue, RetiredAreHandled, params
<1>7. CancelKnowsWhy'
    BY <1>1, <1>2, <1>4, <1>5 DEF ReportIsTrue, CancelKnowsWhy
<1> QED BY <1>5, <1>6, <1>7

\* POLLERR, and the end of what is in flight after it.
LEMMA DisconnectIsTrue ==
    ASSUME UsbfsAssumption, UsbfsInv, ReportIsTrue, PollError \/ Disconnect \/ UNCHANGED vars
    PROVE  /\ DataTypeOK' /\ RetiredAreHandled' /\ CancelKnowsWhy' /\ FailureIsKnown' /\ OrderIsKept'
           /\ NormalIsFull' /\ DataFollows' /\ DataComesInOrder' /\ EndHasReason' /\ CompletedIsTrue'
<1>1. /\ UNCHANGED <<params, caps, submitted, dataVars, kernel, retired, reapAction, reapStatus,
                     asked, holder, loop, outcome>>
      /\ held' = held \/ ~held'
      /\ \/ event' = event
         \/ event.at # "lock" /\ event'.at # "lock" /\ ~(event'.at = "complete" /\ event'.status = "completed")
    <2>1. event \in Events
        BY BackIsNoLock
    <2>2. CASE UNCHANGED vars
        BY <2>2 DEF vars, privVars, flagVars
    <2>3. CASE PollError
        BY <2>3 DEF PollError, privVars, flagVars, Draining, Polling
    <2>4. CASE Disconnect
        BY <2>1, <2>4 DEF Disconnect, flagVars, Events
    <2> QED BY <2>2, <2>3, <2>4
<1>2. UNCHANGED <<urb, gone>> /\ (held' => held)
    BY <1>1 DEF kernel
<1>3. /\ CancelLostDevice => CancelLostDevice'
      /\ Cancelling => Cancelling'
      /\ Normal' => Normal
    BY <1>1, <1>2 DEF CancelLostDevice, Normal, Cancelling
<1>4. /\ DataTypeOK' /\ FailureIsKnown' /\ OrderIsKept' /\ NormalIsFull' /\ DataFollows'
      /\ DataComesInOrder' /\ CompletedIsTrue' /\ EndHasReason' /\ Num' = Num /\ Handled' = Handled
      /\ Pending' = Pending
    BY <1>1, <1>2, <1>3, QuietIsTrue
<1>5. RetiredAreHandled'
    BY <1>1, <1>2, <1>4 DEF ReportIsTrue, RetiredAreHandled, params
<1>6. CancelKnowsWhy'
    BY <1>1, <1>2, <1>3, <1>4 DEF ReportIsTrue, CancelKnowsWhy
<1> QED BY <1>4, <1>5, <1>6

-----------------------------------------------------------------------------
(* A transfer begins *)

\* Nothing is submitted, and nothing was reported.
Fresh ==
    /\ urb = [i \in 1..MaxUrbs |-> NoUrb] /\ done = <<>> /\ event.at \notin {"lock", "complete"}
    /\ transferred = 0 /\ sent = 0 /\ buffer = [p \in 1..MaxLength |-> 0]
    /\ submitted = 0 /\ retired = 0 /\ reapAction = "normal" /\ reapStatus = "completed" /\ loop = NoLoop
    /\ outcome \in {"none", "waiting"} /\ holder \in {"none", "submit"} /\ (held => holder = "submit")

\* Nothing can be wrong of it.
LEMMA FreshIsTrue == UsbfsAssumption /\ UsbfsInv /\ Fresh => ReportIsTrue
<1> SUFFICES ASSUME UsbfsAssumption, UsbfsInv, Fresh
             PROVE  ReportIsTrue
    OBVIOUS
<1>1. /\ DOMAIN urb = 1..MaxUrbs /\ Num \in 1..MaxUrbs /\ MaxUrbs \in Nat
      /\ \A i \in DOMAIN urb : urb[i].at = "none" /\ urb[i].status = "none" /\ urb[i].actual = 0
    BY NumIsBounded DEF Fresh, NoUrb
<1>2. Handled = {} /\ Waiting = {} /\ Pending = {}
    BY <1>1 DEF Fresh, Handled, Waiting, Pending
<1>3. /\ \A i \in 1..Num : Start(i) \in Nat /\ Size(i) \in Nat /\ i \in DOMAIN urb
      /\ Start(1) = 0 /\ MaxLength \in Nat
    BY <1>1, Layout
<1>4. DataIsWhole /\ CompletedIsTrue /\ EndHasReason
    BY DEF Fresh, DataIsWhole, Reported, CompletedIsTrue, EndHasReason
<1>5. DataTypeOK
    BY <1>1, <1>3 DEF Fresh, DataTypeOK
<1>6. RetiredAreHandled
    <2>1. Cardinality(Handled) = 0
        BY <1>2, FS_EmptySet
    <2> QED BY <2>1 DEF Fresh, RetiredAreHandled
<1>7. CancelKnowsWhy
    BY <1>1 DEF Fresh, CancelKnowsWhy, NoLoop
<1>8. FailureIsKnown /\ OrderIsKept
    BY <1>1 DEF Fresh, FailureIsKnown, OrderIsKept
<1>9. NormalIsFull
    BY <1>2, <1>3 DEF Fresh, NormalIsFull
<1>10. DataFollows
    BY <1>2 DEF Fresh, DataFollows
<1>11. DataComesInOrder
    <2>1. ASSUME NEW i \in 1..Num, \A j \in 1..i-1 : Full(j)
          PROVE  i = 1
        <3>1. i # 1 => 1 \in 1..i-1
            BY <1>1
        <3>2. ~Full(1)
            BY <1>1 DEF Full
        <3> QED BY <2>1, <3>1, <3>2
    <2>2. \A i \in 1..Num : i \in Pending \/ i > submitted => sent <= Start(i)
        BY <1>3 DEF Fresh
    <2>3. \A i \in 1..Num : (\A j \in 1..i-1 : Full(j)) => sent = Start(i)
        BY <1>3, <2>1 DEF Fresh
    <2> QED BY <1>1, <2>2, <2>3 DEF DataComesInOrder
<1> QED BY <1>4, <1>5, <1>6, <1>7, <1>8, <1>9, <1>10, <1>11 DEF ReportIsTrue

LEMMA InitIsTrue ==
    ASSUME UsbfsAssumption, Init
    PROVE  ReportIsTrue
<1>1. Fresh
    BY DEF Init, Fresh, Polling
<1> QED BY <1>1, InitHolds, FreshIsTrue

\* A submission clears what the last one has left.
LEMMA SubmitIsTrue ==
    ASSUME UsbfsAssumption, UsbfsInv, UsbfsInv', NEW k \in Kinds, NEW len \in 0..MaxLength, Submit(k, len)
    PROVE  ReportIsTrue'
<1>1. done = <<>> /\ loop = NoLoop /\ event.at \notin {"lock", "complete"}
    BY DEF Submit, UsbfsInv, LockIsHeldFor, FlightIsKnown, EventsAreInPlace, UrbsOutliveKernel
<1>2. Fresh'
    BY <1>1 DEF Submit, Fresh
<1>3. UsbfsAssumption'
    BY DEF UsbfsAssumption
<1> QED BY <1>2, <1>3, FreshIsTrue, PTL

-----------------------------------------------------------------------------
(* The URBs of a submission *)

\* The kernel takes one URB.
LEMMA SubmitUrbIsTrue ==
    ASSUME UsbfsAssumption, UsbfsInv, UsbfsInv', ReportIsTrue, SubmitUrb
    PROVE  /\ DataTypeOK' /\ RetiredAreHandled' /\ CancelKnowsWhy' /\ FailureIsKnown' /\ OrderIsKept'
           /\ NormalIsFull' /\ DataFollows' /\ DataComesInOrder' /\ EndHasReason' /\ CompletedIsTrue'
<1> DEFINE k == submitted + 1
<1>0. /\ DOMAIN urb = 1..MaxUrbs /\ Num \in 1..MaxUrbs /\ MaxUrbs \in Nat /\ urb \in [1..MaxUrbs -> Urbs]
      /\ submitted \in 0..Num
    BY NumIsBounded
<1>1. /\ holder = "submit" /\ loop = NoLoop /\ submitted < Num /\ submitted' = submitted + 1 /\ ~gone
      /\ urb' = [urb EXCEPT ![k] = [NoUrb EXCEPT !.at = "pending"]]
      /\ disabled' = (submitted > 0 /\ disabled)
      /\ \/ submitted' = Num /\ holder' = "none"
         \/ holder' = "submit"
      /\ UNCHANGED <<kind, length, mode, held, retired, reapAction, reapStatus, transferred, buffer, asked,
                     outcome, loop, event, done, sent, halted, gone>>
    BY DEF SubmitUrb, params, caps, dataVars
<1>2. k \in 1..Num /\ k \in DOMAIN urb
    BY <1>0, <1>1
<1>3. /\ held /\ asked = "no" /\ outcome = "waiting" /\ event.at # "complete"
      /\ reapAction = "normal" /\ reapStatus = "completed"
    BY <1>1 DEF UsbfsInv, LockIsHeldFor, FlightIsKnown, ReportIsTrue, RetiredAreHandled
<1>4. \A i \in DOMAIN urb : i > submitted => urb[i].at = "none" /\ urb[i].status = "none" /\ urb[i].actual = 0
    <2>1. ASSUME NEW i \in DOMAIN urb, i > submitted
          PROVE  urb[i].at = "none"
        BY <1>0, <2>1 DEF UsbfsInv, KernelAgrees
    <2> QED BY <2>1, StatusIsKnown DEF ReportIsTrue, DataTypeOK
<1>5. /\ urb' \in [1..MaxUrbs -> Urbs] /\ DOMAIN urb' = DOMAIN urb
      /\ urb'[k].at = "pending" /\ urb'[k].status = "none" /\ urb'[k].actual = 0
      /\ \A i \in DOMAIN urb \ {k} : urb'[i] = urb[i]
    BY <1>0, <1>1, <1>2 DEF NoUrb, UsbfsInv, UsbfsTypeOK
<1>6. \A i \in DOMAIN urb : /\ urb'[i].status = urb[i].status /\ urb'[i].actual = urb[i].actual
                            /\ \/ urb'[i].at = urb[i].at
                               \/ urb'[i].at \notin {"done", "reaped"} /\ urb[i].at \notin {"done", "reaped"}
    <2>1. urb[k].at = "none" /\ urb[k].status = "none" /\ urb[k].actual = 0
        BY <1>0, <1>2, <1>4
    <2> QED BY <1>5, <2>1
<1>7. \A i \in 1..Num : i \in Pending' \/ i > submitted' => i \in Pending \/ i > submitted
    BY <1>0, <1>1, <1>5 DEF Pending
<1>8. DataTypeOK' /\ DataFollows' /\ DataComesInOrder'
    BY <1>1, <1>5, <1>6, <1>7, SameData
<1>9. /\ Handled' = Handled /\ Num' = Num /\ \A j : Start(j)' = Start(j)
      /\ \A j \in DOMAIN urb : (Full(j)' <=> Full(j))
      /\ \A i \in DOMAIN urb : \A j : (Earlier(j, i)' <=> Earlier(j, i))
      /\ \A i \in DOMAIN urb : (InOrder(i)' <=> InOrder(i))
    BY <1>1, <1>5, <1>6, SameOrder
<1>10. /\ (Normal' <=> Normal) /\ ~CancelLostDevice /\ ~CancelLostDevice' /\ ~Cancelling /\ ~Cancelling'
    BY <1>1, <1>3 DEF Normal, CancelLostDevice, Cancelling
<1>11. RetiredAreHandled'
    <2>1. ASSUME NEW i \in 1..submitted', urb'[i].at = "none"
          PROVE  gone
        <3>1. i # k /\ i \in 1..submitted /\ urb[i].at = "none"
            BY <1>0, <1>1, <1>5, <2>1
        <3> QED BY <3>1 DEF ReportIsTrue, RetiredAreHandled
    <2>2. retired = Cardinality(Handled) + 0
        BY <1>1, <1>3 DEF ReportIsTrue, RetiredAreHandled
    <2>3. submitted' = Num => Num - submitted' = 0
        BY <1>0
    <2> QED BY <1>1, <1>3, <1>9, <2>1, <2>2, <2>3 DEF RetiredAreHandled
<1>12. CancelKnowsWhy'
    <2>1. urb'[Num].status = "none"
        BY <1>0, <1>1, <1>4, <1>6
    <2> QED BY <1>1, <1>9, <2>1 DEF CancelKnowsWhy, NoLoop
<1>13. FailureIsKnown'
    <2>1. ASSUME submitted > 0, disabled
          PROVE  \E i \in 1..submitted' : urb'[i].status \in Failures \cup {"overflow"}
        <3>1. PICK i \in 1..submitted : urb[i].status \in Failures \cup {"overflow"}
            BY <1>1, <1>3, <2>1 DEF ReportIsTrue, FailureIsKnown
        <3> QED BY <1>0, <1>1, <1>6, <3>1
    <2>2. ASSUME NEW i \in DOMAIN urb, Normal, kind = "bulk", urb[i].status = "killed"
          PROVE  \E j \in DOMAIN urb : Earlier(j, i)' /\ urb'[j].status \in Failures
        BY <1>6, <1>9, <1>10, <2>2 DEF ReportIsTrue, FailureIsKnown
    <2> QED BY <1>1, <1>5, <1>6, <1>10, <2>1, <2>2 DEF FailureIsKnown
<1>14. OrderIsKept'
    BY <1>1, <1>5, <1>6, <1>9, <1>10 DEF ReportIsTrue, OrderIsKept
<1>15. NormalIsFull'
    <2>1. \A j \in Handled : j \in DOMAIN urb
        BY DEF Handled
    <2> QED BY <1>1, <1>6, <1>9, <1>10, <2>1 DEF ReportIsTrue, NormalIsFull
<1>16. EndHasReason' /\ CompletedIsTrue'
    BY <1>1, <1>3 DEF EndHasReason, CompletedIsTrue
<1> QED BY <1>8, <1>11, <1>12, <1>13, <1>14, <1>15, <1>16

\* The kernel refuses one, and the transfer ends early or fails.
LEMMA SubmitUrbFailsIsTrue ==
    ASSUME UsbfsAssumption, UsbfsInv, ReportIsTrue, NEW early \in BOOLEAN, SubmitUrbFails(early)
    PROVE  /\ DataTypeOK' /\ RetiredAreHandled' /\ CancelKnowsWhy' /\ FailureIsKnown' /\ OrderIsKept'
           /\ NormalIsFull' /\ DataFollows' /\ DataComesInOrder' /\ EndHasReason' /\ CompletedIsTrue'
<1>0. /\ DOMAIN urb = 1..MaxUrbs /\ Num \in 1..MaxUrbs /\ MaxUrbs \in Nat /\ urb \in [1..MaxUrbs -> Urbs]
      /\ submitted \in 0..Num
    BY NumIsBounded
<1>1. /\ holder = "submit" /\ loop = NoLoop /\ submitted \in 1..Num-1
      /\ early = (~gone /\ disabled /\ kind = "bulk" /\ mode = "continue")
      /\ reapAction' = (IF early THEN "early" ELSE "failed") /\ retired' = retired + Num - submitted
      /\ \/ early /\ holder' = "none" /\ loop' = loop
         \/ ~early /\ holder' = holder /\ loop' = [at |-> submitted, first |-> 1, last |-> submitted, ret |-> "ok"]
      /\ UNCHANGED <<params, caps, submitted, dataVars, kernel, held, reapStatus, event, outcome, asked>>
    BY DEF SubmitUrbFails
<1>2. UNCHANGED <<urb, gone>> /\ Num' = Num /\ UNCHANGED <<kind, length, mode>>
    BY <1>1 DEF kernel, params, caps, Num
<1>3. /\ held /\ asked = "no" /\ event.at # "complete" /\ reapAction = "normal" /\ ~Normal' /\ ~Cancelling
      /\ retired = Cardinality(Handled) + 0 /\ outcome = "waiting" /\ Cardinality(Handled) + 0 = retired
    <2>1. held /\ asked = "no" /\ event.at # "complete" /\ outcome = "waiting"
        BY <1>1 DEF UsbfsInv, LockIsHeldFor, FlightIsKnown
    <2> QED BY <1>1, <2>1 DEF ReportIsTrue, RetiredAreHandled, Normal, Cancelling
<1>4. CancelLostDevice => CancelLostDevice'
    BY <1>1, <1>2 DEF CancelLostDevice
<1>5. /\ DataTypeOK' /\ FailureIsKnown' /\ OrderIsKept' /\ NormalIsFull' /\ DataFollows'
      /\ DataComesInOrder' /\ CompletedIsTrue' /\ Handled' = Handled
      /\ IsShort => IsShort'
      /\ FailedBeforeContinuation => FailedBeforeContinuation'
      /\ reapAction' # "early" => EndHasReason'
    BY <1>1, <1>3, <1>4, QuietIsTrue
<1>6. RetiredAreHandled'
    <2>1. Cardinality(Handled) \in Nat
        <3>1. Handled \in SUBSET (1..MaxUrbs)
            BY <1>0 DEF Handled
        <3> QED BY <3>1, UrbsCount
    <2>2. retired' = Cardinality(Handled') + (Num - submitted)
        BY <1>0, <1>1, <1>3, <1>5, <2>1
    <2>3. loop' # NoLoop \/ holder' # "submit"
        BY <1>1 DEF NoLoop
    <2>4. holder' = "submit" => reapAction' = "failed"
        BY <1>1
    <2>5. (\A i \in 1..submitted : urb[i].at = "none" => gone) /\ (kind # "bulk" => reapStatus = "completed")
        BY DEF ReportIsTrue, RetiredAreHandled
    <2>6. reapAction' # "normal"
        BY <1>1
    <2> QED BY <1>1, <1>2, <1>3, <2>2, <2>3, <2>4, <2>5, <2>6 DEF RetiredAreHandled, params
<1>7. CancelKnowsWhy'
    BY <1>1, <1>3 DEF CancelKnowsWhy, NoLoop
<1>8. EndHasReason'
    <2>1. CASE early
        <3>1. /\ ~gone /\ disabled /\ kind = "bulk" /\ submitted > 0
            <4>1. submitted > 0
                BY <1>0, <1>1
            <4>2. ~gone /\ disabled /\ kind = "bulk"
                BY <1>1, <2>1, Zenon
            <4> QED BY <4>1, <4>2
        <3>2. PICK i \in 1..submitted : urb[i].status \in Failures \cup {"overflow"}
            BY <1>3, <3>1 DEF ReportIsTrue, FailureIsKnown
        <3>3. i \in DOMAIN urb /\ i \in 1..Num /\ i # Num
            BY <1>0, <1>1
        <3>4. urb[i].status # "overflow"
            BY <3>3 DEF UsbfsInv, OverflowIsLast
        <3>5. CASE urb[i].status = "short"
            <4>1. IsShort
                BY <3>3, <3>5 DEF IsShort, ReportIsTrue, DataTypeOK
            <4> QED BY <1>1, <1>3, <1>5, <4>1 DEF EndHasReason
        <3>6. CASE urb[i].status \in {"stall", "bus"}
            <4>1. FailedBeforeContinuation
                BY <1>0, <1>1, <3>6 DEF FailedBeforeContinuation, FatalStatus
            <4> QED BY <1>1, <1>3, <1>5, <4>1 DEF EndHasReason
        <3> QED BY <3>2, <3>4, <3>5, <3>6 DEF Failures
    <2>2. CASE ~early
        BY <1>1, <1>5, <2>2
    <2> QED BY <2>1, <2>2
<1> QED BY <1>5, <1>6, <1>7, <1>8

-----------------------------------------------------------------------------
(* A URB is reaped *)

\* What is reaped is the oldest of what was completed, and is the next to be handled.
LEMMA ReapIsTrue ==
    ASSUME UsbfsAssumption, UsbfsInv, UsbfsInv', ReportIsTrue, Reap
    PROVE  /\ DataTypeOK' /\ RetiredAreHandled' /\ CancelKnowsWhy' /\ FailureIsKnown' /\ OrderIsKept'
           /\ NormalIsFull' /\ DataFollows' /\ DataComesInOrder' /\ EndHasReason' /\ CompletedIsTrue'
<1> DEFINE h == Head(done)
<1>0. /\ DOMAIN urb = 1..MaxUrbs /\ Num \in 1..MaxUrbs /\ MaxUrbs \in Nat /\ urb \in [1..MaxUrbs -> Urbs]
      /\ submitted \in 0..Num /\ event \in Events
    BY NumIsBounded, BackIsNoLock
<1>1. /\ event.at \in {"poll", "drain"} /\ done # <<>> /\ done' = Tail(done)
      /\ event' = [event EXCEPT !.urb = h, !.back = event.at, !.at = "lock"]
      /\ urb' = [urb EXCEPT ![h].at = "reaped"]
      /\ UNCHANGED <<kind, length, mode, held, submitted, retired, reapAction, reapStatus, transferred, buffer,
                     asked, outcome, holder, loop, sent, disabled, halted, gone>>
    BY DEF Reap, params, caps, privVars, dataVars, flagVars
<1>2. /\ Len(done) \in Nat \ {0} /\ h = done[1] /\ h \in 1..MaxUrbs
      /\ DOMAIN done = 1..Len(done) /\ DOMAIN done' = 1..Len(done)-1
      /\ \A a \in 1..Len(done)-1 : done'[a] = done[a + 1]
    <2>1. done \in Seq(1..MaxUrbs)
        BY DoneOnce
    <2> HIDE DEF h
    <2>2. /\ Len(done) \in Nat \ {0} /\ DOMAIN done = 1..Len(done)
          /\ Head(done) = done[1] /\ Head(done) \in 1..MaxUrbs
          /\ Tail(done) \in Seq(1..MaxUrbs) /\ Len(Tail(done)) = Len(done) - 1
          /\ \A a \in 1..Len(done)-1 : Tail(done)[a] = done[a + 1]
        BY <1>1, <2>1, FirstOf, Zenon
    <2>3. DOMAIN done' = 1..Len(done')
        BY <1>1, <2>2
    <2> QED BY <1>1, <2>2, <2>3 DEF h
<1>3. urb[h].at = "done" /\ held
    <2>1. 1 \in 1..Len(done)
        BY <1>2
    <2>2. urb[h].at = "done"
        BY <1>2, <2>1, DoneOnce
    <2>3. h \in InKernel
        BY <1>0, <1>2, <2>2 DEF InKernel
    <2> QED BY <2>2, <2>3 DEF UsbfsInv, UrbsOutliveKernel
<1>4. event'.at = "lock" /\ event'.urb = h
    BY <1>0, <1>1 DEF Events
<1> HIDE DEF h
<1>5. /\ DOMAIN urb' = DOMAIN urb /\ urb' \in [1..MaxUrbs -> Urbs]
      /\ urb'[h].at = "reaped" /\ urb'[h].status = urb[h].status /\ urb'[h].actual = urb[h].actual
      /\ \A j \in DOMAIN urb \ {h} : urb'[j] = urb[j]
    <2>1. urb' \in [1..MaxUrbs -> Urbs]
        BY DEF UsbfsInv, UsbfsTypeOK
    <2>2. urb[h] \in Urbs /\ urb' = [urb EXCEPT ![h] = [urb[h] EXCEPT !.at = "reaped"]]
        BY <1>0, <1>1, <1>2
    <2> DEFINE u == [urb[h] EXCEPT !.at = "reaped"]
    <2>3. u.at = "reaped" /\ u.status = urb[h].status /\ u.actual = urb[h].actual
        BY <2>2 DEF Urbs
    <2> HIDE DEF u
    <2>4. urb' = [urb EXCEPT ![h] = u]
        BY <2>2 DEF u
    <2> QED BY <1>0, <1>2, <2>1, <2>3, <2>4
<1>6. /\ h \in DOMAIN urb
      /\ \A j \in DOMAIN urb : urb'[j].status = urb[j].status /\ urb'[j].actual = urb[j].actual
    BY <1>0, <1>2, <1>5
<1>7. Handled' = Handled /\ Pending' = Pending /\ Waiting' = Waiting
    <2>1. Handled' = Handled
        BY <1>1, <1>3, <1>4, <1>5 DEF Handled
    <2>2. Pending' = Pending
        BY <1>3, <1>5 DEF Pending
    <2>3. Waiting' = Waiting
        BY <1>1, <1>3, <1>4, <1>5, <1>6 DEF Waiting
    <2> QED BY <2>1, <2>2, <2>3
<1>8. /\ Num' = Num /\ \A j : Start(j)' = Start(j) /\ Size(j)' = Size(j) /\ First(j)' = First(j)
      /\ (Normal' <=> Normal) /\ (CancelLostDevice' <=> CancelLostDevice) /\ (Cancelling' <=> Cancelling)
    BY <1>1 DEF Num, Start, Size, First, Normal, CancelLostDevice, Cancelling
<1>9. \A j \in DOMAIN urb : (Full(j)' <=> Full(j))
    BY <1>6, <1>8 DEF Full
\* The first to be reaped comes before the others that are completed.
<1>10. ASSUME NEW i \in DOMAIN urb, NEW j, Earlier(j, i)
       PROVE  Earlier(j, i)'
    <2>1. CASE j \in Handled
        BY <1>7, <2>1 DEF Earlier
    <2>2. CASE \E b \in DOMAIN done : done[b] = i /\ \E a \in 1..b-1 : done[a] = j
        <3>1. PICK b \in 1..Len(done) : done[b] = i /\ \E a \in 1..b-1 : done[a] = j
            BY <1>2, <2>2
        <3>2. PICK a \in 1..b-1 : done[a] = j
            BY <3>1
        <3>3. /\ b \in Nat /\ a \in Nat /\ a < b /\ b - 1 \in 1..Len(done)-1 /\ (b - 1) + 1 = b
              /\ a # 1 => a - 1 \in 1..(b - 1)-1 /\ a - 1 \in 1..Len(done)-1 /\ (a - 1) + 1 = a
            BY <1>2, <3>1, <3>2
        <3>4. done'[b - 1] = i /\ b - 1 \in DOMAIN done'
            BY <1>2, <3>1, <3>3
        <3>5. CASE a = 1
            <4>1. j = h /\ i # h
                <5>1. done[b] = i /\ done[1] = h /\ 1 \in 1..Len(done) /\ b # 1
                    BY <1>2, <3>1, <3>3, <3>5
                <5>2. done[b] # done[1]
                    BY <3>1, <5>1, DoneOnce
                <5> QED BY <1>2, <3>2, <3>5, <5>1, <5>2
            <4>2. urb'[i].at = "done"
                BY <1>5, <3>1, <4>1, DoneOnce
            <4> QED BY <1>4, <4>1, <4>2 DEF Earlier
        <3>6. CASE a # 1
            <4>1. done'[a - 1] = j
                BY <1>2, <3>2, <3>3, <3>6
            <4> QED BY <3>3, <3>4, <3>6, <4>1 DEF Earlier
        <3> QED BY <3>5, <3>6
    <2> QED BY <1>1, <1>10, <2>1, <2>2 DEF Earlier
<1>11. \A i \in DOMAIN urb : InOrder(i) => InOrder(i)'
    BY <1>10 DEF InOrder
<1>12. event.at # "complete" /\ outcome = "waiting"
    BY <1>1, <1>3 DEF UsbfsInv, FlightIsKnown
<1>13. DataTypeOK'
    BY <1>1, <1>5, <1>6, <1>8 DEF ReportIsTrue, DataTypeOK
<1>14. RetiredAreHandled'
    <2>1. \A i \in 1..submitted : urb'[i].at = "none" => urb[i].at = "none"
        BY <1>0, <1>5
    <2> QED BY <1>1, <1>7, <1>8, <2>1 DEF ReportIsTrue, RetiredAreHandled
<1>15. CancelKnowsWhy'
    BY <1>0, <1>1, <1>6, <1>7, <1>8 DEF ReportIsTrue, CancelKnowsWhy
<1>16. FailureIsKnown'
    <2>1. \A i \in 1..submitted : urb'[i].status = urb[i].status
        BY <1>0, <1>6
    <2> QED BY <1>1, <1>5, <1>6, <1>8, <1>10, <2>1 DEF ReportIsTrue, FailureIsKnown
<1>17. OrderIsKept'
    BY <1>1, <1>5, <1>6, <1>8, <1>11 DEF ReportIsTrue, OrderIsKept
<1>18. NormalIsFull'
    <2>1. \A j \in Handled : j \in DOMAIN urb
        BY DEF Handled
    <2> QED BY <1>1, <1>6, <1>7, <1>8, <1>9, <2>1 DEF ReportIsTrue, NormalIsFull
<1>19. DataFollows' /\ DataComesInOrder'
    <2>1. \A i \in 1..Num : (\A j \in 1..i-1 : Full(j)') <=> (\A j \in 1..i-1 : Full(j))
        BY <1>0, <1>9
    <2>2. \A i \in Waiting : i \in 1..Num /\ i \in DOMAIN urb
        BY <1>0, DataIsSubmitted
    <2>3. DataFollows'
        BY <1>1, <1>6, <1>7, <1>8, <2>1, <2>2 DEF ReportIsTrue, DataFollows
    <2>4. \A j \in 1..Num : urb'[j].actual = urb[j].actual
        BY <1>0, <1>6
    <2>5. DataComesInOrder'
        <3> SUFFICES ASSUME kind = "bulk", ~gone
                     PROVE  DataComesInOrder'
            BY <1>1 DEF DataComesInOrder
        <3>1. \A i \in 1..Num : i \in Pending \/ i > submitted => sent <= Start(i)
            BY DEF ReportIsTrue, DataComesInOrder
        <3>2. ASSUME NEW i \in 1..Num, \A j \in 1..i-1 : Full(j)', \A j \in i..Num : urb'[j].actual = 0
              PROVE  sent = Start(i)
            <4>1. \A j \in i..Num : urb[j].actual = 0
                <5>1. \A j \in i..Num : j \in 1..Num
                    BY <1>0
                <5> QED BY <2>4, <3>2, <5>1
            <4> QED BY <2>1, <3>2, <4>1 DEF ReportIsTrue, DataComesInOrder
        <3>3. \A i \in DOMAIN urb : urb[i].status = "stall" =>
                halted /\ \A j \in DOMAIN urb : i < j => urb[j].actual = 0
            BY DEF ReportIsTrue, DataComesInOrder
        <3> QED BY <1>1, <1>5, <1>6, <1>7, <1>8, <3>1, <3>2, <3>3 DEF DataComesInOrder
    <2> QED BY <2>3, <2>5
<1>20. EndHasReason' /\ CompletedIsTrue'
    <2>1. IsShort => IsShort'
        BY <1>0, <1>6, <1>8 DEF IsShort
    <2>2. FailedBeforeContinuation => FailedBeforeContinuation'
        <3>1. \A i \in 1..submitted : urb'[i].status = urb[i].status
            BY <1>0, <1>6
        <3> QED BY <1>1, <1>8, <3>1 DEF FailedBeforeContinuation
    <2>3. \A i \in 1..submitted : urb[i].at = "none" => urb'[i].at = "none"
        BY <1>0, <1>3, <1>5
    <2> QED BY <1>1, <1>4, <1>8, <1>12, <2>1, <2>2, <2>3 DEF ReportIsTrue, EndHasReason, CompletedIsTrue
<1> QED BY <1>13, <1>14, <1>15, <1>16, <1>17, <1>18, <1>19, <1>20

-----------------------------------------------------------------------------
(* The device is unplugged *)

\* A kernel that can be drained completes the rest in the order of submission.
LEMMA UnplugAppends ==
    ASSUME UsbfsAssumption, UsbfsInv, Unplug, drains, NEW i \in InKernel, urb[i].at # "done"
    PROVE  /\ DOMAIN done \subseteq DOMAIN done' /\ \A a \in DOMAIN done : done'[a] = done[a]
           /\ \E b \in DOMAIN done' :
                /\ done'[b] = i /\ \A a \in DOMAIN done : a \in 1..b-1
                /\ \A j \in InKernel : urb[j].at # "done" /\ j < i => \E a \in 1..b-1 : done'[a] = j
<1> DEFINE ended == {j \in InKernel : urb[j].at # "done"}
           c == Cardinality(ended)
<1>1. PICK order \in [1..c -> ended] :
         /\ \A a, b \in DOMAIN order : a < b => order[a] < order[b]
         /\ \A j \in ended : \E a \in DOMAIN order : order[a] = j
         /\ done' = done \o order
    BY DEF Unplug
<1>2. ended \subseteq 1..MaxUrbs /\ MaxUrbs \in Nat
    BY NumIsBounded
<1>3. c \in Nat
    <2>1. ended \in SUBSET (1..MaxUrbs)
        BY <1>2
    <2> HIDE DEF ended
    <2> QED BY <2>1, UrbsCount
<1>4. done \in Seq(1..MaxUrbs) /\ Len(done) \in Nat /\ DOMAIN done = 1..Len(done)
    BY DoneOnce
<1>5. order \in [1..c -> 1..MaxUrbs] /\ DOMAIN order = 1..c
    BY <1>1, <1>2
<1> HIDE DEF c
<1>6. order \in Seq(1..MaxUrbs) /\ Len(order) = c
    BY <1>3, <1>5, IsSequence, Zenon
<1>7. /\ DOMAIN done' = 1 .. Len(done) + c
      /\ \A a \in 1..Len(done) : done'[a] = done[a]
      /\ \A a \in 1..c : done'[Len(done) + a] = order[a]
    <2> HIDE DEF ended
    <2>1. DOMAIN (done \o order) = 1 .. Len(done) + c
        BY <1>3, <1>4, <1>6
    <2>2. \A a \in 1..Len(done) : (done \o order)[a] = done[a]
        BY <1>3, <1>4, <1>6
    <2>3. \A a \in 1..c : (done \o order)[Len(done) + a] = order[a]
        BY <1>3, <1>4, <1>6
    <2> QED BY <1>1, <2>1, <2>2, <2>3
<1>8. PICK d \in 1..c : order[d] = i
    BY <1>1, <1>5
<1> DEFINE b == Len(done) + d
<1>9. b \in DOMAIN done' /\ done'[b] = i /\ \A a \in DOMAIN done : a \in 1..b-1
    BY <1>3, <1>4, <1>7, <1>8
<1>10. ASSUME NEW j \in ended, j < i
       PROVE  \E a \in 1..b-1 : done'[a] = j
    <2>1. PICK e \in 1..c : order[e] = j
        BY <1>1, <1>5
    <2>2. e < d
        <3>1. d < e => order[d] < order[e]
            BY <1>1, <1>5
        <3>2. i \in Nat /\ j \in Nat
            BY <1>2
        <3> QED BY <1>3, <1>8, <1>10, <2>1, <3>1, <3>2
    <2>3. Len(done) + e \in 1..b-1
        BY <1>3, <1>4, <2>2
    <2> QED BY <1>7, <2>1, <2>3
<1>11. DOMAIN done \subseteq DOMAIN done'
    BY <1>3, <1>4, <1>7
<1> QED BY <1>4, <1>7, <1>9, <1>10, <1>11

\* The device is gone: its URBs have no data, and come after those completed.
LEMMA UnplugIsTrue ==
    ASSUME UsbfsAssumption, UsbfsInv, UsbfsInv', ReportIsTrue, Unplug
    PROVE  /\ DataTypeOK' /\ RetiredAreHandled' /\ CancelKnowsWhy' /\ FailureIsKnown' /\ OrderIsKept'
           /\ NormalIsFull' /\ DataFollows' /\ DataComesInOrder' /\ EndHasReason' /\ CompletedIsTrue'
<1> DEFINE Ended(i) == i \in InKernel /\ urb[i].at # "done"
<1>0. /\ DOMAIN urb = 1..MaxUrbs /\ Num \in 1..MaxUrbs /\ MaxUrbs \in Nat /\ urb \in [1..MaxUrbs -> Urbs]
      /\ submitted \in 0..Num
    BY NumIsBounded
<1>1. /\ ~gone /\ gone' /\ drains \in BOOLEAN
      /\ UNCHANGED <<kind, length, mode, held, submitted, retired, reapAction, reapStatus, transferred, buffer,
                     asked, outcome, holder, loop, event, sent, disabled, halted>>
    BY DEF Unplug, params, caps, privVars, dataVars, flagVars, UsbfsInv, UsbfsTypeOK
<1>2. /\ DOMAIN urb' = DOMAIN urb
      /\ \A i \in DOMAIN urb : i \notin InKernel => urb'[i] = urb[i]
      /\ \A i \in DOMAIN urb : drains /\ urb[i].at = "done" => urb'[i] = urb[i]
      /\ \A i \in DOMAIN urb : drains /\ Ended(i) =>
            urb'[i].at = "done" /\ urb'[i].status = "gone" /\ urb'[i].actual = 0
      /\ \A i \in DOMAIN urb : ~drains /\ i \in InKernel =>
            urb'[i].at = "none" /\ urb'[i].status = "none" /\ urb'[i].actual = 0
    <2>1. CASE drains
        BY <1>0, <2>1 DEF Unplug
    <2>2. CASE ~drains
        BY <1>0, <2>2 DEF Unplug, NoUrb
    <2> QED BY <2>1, <2>2
<1>3. \A i \in DOMAIN urb : urb[i].status # "none" => urb[i].at \in {"done", "reaped"}
    BY StatusIsKnown
<1>4. \A i \in DOMAIN urb : i \in InKernel <=> urb[i].at \in {"pending", "doomed", "done"}
    BY DEF InKernel
\* What is known of a URB is kept, or the URB is lost.
<1>5. \A i \in DOMAIN urb : urb[i].status # "none" =>
         \/ urb'[i] = urb[i]
         \/ ~drains /\ urb'[i].at = "none" /\ urb[i].at = "done"
    BY <1>2, <1>3, <1>4
<1>6. \A i \in DOMAIN urb : urb'[i].status # "none" =>
         \/ urb'[i] = urb[i] /\ urb[i].status # "none" /\ (drains \/ urb[i].at = "reaped")
         \/ drains /\ Ended(i)
    BY <1>2, <1>3, <1>4
<1>7. Handled' = Handled
    BY <1>1, <1>2, <1>4 DEF Handled
<1>8. /\ Num' = Num /\ \A j : Start(j)' = Start(j) /\ Size(j)' = Size(j)
      /\ (Normal' <=> Normal) /\ ~CancelLostDevice /\ (Cancelling => Cancelling')
    BY <1>1 DEF Num, Start, Size, Normal, CancelLostDevice, Cancelling
<1>9. ASSUME NEW i \in DOMAIN urb, urb'[i] = urb[i], urb[i].status # "none", drains \/ urb[i].at = "reaped",
             NEW j, Earlier(j, i)
      PROVE  Earlier(j, i)'
    <2>1. CASE j \in Handled
        BY <1>7, <2>1 DEF Earlier
    <2>2. CASE event.at = "lock" /\ event.urb = j /\ urb[i].at = "done"
        BY <1>1, <1>9, <2>2 DEF Earlier
    <2>3. CASE \E b \in DOMAIN done : done[b] = i /\ \E a \in 1..b-1 : done[a] = j
        <3>1. PICK b \in 1..Len(done) : done[b] = i /\ \E a \in 1..b-1 : done[a] = j
            BY <2>3, DoneOnce
        <3>2. PICK a \in 1..b-1 : done[a] = j
            BY <3>1
        <3>3. a \in DOMAIN done /\ b \in DOMAIN done
            BY <3>1, <3>2, DoneOnce
        <3>4. drains
            BY <1>9, <3>1, DoneOnce
        <3>5. CASE \E l \in InKernel : urb[l].at # "done"
            BY <3>1, <3>2, <3>3, <3>4, <3>5, UnplugAppends DEF Earlier
        <3>6. CASE \A l \in InKernel : urb[l].at = "done"
            <4>1. done' = done
                <5>1. {l \in InKernel : urb[l].at # "done"} = {}
                    BY <3>6
                <5>2. Cardinality({l \in InKernel : urb[l].at # "done"}) = 0
                    BY <5>1, FS_EmptySet
                <5>3. PICK order \in [1..0 -> {}] : done' = done \o order
                    BY <3>4, <5>1, <5>2 DEF Unplug
                <5>4. order \in Seq({}) /\ Len(order) = 0
                    BY <5>3, IsSequence
                <5>5. order = <<>> /\ done \in Seq(1..MaxUrbs)
                    BY <5>4, DoneOnce
                <5> QED BY <5>3, <5>5
            <4> QED BY <3>1, <3>2, <3>3, <4>1 DEF Earlier
        <3> QED BY <3>5, <3>6
    <2> QED BY <1>9, <2>1, <2>2, <2>3 DEF Earlier
<1>10. ASSUME NEW i \in DOMAIN urb, urb'[i] = urb[i], urb[i].status # "none", drains \/ urb[i].at = "reaped",
              InOrder(i)
       PROVE  InOrder(i)'
    BY <1>9, <1>10 DEF InOrder
\* What the kernel completes now comes after the rest.
<1>11. ASSUME NEW i \in DOMAIN urb, drains, Ended(i)
       PROVE  InOrder(i)'
    <2>1. SUFFICES ASSUME NEW j \in 1..i-1
                   PROVE  Earlier(j, i)'
        BY DEF InOrder
    <2>2. PICK b \in DOMAIN done' :
                /\ done'[b] = i /\ \A a \in DOMAIN done : a \in 1..b-1
                /\ \A k \in InKernel : urb[k].at # "done" /\ k < i => \E a \in 1..b-1 : done'[a] = k
        BY <1>11, UnplugAppends
    <2>3. i <= submitted
        BY <1>4, <1>11 DEF UsbfsInv, KernelAgrees
    <2>4. j \in DOMAIN urb /\ j < i /\ j \in 1..submitted
        BY <1>0, <2>3
    <2>5. urb[j].at # "none"
        BY <1>1, <2>4 DEF ReportIsTrue, RetiredAreHandled
    <2>6. CASE urb[j].at = "reaped"
        <3>1. CASE j \in Handled
            BY <1>7, <3>1 DEF Earlier
        <3>2. CASE j \notin Handled
            <4>1. event.at = "lock" /\ event.urb = j
                BY <2>4, <2>6, <3>2 DEF Handled
            <4> QED BY <1>1, <1>2, <1>11, <4>1 DEF Earlier
        <3> QED BY <3>1, <3>2
    <2>7. CASE urb[j].at = "done"
        <3>1. PICK a \in DOMAIN done : done[a] = j
            BY <1>0, <2>4, <2>7, DoneOnce
        <3>2. done'[a] = j
            BY <1>11, <3>1, UnplugAppends
        <3> QED BY <2>2, <3>2 DEF Earlier
    <2>8. CASE Ended(j)
        BY <2>2, <2>4, <2>8 DEF Earlier
    <2>9. urb[j].at \in {"none", "pending", "doomed", "done", "reaped"}
        BY <1>0, <2>4 DEF Urbs
    <2> QED BY <1>4, <2>4, <2>5, <2>6, <2>7, <2>8, <2>9
<1>12. DataTypeOK'
    <2>1. ASSUME NEW i \in DOMAIN urb
          PROVE  /\ urb'[i].status \in {"none", "gone"} => urb'[i].actual = 0
                 /\ i <= Num => urb'[i].actual <= Size(i)
                 /\ urb'[i].status = "short" => urb'[i].actual < Size(i)
        <3>1. \/ urb'[i] = urb[i]
              \/ urb'[i].status \in {"none", "gone"} /\ urb'[i].actual = 0
            BY <1>1, <1>2, <1>4
        <3>2. i <= Num => Size(i) \in Nat
            BY <1>0, Layout
        <3> QED BY <3>1, <3>2 DEF ReportIsTrue, DataTypeOK
    <2> QED BY <1>1, <1>2, <1>8, <2>1 DEF ReportIsTrue, DataTypeOK
<1>13. RetiredAreHandled'
    BY <1>1, <1>7, <1>8 DEF ReportIsTrue, RetiredAreHandled
<1>14. CancelKnowsWhy'
    BY <1>1, <1>8 DEF ReportIsTrue, CancelKnowsWhy
<1>15. FailureIsKnown'
    <2>1. ASSUME NEW i \in DOMAIN urb, Normal, kind = "bulk", urb'[i].status = "killed", ~Cancelling
          PROVE  \E j \in DOMAIN urb : Earlier(j, i)' /\ urb'[j].status \in Failures
        <3>1. urb'[i] = urb[i] /\ urb[i].status = "killed" /\ (drains \/ urb[i].at = "reaped")
            BY <1>2, <1>6, <2>1
        <3>2. PICK j \in DOMAIN urb : Earlier(j, i) /\ urb[j].status \in Failures
            BY <1>8, <2>1, <3>1 DEF ReportIsTrue, FailureIsKnown
        <3>3. Earlier(j, i)'
            BY <1>9, <3>1, <3>2
        <3>4. urb'[j] = urb[j]
            <4>1. urb[j].status # "none"
                BY <3>2 DEF Failures
            <4>2. CASE drains
                BY <1>5, <4>1, <4>2
            <4>3. CASE ~drains
                <5>1. urb[i].at = "reaped"
                    BY <3>1, <4>3
                <5>2. j \in Handled
                    <6>1. \A b \in DOMAIN done : done[b] # i
                        BY <5>1, DoneOnce
                    <6> QED BY <3>2, <5>1, <6>1 DEF Earlier
                <5> QED BY <1>2, <1>4, <5>2 DEF Handled
            <4> QED BY <4>2, <4>3
        <3> QED BY <3>2, <3>3, <3>4
    <2> QED BY <1>1, <1>2, <1>8, <2>1 DEF FailureIsKnown
<1>16. OrderIsKept'
    <2>1. ASSUME kind = "bulk", NEW i \in DOMAIN urb, urb'[i].actual > 0
          PROVE  InOrder(i)'
        <3>1. urb'[i].status # "none" /\ ~(drains /\ Ended(i))
            BY <1>2, <1>12, <2>1 DEF DataTypeOK
        <3>2. urb'[i] = urb[i] /\ urb[i].status # "none" /\ (drains \/ urb[i].at = "reaped")
            BY <1>6, <3>1
        <3>3. InOrder(i)
            BY <2>1, <3>2 DEF ReportIsTrue, OrderIsKept
        <3> QED BY <1>10, <3>2, <3>3
    <2>2. ASSUME Normal, kind = "iso", ~Cancelling, NEW i \in DOMAIN urb, urb'[i].status # "none"
          PROVE  InOrder(i)'
        <3>1. CASE urb'[i] = urb[i] /\ urb[i].status # "none" /\ (drains \/ urb[i].at = "reaped")
            <4>1. InOrder(i)
                BY <1>8, <2>2, <3>1 DEF ReportIsTrue, OrderIsKept
            <4> QED BY <1>10, <3>1, <4>1
        <3>2. CASE drains /\ Ended(i)
            BY <1>11, <3>2
        <3> QED BY <1>6, <2>2, <3>1, <3>2
    <2> QED BY <1>1, <1>2, <1>8, <2>1, <2>2 DEF OrderIsKept
<1>17. NormalIsFull'
    <2>1. \A j \in Handled : j \in DOMAIN urb /\ urb'[j] = urb[j]
        BY <1>2, <1>4 DEF Handled
    <2>2. \A j \in Handled : (Full(j)' <=> Full(j))
        BY <1>8, <2>1 DEF Full
    <2> QED BY <1>1, <1>7, <1>8, <2>1, <2>2 DEF ReportIsTrue, NormalIsFull
<1>18. ASSUME ~held
       PROVE  urb' = urb
    <2>1. InKernel = {}
        BY <1>18 DEF UsbfsInv, UrbsOutliveKernel
    <2>2. CASE drains
        BY <1>0, <2>1, <2>2 DEF Unplug
    <2>3. CASE ~drains
        BY <1>0, <2>1, <2>3 DEF Unplug
    <2> QED BY <2>2, <2>3
<1>19. ASSUME ~held, IsCompleted
       PROVE  IsCompleted'
    BY <1>1, <1>8, <1>18, <1>19 DEF IsCompleted, IsShort, FailedBeforeContinuation
<1>20. EndHasReason'
    <2>1. ASSUME held, kind = "bulk", reapAction = "early", reapStatus = "completed"
          PROVE  \/ IsShort' \/ FailedBeforeContinuation'
                 \/ \E i \in 1..submitted : urb'[i].at = "none"
        <3>1. IsShort \/ FailedBeforeContinuation
            BY <1>1, <1>8, <2>1 DEF ReportIsTrue, EndHasReason, RetiredAreHandled
        <3>2. CASE IsShort
            <4>1. PICK i \in 1..Num : urb[i].status \in {"ok", "short"} /\ urb[i].actual < Size(i)
                BY <3>2 DEF IsShort
            <4>2. i \in DOMAIN urb /\ i \in 1..submitted
                BY <1>0, <4>1, DataIsSubmitted
            <4>3. urb'[i] = urb[i] \/ urb'[i].at = "none"
                BY <1>5, <4>1, <4>2
            <4> QED BY <1>8, <4>1, <4>2, <4>3 DEF IsShort
        <3>3. CASE FailedBeforeContinuation
            <4>1. PICK i \in 1..submitted : urb[i].status \in DOMAIN FatalStatus
                BY <3>3 DEF FailedBeforeContinuation
            <4>2. urb[i].status # "none" /\ i \in DOMAIN urb
                BY <1>0, <4>1 DEF FatalStatus
            <4>3. urb'[i] = urb[i] \/ urb'[i].at = "none"
                BY <1>5, <4>2
            <4> QED BY <1>1, <1>8, <3>3, <4>1, <4>3 DEF FailedBeforeContinuation
        <3> QED BY <3>1, <3>2, <3>3
    <2>2. event.at = "complete" => ~held
        BY DEF UsbfsInv, FlightIsKnown
    <2> QED BY <1>1, <1>8, <1>19, <2>1, <2>2 DEF ReportIsTrue, EndHasReason
<1>21. CompletedIsTrue'
    <2>1. outcome = "completed" => ~held
        BY DEF UsbfsInv, FlightIsKnown
    <2> QED BY <1>1, <1>8, <1>19, <2>1 DEF ReportIsTrue, CompletedIsTrue
<1>22. DataFollows' /\ DataComesInOrder'
    BY <1>1 DEF DataFollows, DataComesInOrder
<1> QED BY <1>12, <1>13, <1>14, <1>15, <1>16, <1>17, <1>20, <1>21, <1>22

-----------------------------------------------------------------------------
(* A URB is handled *)

\* handle_bulk_completion(), case by case.
LEMMA BulkCases ==
    ASSUME UsbfsAssumption, UsbfsInv, Handle, kind = "bulk"
    PROVE  LET i == event.urb
           IN  /\ transferred' = transferred + urb[i].actual
               /\ \/ /\ reapAction = "normal" /\ urb[i].status \in {"gone", "stall", "bus"} /\ buffer' = buffer
                     /\ reapStatus' # "completed" /\ (Finish(reapStatus') \/ CancelRest(i))
                     /\ reapAction' # "early" /\ (reapAction' = "normal" => urb[i].status # "bus")
                  \/ /\ reapAction = "normal" /\ urb[i].status = "overflow" /\ buffer' = buffer
                     /\ reapStatus' # "completed" /\ Finish(reapStatus') /\ reapAction' = reapAction
                  \/ /\ reapAction = "normal" /\ urb[i].status \in {"ok", "short", "killed"} /\ buffer' = buffer
                     /\ reapStatus' = reapStatus
                     /\ \/ retired + 1 = Num /\ Finish(reapStatus)
                        \/ /\ retired + 1 # Num /\ urb[i].actual < Size(i)
                           /\ reapAction' = "early" /\ CancelRest(i)
                        \/ /\ retired + 1 # Num /\ ~(urb[i].actual < Size(i))
                           /\ reapAction' = reapAction /\ Continue
                  \/ /\ reapAction # "normal" /\ reapAction' = reapAction /\ buffer' = Surplus(i)
                     /\ \/ /\ retired + 1 = Num /\ (reapStatus' = "completed" => reapStatus = "completed")
                           /\ \/ reapAction = "cancelled" /\ Finish("cancel")
                              \/ reapAction = "early" /\ Finish(reapStatus')
                              \/ reapStatus' # "completed" /\ Finish(reapStatus')
                        \/ retired + 1 # Num /\ Continue /\ reapStatus' = reapStatus
<1> DEFINE i == event.urb
           u == urb[i]
           last == retired + 1 = Num
           Blame(st) == IF reapStatus = "completed" \/ st = "no_device" THEN st ELSE reapStatus
<1>1. HandleBulk(i) \/ HandleEndedBulk(i)
    BY DEF Handle
<1>2. \A st : st # "completed" => Blame(st) # "completed"
    OBVIOUS
<1>3. CASE HandleBulk(i)
    <2>1. reapAction = "normal" /\ transferred' = transferred + u.actual /\ buffer' = buffer
        BY <1>3 DEF HandleBulk
    <2>2. CASE /\ u.status \in DOMAIN FatalStatus
               /\ reapAction' = IF u.status = "bus" THEN "error" ELSE reapAction
               /\ reapStatus' = Blame(FatalStatus[u.status])
               /\ IF last THEN Finish(reapStatus') ELSE CancelRest(i)
        <3>1. u.status \in {"gone", "stall", "bus"} /\ FatalStatus[u.status] # "completed"
            BY <2>2 DEF FatalStatus
        <3>2. Blame(FatalStatus[u.status]) # "completed"
            BY <1>2, <3>1
        <3>3. reapStatus' # "completed" /\ (Finish(reapStatus') \/ CancelRest(i))
            BY <2>2, <3>2
        <3>4. reapAction' # "early" /\ (reapAction' = "normal" => u.status # "bus")
            BY <2>1, <2>2
        <3> QED BY <2>1, <3>1, <3>3, <3>4
    <2>3. CASE /\ u.status = "overflow"
               /\ reapStatus' = Blame("overflow") /\ UNCHANGED reapAction
               /\ Finish(reapStatus')
        BY <1>2, <2>1, <2>3
    <2>4. CASE /\ u.status \in {"ok", "short", "killed"}
               /\ UNCHANGED reapStatus
               /\ reapAction' = IF ~last /\ u.actual < Size(i) THEN "early" ELSE reapAction
               /\ IF last THEN Finish(reapStatus)
                  ELSE IF u.actual < Size(i) THEN CancelRest(i) ELSE Continue
        <3>1. CASE last
            BY <2>1, <2>4, <3>1
        <3>2. CASE ~last /\ u.actual < Size(i)
            BY <2>1, <2>4, <3>2
        <3>3. CASE ~last /\ ~(u.actual < Size(i))
            BY <2>1, <2>4, <3>3
        <3> QED BY <3>1, <3>2, <3>3
    <2> QED BY <1>3, <2>2, <2>3, <2>4 DEF HandleBulk
<1>4. CASE HandleEndedBulk(i)
    <2>1. reapAction # "normal" /\ reapAction' = reapAction /\ transferred' = transferred + u.actual /\ buffer' = Surplus(i)
        BY <1>4 DEF HandleEndedBulk
    <2>2. CASE last
        <3>1. /\ reapStatus' = IF reapAction # "early" /\ reapStatus = "completed" THEN "error" ELSE reapStatus
              /\ Finish(IF reapAction = "cancelled" THEN "cancel" ELSE reapStatus')
            BY <1>4, <2>2 DEF HandleEndedBulk
        <3>2. reapStatus' = "completed" => reapStatus = "completed" /\ reapAction = "early"
            BY <3>1
        <3> QED BY <2>1, <2>2, <3>1, <3>2
    <2>3. CASE ~last
        BY <1>4, <2>1, <2>3 DEF HandleEndedBulk
    <2> QED BY <2>2, <2>3
<1> QED BY <1>1, <1>3, <1>4

\* What handling a URB does to what is handled and what waits, and what it leaves.
LEMMA HandleMoves ==
    ASSUME UsbfsAssumption, UsbfsInv, ReportIsTrue, Handle
    PROVE  /\ event.at = "lock" /\ event.urb \in 1..Num /\ event.urb \in DOMAIN urb /\ urb[event.urb].at = "reaped"
           /\ urb[event.urb].status # "none" /\ event.urb \in 1..submitted
           /\ held /\ holder = "none" /\ ~Cancelling /\ retired \in Nat /\ retired' = retired + 1
           /\ UNCHANGED <<kind, length, mode, urb, done, sent, halted, gone, disabled, submitted, asked, outcome>>
           /\ event'.at # "lock" /\ (event'.at = "complete" => ~held')
           /\ event.urb \notin Handled /\ Handled' = Handled \cup {event.urb}
           /\ Waiting' = Waiting \ {event.urb}
           /\ \A j \in DOMAIN urb : \A k : Earlier(k, j) => Earlier(k, j)'
           /\ retired = Cardinality(Handled) + (Num - submitted) /\ Handled \in SUBSET (1..MaxUrbs)
           /\ Num' = Num /\ Pending' = Pending /\ (CancelLostDevice' <=> CancelLostDevice)
           /\ \A j : Start(j)' = Start(j) /\ Size(j)' = Size(j) /\ (Full(j)' <=> Full(j))
           /\ (kind # "bulk" => reapAction' = reapAction /\ reapStatus' = reapStatus)
           /\ (reapAction' = "normal" => reapAction = "normal")
           /\ (reapStatus' = "completed" => reapStatus = "completed")
<1> DEFINE i == event.urb
<1>0. /\ DOMAIN urb = 1..MaxUrbs /\ Num \in 1..MaxUrbs /\ MaxUrbs \in Nat /\ retired \in Nat /\ event \in Events
    BY NumIsBounded, BackIsNoLock
<1>1. /\ event.at = "lock" /\ holder = "none" /\ loop = NoLoop /\ held
      /\ i \in 1..submitted /\ i \in 1..Num /\ retired' = retired + 1
      /\ UNCHANGED <<params, caps, submitted, flagVars, kernel>>
    BY HandleOutcome
<1>2. UNCHANGED <<kind, length, mode, urb, done, sent, halted, gone, disabled, submitted, asked, outcome>>
    BY <1>1 DEF params, caps, flagVars, kernel
<1>3. i \in DOMAIN urb /\ urb[i].at = "reaped" /\ urb[i].status # "none"
    <2>1. urb[i].at = "reaped"
        BY <1>1 DEF UsbfsInv, EventsAreInPlace
    <2> QED BY <1>0, <1>1, <2>1, StatusIsKnown
<1>4. event'.at # "lock" /\ (event'.at = "complete" => ~held')
    <2>1. ASSUME NEW st, Finish(st)
          PROVE  event'.at = "complete" /\ ~held'
        BY <1>0, <2>1 DEF Finish, Events
    <2>2. Continue => event'.at # "lock" /\ event'.at # "complete"
        BY BackIsNoLock DEF Continue
    <2>3. CancelRest(i) => event'.at = "discard"
        BY <1>0 DEF CancelRest, Events
    <2> QED BY <2>1, <2>2, <2>3, HandleOutcome
<1>5. i \notin Handled /\ Handled' = Handled \cup {i}
    BY <1>1, <1>2, <1>3, <1>4 DEF Handled
<1>6. Waiting' = Waiting \ {i}
    BY <1>1, <1>2, <1>3, <1>4 DEF Waiting
<1>7. \A j \in DOMAIN urb : \A k : Earlier(k, j) => Earlier(k, j)'
    BY <1>2, <1>5 DEF Earlier
<1>8. retired = Cardinality(Handled) + (Num - submitted)
    BY <1>1 DEF ReportIsTrue, RetiredAreHandled
<1>9. Handled \in SUBSET (1..MaxUrbs)
    BY <1>0 DEF Handled
<1>10. Num' = Num /\ Pending' = Pending /\ (CancelLostDevice' <=> CancelLostDevice) /\ ~Cancelling
    BY <1>1, <1>2 DEF Num, Pending, CancelLostDevice, Cancelling
<1>11. \A j : Start(j)' = Start(j) /\ Size(j)' = Size(j)
    BY <1>2 DEF Start, Size, Num
<1>12. \A j : Full(j)' <=> Full(j)
    BY <1>2, <1>11 DEF Full
<1>13. kind # "bulk" => reapAction' = reapAction /\ reapStatus' = reapStatus
    <2>1. kind \in Kinds
        BY DEF UsbfsInv, UsbfsTypeOK
    <2> QED BY <2>1 DEF Kinds, Handle, HandleIso, HandleControl
<1>14. /\ reapAction' = "normal" => reapAction = "normal"
       /\ reapStatus' = "completed" => reapStatus = "completed"
    <2>1. CASE kind = "bulk"
        BY <2>1, BulkCases
    <2>2. CASE kind # "bulk"
        BY <1>13, <2>2
    <2> QED BY <2>1, <2>2
<1> QED BY <1>0, <1>1, <1>2, <1>3, <1>4, <1>5, <1>6, <1>7, <1>8, <1>9, <1>10, <1>11, <1>12, <1>13, <1>14

\* The URBs before one that is handled in order are the ones handled.
LEMMA HandledIsPrefix ==
    ASSUME UsbfsAssumption, UsbfsInv, ReportIsTrue, Handle, submitted = Num,
           InOrder(event.urb) \/ Num = 1, \A j \in Handled : j > event.urb => InOrder(j)
    PROVE  Handled = 1..event.urb-1 /\ event.urb = retired + 1
<1> DEFINE i == event.urb
<1>1. /\ event.at = "lock" /\ i \in 1..Num /\ i \notin Handled /\ urb[i].at = "reaped" /\ retired \in Nat
      /\ retired = Cardinality(Handled) + (Num - submitted) /\ i \in DOMAIN urb
    BY HandleMoves
<1>2. Num \in Nat /\ DOMAIN urb = 1..MaxUrbs /\ MaxUrbs \in Nat /\ Handled \subseteq 1..submitted
    BY NumIsBounded, DataIsSubmitted
<1>3. ASSUME NEW j \in DOMAIN urb, urb[j].at = "reaped", NEW k, Earlier(k, j)
      PROVE  k \in Handled
    <2>1. \A b \in DOMAIN done : done[b] # j
        BY <1>3, DoneOnce
    <2> QED BY <1>3, <2>1 DEF Earlier
<1>4. \A k \in 1..i-1 : k \in Handled
    <2>1. CASE InOrder(i)
        BY <1>1, <1>3, <2>1 DEF InOrder
    <2>2. CASE Num = 1
        BY <1>1, <2>2
    <2> QED BY <2>1, <2>2
<1>5. ASSUME NEW j \in Handled, j > i
      PROVE  FALSE
    <2>1. Earlier(i, j)
        BY <1>1, <1>2, <1>5 DEF InOrder
    <2>2. j \in DOMAIN urb /\ urb[j].at = "reaped"
        BY DEF Handled
    <2> QED BY <1>1, <1>3, <2>1, <2>2
<1>6. Handled = 1..i-1
    <2>1. \A j \in Handled : j \in 1..i-1
        BY <1>1, <1>2, <1>5
    <2> QED BY <1>4, <2>1
<1>7. Cardinality(Handled) = i - 1
    <2>1. i - 1 \in Int /\ 1 \in Int /\ i \in Nat /\ i > 0
        BY <1>1, <1>2
    <2>2. Cardinality(1..i-1) = IF 1 > i - 1 THEN 0 ELSE (i - 1) - 1 + 1
        BY <2>1, FS_Interval
    <2> QED BY <1>6, <2>1, <2>2
<1> QED BY <1>1, <1>2, <1>6, <1>7

\* What handling a URB does not touch, or makes more of.
LEMMA HandleRest ==
    ASSUME UsbfsAssumption, UsbfsInv, ReportIsTrue, Handle
    PROVE  /\ RetiredAreHandled' /\ CancelKnowsWhy' /\ FailureIsKnown' /\ OrderIsKept'
           /\ DataComesInOrder' /\ CompletedIsTrue'
<1> DEFINE i == event.urb
<1>0. /\ DOMAIN urb = 1..MaxUrbs /\ Num \in 1..MaxUrbs /\ MaxUrbs \in Nat /\ submitted \in 0..Num
    BY NumIsBounded
<1>1. /\ i \in DOMAIN urb /\ held /\ holder = "none" /\ ~Cancelling /\ retired \in Nat /\ retired' = retired + 1
      /\ UNCHANGED <<kind, length, mode, urb, done, sent, halted, gone, disabled, submitted, asked, outcome>>
      /\ i \notin Handled /\ Handled' = Handled \cup {i}
      /\ \A j \in DOMAIN urb : \A k : Earlier(k, j) => Earlier(k, j)'
      /\ retired = Cardinality(Handled) + (Num - submitted) /\ Handled \in SUBSET (1..MaxUrbs)
      /\ Num' = Num /\ Pending' = Pending /\ (CancelLostDevice' <=> CancelLostDevice)
      /\ \A j : Start(j)' = Start(j) /\ Size(j)' = Size(j) /\ (Full(j)' <=> Full(j))
      /\ (kind # "bulk" => reapAction' = reapAction /\ reapStatus' = reapStatus)
      /\ (reapAction' = "normal" => reapAction = "normal")
      /\ (reapStatus' = "completed" => reapStatus = "completed")
    BY HandleMoves
<1>2. Normal' => Normal
    BY <1>1 DEF Normal
<1>3. \/ holder' = "none" /\ loop' = NoLoop
      \/ holder' = "event" /\ loop'.ret = "ok" /\ kind = "bulk" /\ loop' # NoLoop
    <2>1. /\ holder = "none" /\ loop = NoLoop
          /\ \/ \E st \in Reports \cup {"cancel"} : Finish(st)
             \/ Continue
             \/ kind = "bulk" /\ CancelRest(i)
        BY HandleOutcome
    <2>2. ASSUME NEW st, Finish(st)
          PROVE  holder' = "none" /\ loop' = NoLoop
        BY <2>1, <2>2 DEF Finish
    <2>3. ASSUME Continue
          PROVE  holder' = "none" /\ loop' = NoLoop
        BY <2>1, <2>3 DEF Continue
    <2>4. ASSUME CancelRest(i)
          PROVE  holder' = "event" /\ loop'.ret = "ok" /\ loop' # NoLoop
        <3>1. holder' = "event" /\ loop' = [at |-> Num, first |-> i + 1, last |-> Num, ret |-> "ok"]
            BY <2>4 DEF CancelRest
        <3>2. loop'.at = Num /\ loop'.ret = "ok" /\ NoLoop.at = 0 /\ Num # 0
            BY <1>0, <3>1 DEF NoLoop
        <3>3. loop' # NoLoop
            BY <3>2
        <3> QED BY <3>1, <3>2, <3>3
    <2> QED BY <2>1, <2>2, <2>3, <2>4
<1>4. RetiredAreHandled'
    <2>1. Cardinality(Handled') = Cardinality(Handled) + 1 /\ Cardinality(Handled) \in Nat
        <3> HIDE DEF i
        <3> QED BY <1>1, UrbsCount
    <2>2. retired' = Cardinality(Handled') + (Num - submitted)
        BY <1>0, <1>1, <2>1
    <2>3. \A j \in 1..submitted : urb[j].at = "none" => gone
        BY DEF ReportIsTrue, RetiredAreHandled
    <2>4. reapAction = "normal" => submitted = Num
        BY <1>1 DEF ReportIsTrue, RetiredAreHandled
    <2>5. kind # "bulk" => reapStatus = "completed"
        BY DEF ReportIsTrue, RetiredAreHandled
    <2> QED BY <1>1, <1>3, <2>2, <2>3, <2>4, <2>5 DEF RetiredAreHandled
<1>5. CancelKnowsWhy'
    <2>1. holder' = "event" => ~Normal'
        <3>1. ASSUME holder' = "event"
              PROVE  CancelRest(i) /\ kind = "bulk"
            BY <1>1, <1>3, <3>1, HandleOutcome DEF Finish, Continue
        <3>2. ~CancelRest(i) \/ \A st : ~Finish(st)
            BY <1>1 DEF Finish, CancelRest
        <3>3. ~CancelRest(i) \/ ~Continue
            BY <1>1 DEF Continue, CancelRest
        <3>4. CASE CancelRest(i) /\ kind = "bulk"
            <4>1. reapStatus' # "completed" \/ reapAction' # "normal"
                BY <3>2, <3>3, <3>4, BulkCases
            <4> QED BY <4>1 DEF Normal
        <3> QED BY <3>1, <3>4
    <2>2. Normal /\ ~gone /\ urb[Num].status # "none" => Pending = {}
        BY <1>1 DEF ReportIsTrue, CancelKnowsWhy
    <2>3. loop'.ret = "ok" /\ holder' \notin {"user", "timeout"}
        BY <1>3 DEF NoLoop
    <2> QED BY <1>1, <1>2, <2>1, <2>2, <2>3 DEF CancelKnowsWhy
<1>6. FailureIsKnown'
    BY <1>1, <1>2 DEF ReportIsTrue, FailureIsKnown
<1>7. \A j \in DOMAIN urb : InOrder(j) => InOrder(j)'
    BY <1>1 DEF InOrder
<1>8. OrderIsKept'
    BY <1>1, <1>2, <1>7 DEF ReportIsTrue, OrderIsKept
<1>9. DataComesInOrder'
    BY <1>1 DEF ReportIsTrue, DataComesInOrder
<1>10. CompletedIsTrue'
    <2>1. outcome = "waiting"
        BY HandleOutcome DEF UsbfsInv, FlightIsKnown
    <2> QED BY <1>1, <2>1 DEF CompletedIsTrue
<1> QED BY <1>4, <1>5, <1>6, <1>8, <1>9, <1>10

\* The data of a URB that is handled are put behind the data before it.
LEMMA BulkDataFollows ==
    ASSUME UsbfsAssumption, UsbfsInv, ReportIsTrue, Handle, kind = "bulk", ~gone
    PROVE  /\ DataFollows' /\ transferred' \in Nat /\ buffer' \in [1..MaxLength -> Nat]
           /\ urb[event.urb].actual > 0 => InOrder(event.urb)
<1> DEFINE i == event.urb
           n == urb[i].actual
<1>0. /\ DOMAIN urb = 1..MaxUrbs /\ Num \in 1..MaxUrbs /\ MaxUrbs \in Nat /\ urb \in [1..MaxUrbs -> Urbs]
    BY NumIsBounded
<1>1. /\ event.at = "lock" /\ i \in 1..Num /\ i \in DOMAIN urb /\ urb[i].at = "reaped" /\ urb[i].status # "none"
      /\ UNCHANGED <<kind, length, mode, urb, done, sent, halted, gone, disabled, submitted>>
      /\ held /\ i \notin Handled /\ Waiting' = Waiting \ {i}
      /\ \A j : Start(j)' = Start(j) /\ Size(j)' = Size(j) /\ (Full(j)' <=> Full(j))
    BY HandleMoves
<1>2. /\ transferred \in Nat /\ sent \in Nat /\ buffer \in [1..MaxLength -> Nat] /\ n \in Nat /\ n <= Size(i)
      /\ \A k \in DOMAIN urb : urb[k].actual \in Nat /\ (k \in 1..Num => urb[k].actual <= Size(k))
    BY <1>0, <1>1 DEF ReportIsTrue, DataTypeOK, Urbs
<1>3. /\ length \in Nat /\ length <= MaxLength /\ MaxLength \in Nat
      /\ \A k \in 1..Num : Start(k) \in Nat /\ Size(k) \in Nat /\ Start(k) + Size(k) <= length
      /\ \A j, k \in 1..Num : j < k => Start(j) + Size(j) <= Start(k)
    BY Layout
<1>4. /\ transferred <= sent /\ \A p \in 1..transferred : buffer[p] = p
      /\ \A k \in Waiting :
         /\ transferred < First(k) /\ First(k) + urb[k].actual <= sent + 1
         /\ \A q \in 1..urb[k].actual : buffer[Start(k) + q] = First(k) + q - 1
         /\ First(k) <= Start(k) + 1
         /\ (\A j \in 1..k-1 : Full(j)) => First(k) = Start(k) + 1
         /\ (\A j \in Waiting : k <= j) => First(k) = transferred + 1
         /\ (\A j \in Waiting : j <= k) => First(k) + urb[k].actual = sent + 1
         /\ \A l \in Waiting : k < l =>
              /\ First(k) + urb[k].actual <= First(l)
              /\ (\A j \in Waiting : j <= k \/ l <= j) => First(l) = First(k) + urb[k].actual
      /\ Waiting = {} => transferred = sent
    BY DEF ReportIsTrue, DataFollows
<1>5. n > 0 => InOrder(i)
    BY <1>1 DEF ReportIsTrue, OrderIsKept
<1>6. transferred' = transferred + n
    BY BulkCases
<1>7. CASE n = 0
    <2>1. Surplus(i) = buffer
        BY <1>2, <1>7 DEF Surplus
    <2>2. buffer' = buffer
        BY <2>1, BulkCases
    <2>3. transferred' = transferred
        BY <1>2, <1>6, <1>7
    <2>4. Waiting' = Waiting
        BY <1>1, <1>7 DEF Waiting
    <2>5. \A k : First(k)' = First(k)
        BY <1>1, <2>2 DEF First
    <2>6. DataFollows'
        BY <1>1, <1>4, <2>2, <2>3, <2>4, <2>5 DEF DataFollows
    <2> QED BY <1>2, <1>5, <2>2, <2>3, <2>6
<1>8. CASE n > 0
    <2>1. i \in Waiting
        BY <1>1, <1>8 DEF Waiting
    <2>2. \A j \in 1..i-1 : j \in Handled
        <3>1. \A b \in DOMAIN done : done[b] # i
            BY <1>1, DoneOnce
        <3> QED BY <1>1, <1>5, <1>8, <3>1 DEF InOrder, Earlier
    <2>3. \A k \in Waiting : k \in 1..Num /\ k \in DOMAIN urb /\ urb[k].actual > 0
        BY <1>0, DataIsSubmitted DEF Waiting
    <2>4. \A k \in Waiting : k \notin Handled \/ k = i
        BY DEF Waiting, Handled
    <2>5. \A k \in Waiting : i <= k
        BY <1>1, <2>2, <2>3, <2>4
    <2>6. First(i) = transferred + 1 /\ transferred <= Start(i) /\ Start(i) \in Nat
        BY <1>1, <1>2, <1>3, <1>4, <2>1, <2>5
    <2>7. /\ transferred + n <= sent
          /\ \A q \in 1..n : buffer[Start(i) + q] = transferred + q
        <3>1. First(i) + n <= sent + 1 /\ \A q \in 1..n : buffer[Start(i) + q] = First(i) + q - 1
            BY <1>4, <2>1
        <3> QED BY <1>2, <2>6, <3>1
    <2>8. \A q \in 1..n : Start(i) + q \in 1..MaxLength
        BY <1>1, <1>2, <1>3
    <2>9. transferred + n <= Start(i) + Size(i) /\ transferred + n <= MaxLength
        BY <1>1, <1>2, <1>3, <2>6
    \* As long as nothing has ended the transfer, the data are in their place.
    <2>10. buffer' = Surplus(i)
        <3>1. CASE reapAction = "normal"
            <4>1. buffer' = buffer
                BY <3>1, BulkCases
            <4>2. \A j \in 1..i-1 : Full(j)
                <5>1. SUFFICES ASSUME NEW j \in 1..i-1
                               PROVE  Full(j)
                    OBVIOUS
                <5>2. Full(j) \/ urb[j].status \in {"stall", "gone"}
                    BY <1>1, <2>2, <3>1 DEF ReportIsTrue, NormalIsFull
                <5>3. j \in DOMAIN urb /\ j < i
                    BY <1>0, <1>1
                <5>4. urb[j].status # "stall"
                    BY <1>1, <1>8, <5>3 DEF ReportIsTrue, DataComesInOrder
                <5>5. urb[j].status # "gone"
                    BY <5>3 DEF ReportIsTrue, DataTypeOK
                <5> QED BY <5>2, <5>4, <5>5
            <4>3. First(i) = Start(i) + 1
                BY <1>4, <2>1, <4>2
            <4>4. transferred = Start(i)
                BY <1>2, <2>6, <4>3
            <4>5. Surplus(i) = [p \in DOMAIN buffer |-> buffer[p]]
                <5>1. \A p \in transferred+1 .. transferred+n : Start(i) + p - transferred = p
                    BY <1>2, <2>6, <4>4
                <5> QED BY <5>1 DEF Surplus
            <4> QED BY <1>2, <4>1, <4>5
        <3>2. CASE reapAction # "normal"
            BY <3>2, BulkCases
        <3> QED BY <3>1, <3>2
    <2>11. /\ DOMAIN buffer' = 1..MaxLength
           /\ \A p \in 1..MaxLength : buffer'[p] = IF p \in transferred+1 .. transferred+n
                                                   THEN buffer[Start(i) + p - transferred] ELSE buffer[p]
        BY <1>2, <2>10 DEF Surplus
    <2>12. ASSUME NEW p \in 1..transferred+n
           PROVE  p \in 1..MaxLength /\ buffer'[p] = p
        <3>1. p \in 1..MaxLength
            BY <1>2, <1>3, <2>9
        <3>2. CASE p \in transferred+1 .. transferred+n
            <4>1. p - transferred \in 1..n /\ Start(i) + p - transferred = Start(i) + (p - transferred)
                BY <1>2, <2>6, <3>2
            <4>2. buffer'[p] = buffer[Start(i) + (p - transferred)]
                BY <2>11, <3>1, <3>2, <4>1
            <4>3. buffer[Start(i) + (p - transferred)] = transferred + (p - transferred)
                BY <2>7, <4>1
            <4> QED BY <1>2, <3>1, <4>2, <4>3
        <3>3. CASE p \notin transferred+1 .. transferred+n
            <4>1. p \in 1..transferred
                BY <1>2, <3>3
            <4> QED BY <1>4, <2>11, <3>1, <3>3, <4>1
        <3> QED BY <3>2, <3>3, <3>1
    <2>13. ASSUME NEW k \in Waiting, k # i
           PROVE  /\ First(k)' = First(k) /\ First(k) \in Nat
                  /\ \A q \in 1..urb[k].actual : buffer'[Start(k) + q] = buffer[Start(k) + q]
                  /\ i < k
        <3>1. k \in 1..Num /\ i < k /\ urb[k].actual > 0 /\ urb[k].actual <= Size(k) /\ urb[k].actual \in Nat
            BY <1>0, <1>1, <1>2, <2>3, <2>5, <2>13
        <3>2. Start(k) \in Nat /\ Size(k) \in Nat /\ Start(k) + Size(k) <= MaxLength /\ Start(i) + Size(i) <= Start(k)
            BY <1>1, <1>3, <3>1
        <3>3. transferred + n <= Start(k)
            <4>1. Start(i) \in Nat /\ Size(i) \in Nat /\ Start(i) + Size(i) <= Start(k)
                BY <1>1, <1>3, <3>2
            <4>2. transferred + n <= Start(i) + Size(i) /\ transferred \in Nat /\ n \in Nat
                BY <1>2, <2>9
            <4> HIDE DEF i, n
            <4> QED BY <3>2, <4>1, <4>2
        <3>4. \A q \in 1..urb[k].actual : Start(k) + q \in 1..MaxLength /\ Start(k) + q > transferred + n
            <4> DEFINE m == urb[k].actual
            <4>1. m \in Nat /\ m <= Size(k) /\ Start(k) \in Nat /\ Size(k) \in Nat /\ Start(k) + Size(k) <= MaxLength
                BY <3>1, <3>2
            <4>2. transferred + n <= Start(k) /\ transferred + n \in Nat /\ MaxLength \in Nat
                BY <1>2, <1>3, <3>3
            <4> HIDE DEF m, i, n
            <4>3. \A q \in 1..m : Start(k) + q \in 1..MaxLength /\ Start(k) + q > transferred + n
                BY <4>1, <4>2
            <4> QED BY <4>3 DEF m, n, i
        <3>5. \A q \in 1..urb[k].actual : buffer'[Start(k) + q] = buffer[Start(k) + q]
            BY <1>2, <2>11, <3>2, <3>4
        <3>6. 1 \in 1..urb[k].actual
            BY <3>1
        <3>7. First(k)' = First(k) /\ First(k) \in Nat
            BY <1>1, <1>2, <3>4, <3>5, <3>6 DEF First
        <3> QED BY <3>1, <3>5, <3>7
    <2>14. buffer' \in [1..MaxLength -> Nat]
        <3>1. \A p \in 1..MaxLength : buffer'[p] \in Nat
            <4>1. SUFFICES ASSUME NEW p \in 1..MaxLength
                           PROVE  buffer'[p] \in Nat
                OBVIOUS
            <4>2. CASE p \in transferred+1 .. transferred+n
                <5>1. p \in 1..transferred+n
                    BY <1>2, <4>2
                <5> QED BY <2>12, <4>1, <5>1
            <4>3. CASE p \notin transferred+1 .. transferred+n
                BY <1>2, <2>11, <4>3
            <4> QED BY <4>2, <4>3
        <3>2. buffer' = [p \in 1..MaxLength |-> buffer'[p]]
            BY <1>2, <2>10, <2>11 DEF Surplus
        <3> QED BY <3>1, <3>2
    <2>15. /\ transferred' <= sent' /\ \A p \in 1..transferred' : buffer'[p] = p
        BY <1>1, <1>6, <2>7, <2>12
    <2>16. ASSUME NEW k \in Waiting'
           PROVE  /\ transferred' < First(k)' /\ First(k)' + urb'[k].actual <= sent' + 1
                  /\ \A q \in 1..urb'[k].actual : buffer'[Start(k)' + q] = First(k)' + q - 1
                  /\ First(k)' <= Start(k)' + 1
                  /\ (\A j \in 1..k-1 : Full(j)') => First(k)' = Start(k)' + 1
                  /\ (\A j \in Waiting' : k <= j) => First(k)' = transferred' + 1
                  /\ (\A j \in Waiting' : j <= k) => First(k)' + urb'[k].actual = sent' + 1
                  /\ \A l \in Waiting' : k < l =>
                       /\ First(k)' + urb'[k].actual <= First(l)'
                       /\ (\A j \in Waiting' : j <= k \/ l <= j) => First(l)' = First(k)' + urb'[k].actual
        <3>1. k \in Waiting /\ k # i /\ i < k /\ First(k)' = First(k) /\ First(k) \in Nat
            BY <1>1, <2>13, <2>16
        <3>2. First(i) + n <= First(k) /\ ((\A j \in Waiting : j <= i \/ k <= j) => First(k) = First(i) + n)
            BY <1>4, <2>1, <3>1
        <3>3. transferred' < First(k)
            BY <1>2, <1>6, <2>6, <3>1, <3>2
        <3>4. (\A j \in Waiting' : k <= j) => First(k) = transferred' + 1
            <4>1. SUFFICES ASSUME \A j \in Waiting' : k <= j
                           PROVE  First(k) = transferred' + 1
                OBVIOUS
            <4>2. \A j \in Waiting : j <= i \/ k <= j
                BY <1>1, <2>3, <4>1
            <4>3. First(k) = First(i) + n /\ First(i) = transferred + 1 /\ transferred' = transferred + n
                BY <1>6, <2>6, <3>2, <4>2
            <4>4. transferred \in Nat /\ n \in Nat
                BY <1>2
            <4> HIDE DEF i, n
            <4> QED BY <4>3, <4>4
        <3>5. (\A j \in Waiting' : j <= k) => First(k) + urb[k].actual = sent + 1
            <4>1. SUFFICES ASSUME \A j \in Waiting' : j <= k
                           PROVE  \A j \in Waiting : j <= k
                BY <1>4, <3>1
            <4> QED BY <1>1, <2>3, <3>1, <4>1
        <3>6. ASSUME NEW l \in Waiting', k < l
              PROVE  /\ First(k) + urb[k].actual <= First(l)
                     /\ (\A j \in Waiting' : j <= k \/ l <= j) => First(l) = First(k) + urb[k].actual
                     /\ First(l)' = First(l)
            <4>1. l \in Waiting /\ l # i /\ First(l)' = First(l)
                BY <1>1, <2>13, <3>6
            <4>2. (\A j \in Waiting' : j <= k \/ l <= j) => \A j \in Waiting : j <= k \/ l <= j
                BY <1>1, <2>3, <3>1
            <4> QED BY <1>4, <3>1, <3>6, <4>1, <4>2
        <3>7. /\ First(k) + urb[k].actual <= sent + 1 /\ First(k) <= Start(k) + 1
              /\ \A q \in 1..urb[k].actual : buffer[Start(k) + q] = First(k) + q - 1
              /\ (\A j \in 1..k-1 : Full(j)) => First(k) = Start(k) + 1
            BY <1>4, <3>1
        <3>8. \A q \in 1..urb[k].actual : buffer'[Start(k) + q] = First(k) + q - 1
            BY <2>13, <3>1, <3>7
        <3> QED BY <1>1, <3>1, <3>3, <3>4, <3>5, <3>6, <3>7, <3>8
    <2>17. Waiting' = {} => transferred' = sent'
        <3>1. SUFFICES ASSUME Waiting' = {}
                       PROVE  transferred' = sent'
            OBVIOUS
        <3>2. \A j \in Waiting : j <= i
            BY <1>1, <3>1
        <3>3. First(i) + n = sent + 1
            BY <1>4, <2>1, <3>2
        <3>4. First(i) = transferred + 1 /\ transferred' = transferred + n /\ sent' = sent
            BY <1>1, <1>6, <2>6
        <3>5. transferred \in Nat /\ n \in Nat /\ sent \in Nat
            BY <1>2
        <3> HIDE DEF i, n
        <3> QED BY <3>3, <3>4, <3>5
    <2>18. DataFollows'
        BY <2>15, <2>16, <2>17 DEF DataFollows
    <2> QED BY <1>2, <1>5, <1>6, <2>14, <2>18
<1> QED BY <1>2, <1>7, <1>8

\* As long as nothing has ended the transfer, the URBs are handled in their order.
LEMMA NormalIsNext ==
    ASSUME UsbfsAssumption, UsbfsInv, ReportIsTrue, Handle, Normal,
           (kind = "bulk" /\ Full(event.urb)) \/ (kind = "iso" /\ ~CancelLostDevice)
    PROVE  /\ event.urb = retired + 1 /\ transferred = Start(event.urb) /\ event.urb \in 1..Num
           /\ retired + 1 <= Num
<1> DEFINE i == event.urb
<1>1. /\ event.at = "lock" /\ i \in 1..Num /\ i \in DOMAIN urb /\ urb[i].status # "none"
      /\ holder = "none" /\ held /\ retired \in Nat /\ ~Cancelling
    BY HandleMoves
<1>2. Num \in Nat \ {0} /\ \A j, k \in 1..Num : j < k => Size(j) > 0 /\ Size(k) > 0
    BY Layout
<1>3. submitted = Num
    BY <1>1 DEF ReportIsTrue, RetiredAreHandled, Normal
<1>4. Handled \subseteq 1..Num /\ \A j \in Handled : j \in DOMAIN urb /\ urb[j].status # "none"
    <2>1. \A j \in Handled : j \in DOMAIN urb /\ urb[j].at = "reaped"
        BY DEF Handled
    <2> QED BY <1>3, <2>1, DataIsSubmitted, StatusIsKnown
<1>5. (InOrder(i) \/ Num = 1) /\ \A j \in Handled : j > i => InOrder(j)
    <2>1. CASE kind = "bulk" /\ Full(i)
        <3>1. \A j \in DOMAIN urb : urb[j].actual > 0 => InOrder(j)
            BY <2>1 DEF ReportIsTrue, OrderIsKept
        <3>2. \A j \in Handled : Full(j)
            BY <2>1 DEF ReportIsTrue, NormalIsFull, Normal
        <3>3. InOrder(i) \/ Num = 1
            <4>1. CASE Num = 1
                BY <4>1
            <4>2. CASE Num # 1
                <5>1. Size(i) > 0
                    BY <1>1, <1>2, <4>2
                <5> QED BY <1>1, <2>1, <3>1, <5>1 DEF Full
            <4> QED BY <4>1, <4>2
        <3>4. ASSUME NEW j \in Handled, j > i
              PROVE  InOrder(j)
            <4>1. Size(j) > 0
                BY <1>1, <1>2, <1>4, <3>4
            <4> QED BY <1>4, <3>1, <3>2, <4>1 DEF Full
        <3> QED BY <3>3, <3>4
    <2>2. CASE kind = "iso" /\ ~CancelLostDevice
        <3>1. \A j \in DOMAIN urb : urb[j].status # "none" => InOrder(j)
            BY <1>1, <2>2 DEF ReportIsTrue, OrderIsKept
        <3> QED BY <1>1, <1>4, <3>1
    <2> QED BY <2>1, <2>2
<1>6. i = retired + 1
    BY <1>3, <1>5, HandledIsPrefix
<1>7. transferred = Start(retired + 1)
    <2>1. retired < Num
        BY <1>1, <1>2, <1>6
    <2> QED BY <2>1 DEF ReportIsTrue, NormalIsFull
<1> QED BY <1>1, <1>2, <1>6, <1>7

\* A bulk URB that ends nothing is full.
LEMMA BulkNormalIsFull ==
    ASSUME UsbfsAssumption, UsbfsInv, ReportIsTrue, Handle, kind = "bulk", held', reapAction' = "normal"
    PROVE  \/ Full(event.urb) /\ urb[event.urb].status \in {"ok", "killed"}
           \/ urb[event.urb].status \in {"stall", "gone"} /\ reapStatus' # "completed"
<1> DEFINE i == event.urb
<1>1. /\ i \in 1..Num /\ i \in DOMAIN urb /\ urb[i].status # "none"
    BY HandleMoves
<1>2. \A st : ~Finish(st)
    BY DEF Finish
<1>3. urb[i].actual \in Nat /\ urb[i].actual <= Size(i) /\ Size(i) \in Nat
    <2>1. urb[i] \in Urbs
        BY <1>1, NumIsBounded
    <2> QED BY <1>1, <2>1, Layout DEF ReportIsTrue, DataTypeOK, Urbs
<1>4. urb[i].status = "short" => urb[i].actual < Size(i)
    BY <1>1 DEF ReportIsTrue, DataTypeOK
<1>5. CASE urb[i].status \in {"gone", "stall", "bus"} /\ reapStatus' # "completed" /\ urb[i].status # "bus"
    BY <1>5
<1>6. CASE urb[i].status \in {"ok", "short", "killed"} /\ ~(urb[i].actual < Size(i))
    <2>1. urb[i].actual = Size(i)
        BY <1>3, <1>6
    <2> QED BY <1>1, <1>4, <1>6, <2>1 DEF Full
<1> QED BY <1>2, <1>5, <1>6, BulkCases

\* handle_iso_completion() and handle_control_completion(), as far as data go.
LEMMA OtherCases ==
    ASSUME UsbfsAssumption, UsbfsInv, ReportIsTrue, Handle, kind # "bulk"
    PROVE  \/ /\ kind = "iso" /\ transferred' = transferred + Size(event.urb)
              /\ buffer' = [p \in DOMAIN buffer |-> IF p \in transferred+1 .. transferred+Size(event.urb)
                    THEN Start(event.urb) + p - transferred ELSE buffer[p]]
              /\ \/ Continue
                 \/ retired + 1 = Num /\ reapAction # "normal" /\ \E st \in {"cancel", "error"} : Finish(st)
                 \/ retired + 1 = Num /\ reapAction = "normal" /\ Finish(IsoStatus(urb[event.urb].status))
           \/ /\ kind = "control" /\ transferred' = transferred + urb[event.urb].actual /\ buffer' = buffer
              /\ Finish("cancel") \/ Finish(ControlStatus(urb[event.urb].status))
<1>1. kind \in Kinds
    BY DEF UsbfsInv, UsbfsTypeOK
<1>2. CASE kind = "iso"
    <2>1. HandleIso(event.urb)
        BY <1>2 DEF Handle
    <2>2. CASE retired + 1 # Num
        BY <1>2, <2>1, <2>2 DEF HandleIso
    <2>3. CASE retired + 1 = Num /\ reapAction = "normal"
        BY <1>2, <2>1, <2>3 DEF HandleIso
    <2>4. CASE retired + 1 = Num /\ reapAction # "normal"
        BY <1>2, <2>1, <2>4 DEF HandleIso
    <2> QED BY <2>2, <2>3, <2>4
<1>3. CASE kind = "control"
    BY <1>3 DEF Handle, HandleControl
<1> QED BY <1>1, <1>2, <1>3 DEF Kinds

\* A URB that is handled moves data inside of the buffer.
LEMMA HandleTypeOK ==
    ASSUME UsbfsAssumption, UsbfsInv, ReportIsTrue, Handle
    PROVE  DataTypeOK'
<1> DEFINE i == event.urb
           n == urb[i].actual
<1>1. /\ i \in 1..Num /\ i \in DOMAIN urb /\ UNCHANGED <<urb, sent, gone>> /\ Num' = Num
      /\ \A j : Size(j)' = Size(j)
    BY HandleMoves
<1>2. /\ transferred \in Nat /\ sent \in Nat /\ buffer \in [1..MaxLength -> Nat] /\ n \in Nat /\ n <= Size(i)
    <2>1. urb[i] \in Urbs
        BY <1>1, NumIsBounded
    <2> QED BY <1>1, <2>1 DEF ReportIsTrue, DataTypeOK, Urbs
<1>3. Start(i) \in Nat /\ Size(i) \in Nat /\ Start(i) + Size(i) <= MaxLength /\ MaxLength \in Nat
    <2>1. Start(i) + Size(i) <= length /\ length <= MaxLength /\ length \in Nat /\ MaxLength \in Nat
        BY <1>1, Layout
    <2>2. Start(i) \in Nat /\ Size(i) \in Nat
        BY <1>1, Layout
    <2> HIDE DEF i
    <2> QED BY <2>1, <2>2
<1>4. transferred' \in Nat /\ buffer' \in [1..MaxLength -> Nat]
    <2>1. CASE kind = "bulk"
        <3>1. transferred' = transferred + n /\ (buffer' = buffer \/ buffer' = Surplus(i))
            BY <2>1, BulkCases
        <3>2. ASSUME NEW p \in 1..MaxLength, p \in transferred+1 .. transferred+n
              PROVE  Start(i) + p - transferred \in 1..MaxLength
            <4> HIDE DEF i, n
            <4> QED BY <1>2, <1>3, <3>2
        <3>3. Surplus(i) \in [1..MaxLength -> Nat]
            BY <1>2, <3>2 DEF Surplus
        <3>4. transferred' \in Nat
            <4> HIDE DEF i, n
            <4> QED BY <1>2, <3>1
        <3> QED BY <1>2, <3>1, <3>3, <3>4
    <2>2. CASE kind # "bulk"
        <3>1. \/ transferred' = transferred + Size(i)
                 /\ buffer' = [p \in DOMAIN buffer |-> IF p \in transferred+1 .. transferred+Size(i)
                    THEN Start(i) + p - transferred ELSE buffer[p]]
              \/ transferred' = transferred + n /\ buffer' = buffer
            BY <2>2, OtherCases
        <3>2. ASSUME NEW p \in 1..MaxLength, p \in transferred+1 .. transferred+Size(i)
              PROVE  Start(i) + p - transferred \in Nat
            <4> HIDE DEF i
            <4> QED BY <1>2, <1>3, <3>2
        <3>3. transferred' \in Nat
            <4> HIDE DEF i, n
            <4> QED BY <1>2, <1>3, <3>1
        <3>4. buffer' \in [1..MaxLength -> Nat]
            <4>1. CASE buffer' = buffer
                BY <1>2, <4>1
            <4>2. CASE buffer' = [p \in DOMAIN buffer |-> IF p \in transferred+1 .. transferred+Size(i)
                    THEN Start(i) + p - transferred ELSE buffer[p]]
                BY <1>2, <3>2, <4>2
            <4> QED BY <3>1, <4>1, <4>2
        <3> QED BY <3>3, <3>4
    <2> QED BY <2>1, <2>2
<1> QED BY <1>1, <1>2, <1>4 DEF ReportIsTrue, DataTypeOK

\* handle_iso_completion(): the results go to the descriptors of their own packets.
LEMMA IsoInPlace ==
    ASSUME UsbfsAssumption, UsbfsInv, ReportIsTrue, Handle, Normal, kind = "iso", ~CancelLostDevice
    PROVE  /\ event.urb = retired + 1 /\ transferred = Start(event.urb)
           /\ transferred' = transferred + Size(event.urb)
           /\ \A p \in 1..transferred' : buffer'[p] = p
<1> DEFINE i == event.urb
<1>1. i = retired + 1 /\ transferred = Start(i) /\ i \in 1..Num
    BY NormalIsNext
<1>2. /\ transferred' = transferred + Size(i)
      /\ buffer' = [q \in DOMAIN buffer |-> IF q \in transferred+1 .. transferred+Size(i)
                                            THEN Start(i) + q - transferred ELSE buffer[q]]
    BY OtherCases
<1>3. /\ transferred \in Nat /\ Start(i) \in Nat /\ Size(i) \in Nat
      /\ buffer \in [1..MaxLength -> Nat] /\ Start(i) + Size(i) <= MaxLength /\ MaxLength \in Nat
    <2>1. Start(i) + Size(i) <= length /\ length <= MaxLength /\ length \in Nat /\ MaxLength \in Nat
        BY <1>1, Layout
    <2>2. Start(i) \in Nat /\ Size(i) \in Nat
        BY <1>1, Layout
    <2>3. transferred \in Nat /\ buffer \in [1..MaxLength -> Nat]
        BY DEF ReportIsTrue, DataTypeOK
    <2> HIDE DEF i
    <2> QED BY <2>1, <2>2, <2>3
<1>4. ASSUME NEW p \in 1..transferred'
      PROVE  buffer'[p] = p
    <2>1. p \in 1..MaxLength /\ (p \in transferred+1 .. transferred+Size(i) \/ p \in 1..transferred)
        <3>1. p \in 1 .. transferred+Size(i) /\ transferred+Size(i) <= MaxLength
            BY <1>1, <1>2, <1>3, <1>4
        <3> HIDE DEF i
        <3> QED BY <1>3, <3>1
    <2>2. \A q \in 1..transferred : buffer[q] = q
        BY DEF ReportIsTrue, NormalIsFull
    <2>3. CASE p \in transferred+1 .. transferred+Size(i)
        <3>1. buffer'[p] = Start(i) + p - transferred
            BY <1>2, <1>3, <2>1, <2>3
        <3>2. Start(i) = transferred /\ p \in Nat
            BY <1>1, <2>1
        <3> HIDE DEF i
        <3> QED BY <1>3, <3>1, <3>2
    <2>4. CASE p \notin transferred+1 .. transferred+Size(i)
        BY <1>2, <1>3, <2>1, <2>2, <2>4
    <2> QED BY <2>3, <2>4
<1> QED BY <1>1, <1>2, <1>4

\* handle_bulk_completion(), handle_iso_completion(): what is handled without an end is
\* full, and in its place.
LEMMA HandleNormalIsFull ==
    ASSUME UsbfsAssumption, UsbfsInv, ReportIsTrue, Handle
    PROVE  NormalIsFull'
<1> DEFINE i == event.urb
<1>1. /\ i \in 1..Num /\ i \in DOMAIN urb /\ held /\ retired \in Nat /\ retired' = retired + 1
      /\ UNCHANGED <<kind, length, mode, urb, asked, gone>> /\ Num' = Num /\ (CancelLostDevice' <=> CancelLostDevice)
      /\ Handled' = Handled \cup {i}
      /\ \A j : Start(j)' = Start(j) /\ Size(j)' = Size(j) /\ (Full(j)' <=> Full(j))
      /\ (reapAction' = "normal" => reapAction = "normal")
      /\ (reapStatus' = "completed" => reapStatus = "completed")
    BY HandleMoves
<1>2. Normal' => Normal
    BY <1>1 DEF Normal
<1>3. /\ Num \in Nat /\ transferred \in Nat /\ Start(i) \in Nat /\ Size(i) \in Nat
      /\ buffer \in [1..MaxLength -> Nat] /\ Start(i) + Size(i) <= MaxLength /\ MaxLength \in Nat
    <2>1. Start(i) + Size(i) <= length /\ length <= MaxLength /\ length \in Nat /\ MaxLength \in Nat /\ Num \in Nat
        BY <1>1, Layout
    <2>2. Start(i) \in Nat /\ Size(i) \in Nat
        BY <1>1, Layout
    <2>3. transferred \in Nat /\ buffer \in [1..MaxLength -> Nat]
        BY DEF ReportIsTrue, DataTypeOK
    <2> HIDE DEF i
    <2> QED BY <2>1, <2>2, <2>3
<1>4. ASSUME held', kind' = "bulk", reapAction' = "normal", NEW j \in Handled'
      PROVE  \/ Full(j)' /\ urb'[j].status \in {"ok", "killed"}
             \/ urb'[j].status \in {"stall", "gone"} /\ reapStatus' # "completed"
    <2>1. CASE j = i
        BY <1>1, <1>4, <2>1, BulkNormalIsFull
    <2>2. CASE j # i
        BY <1>1, <1>4, <2>2 DEF ReportIsTrue, NormalIsFull
    <2> QED BY <2>1, <2>2
<1>5. ASSUME Normal', kind = "bulk"
      PROVE  i = retired + 1 /\ transferred = Start(i) /\ transferred' = transferred + Size(i)
    <2>1. Full(i)
        BY <1>1, <1>5, BulkNormalIsFull DEF Normal
    <2>2. transferred' = transferred + urb[i].actual
        BY <1>5, BulkCases
    <2> QED BY <1>2, <1>5, <2>1, <2>2, NormalIsNext DEF Full
<1>6. ASSUME Normal', kind = "iso", ~CancelLostDevice
      PROVE  i = retired + 1 /\ transferred = Start(i) /\ transferred' = transferred + Size(i)
    BY <1>2, <1>6, IsoInPlace
<1>7. ASSUME Normal', retired' < Num', kind' = "bulk" \/ (kind' = "iso" /\ ~CancelLostDevice')
      PROVE  transferred' = Start(retired + 1)'
    <2>1. i = retired + 1 /\ transferred = Start(i) /\ transferred' = transferred + Size(i)
        BY <1>1, <1>5, <1>6, <1>7
    <2>2. i < Num /\ retired' + 1 = i + 1
        BY <1>1, <1>3, <1>7, <2>1
    <2>3. Start(i + 1) = Start(i) + Size(i)
        BY <1>1, <2>2, Layout
    <2>4. Start(retired + 1)' = Start(retired' + 1)
        BY <1>1 DEF Start
    <2> QED BY <2>1, <2>2, <2>3, <2>4
<1>8. ASSUME Normal', kind' = "iso", ~CancelLostDevice', NEW p \in 1..transferred'
      PROVE  buffer'[p] = p
    BY <1>1, <1>2, <1>8, IsoInPlace
<1> QED BY <1>4, <1>7, <1>8 DEF NormalIsFull

\* handle_bulk_completion(): what is taken for short without being it was discarded for a
\* cancellation that lost the device.
LEMMA LessIsShort ==
    ASSUME UsbfsAssumption, UsbfsInv, ReportIsTrue, Handle, kind = "bulk", Normal,
           urb[event.urb].status \in {"ok", "short", "killed"}, urb[event.urb].actual < Size(event.urb)
    PROVE  CancelLostDevice \/ IsShort
<1> DEFINE i == event.urb
<1>1. /\ i \in 1..Num /\ i \in DOMAIN urb /\ urb[i].at = "reaped" /\ ~Cancelling /\ event.urb = i
    BY HandleMoves
<1>2. CASE urb[i].status \in {"ok", "short"}
    BY <1>1, <1>2 DEF IsShort
<1>3. CASE urb[i].status = "killed"
    <2>1. SUFFICES ASSUME NEW j \in DOMAIN urb, Earlier(j, i), urb[j].status \in Failures
                   PROVE  FALSE
        BY <1>1, <1>3 DEF ReportIsTrue, FailureIsKnown
    <2>2. \A b \in DOMAIN done : done[b] # i
        BY <1>1, DoneOnce
    <2>3. j \in Handled
        BY <1>1, <2>1, <2>2 DEF Earlier
    <2>4. urb[j].status \in {"ok", "killed"}
        BY <2>1, <2>3 DEF Normal, ReportIsTrue, NormalIsFull
    <2> QED BY <2>1, <2>4 DEF Failures
<1> QED BY <1>2, <1>3

\* num_retired: when the last URB is handled, the kernel has forgotten none.
LEMMA LastForgetsNone ==
    ASSUME UsbfsAssumption, UsbfsInv, ReportIsTrue, Handle, retired + 1 = Num
    PROVE  \A j \in 1..submitted : urb[j].at # "none"
<1> DEFINE i == event.urb
           S == Handled \cup {i}
           T == 1..submitted
<1>1. /\ i \in DOMAIN urb /\ urb[i].at = "reaped" /\ i \in 1..submitted /\ i \notin Handled
      /\ retired = Cardinality(Handled) + (Num - submitted) /\ Handled \in SUBSET (1..MaxUrbs)
    BY HandleMoves
<1>2. /\ Num \in Nat /\ submitted \in 0..Num /\ submitted \in 0..MaxUrbs /\ MaxUrbs \in Nat /\ Handled \subseteq 1..submitted
    BY NumIsBounded, DataIsSubmitted
<1>3. SUFFICES ASSUME NEW j \in 1..submitted, urb[j].at = "none"
               PROVE  FALSE
    OBVIOUS
<1>4. j \notin Handled /\ j # i
    BY <1>1, <1>3 DEF Handled
<1>5. IsFiniteSet(T) /\ Cardinality(T) = submitted
    <2>1. 1 \in Int /\ submitted \in Int /\ submitted > 0
        BY <1>2, <1>3
    <2>2. IsFiniteSet(T) /\ Cardinality(T) = IF 1 > submitted THEN 0 ELSE submitted - 1 + 1
        BY <2>1, FS_Interval
    <2> QED BY <2>1, <2>2
<1>6. IsFiniteSet(T \ {j}) /\ Cardinality(T \ {j}) = submitted - 1
    BY <1>3, <1>5, FS_RemoveElement
<1>7. S \subseteq T \ {j}
    BY <1>1, <1>2, <1>4
<1>8. Cardinality(S) <= submitted - 1
    BY <1>6, <1>7, FS_Subset
<1>9. Cardinality(S) = Cardinality(Handled) + 1 /\ Cardinality(Handled) \in Nat
    <2> HIDE DEF i
    <2> QED BY <1>1, UrbsCount
<1> DEFINE c == Cardinality(Handled)
<1>10. c + 1 <= submitted - 1 /\ c \in Nat /\ retired = c + (Num - submitted) /\ retired + 1 = Num
    BY <1>1, <1>8, <1>9
<1>11. submitted \in Nat
    BY <1>2
<1> HIDE DEF c, S, T, i
<1> QED BY <1>2, <1>10, <1>11

\* handle_bulk_completion(), handle_iso_completion(), handle_control_completion(): they
\* report a completion for a reason.
LEMMA HandleEndHasReason ==
    ASSUME UsbfsAssumption, UsbfsInv, ReportIsTrue, Handle
    PROVE  EndHasReason'
<1> DEFINE i == event.urb
           Reason == \/ CancelLostDevice \/ IsShort \/ FailedBeforeContinuation
                     \/ \E j \in 1..submitted : urb[j].at = "none"
<1>1. /\ i \in 1..Num /\ i \in DOMAIN urb /\ held /\ holder = "none" /\ retired \in Nat
      /\ UNCHANGED <<kind, length, mode, urb, submitted, asked, gone>> /\ Num' = Num
      /\ \A j : Start(j)' = Start(j) /\ Size(j)' = Size(j) /\ (Full(j)' <=> Full(j))
      /\ (reapStatus' = "completed" => reapStatus = "completed")
      /\ event \in Events
    BY HandleMoves, BackIsNoLock
<1>2. /\ CancelLostDevice' = CancelLostDevice /\ IsShort' = IsShort
      /\ FailedBeforeContinuation' = FailedBeforeContinuation
    BY <1>1 DEF CancelLostDevice, IsShort, FailedBeforeContinuation
<1>3. ASSUME NEW st, Finish(st)
      PROVE  ~held' /\ event'.at = "complete" /\ event'.status = st
    BY <1>1, <1>3 DEF Finish, Events
<1>4. Continue => event'.at # "complete"
    BY BackIsNoLock DEF Continue
<1>5. CancelRest(i) => event'.at = "discard"
    BY <1>1 DEF CancelRest, Events
<1>6. ASSUME held', kind = "bulk", reapAction' = "early", reapStatus' = "completed"
      PROVE  Reason
    <2>1. CASE reapAction = "normal"
        <3>1. CancelRest(i) /\ urb[i].status \in {"ok", "short", "killed"} /\ urb[i].actual < Size(i)
            BY <1>3, <1>6, <2>1, BulkCases
        <3>2. Normal
            BY <1>1, <1>6, <2>1 DEF Normal
        <3> QED BY <1>6, <3>1, <3>2, LessIsShort
    <2>2. CASE reapAction # "normal"
        <3>1. reapAction = "early" /\ reapStatus = "completed"
            BY <1>1, <1>6, <2>2, BulkCases
        <3> QED BY <1>1, <1>6, <3>1 DEF ReportIsTrue, EndHasReason
    <2> QED BY <2>1, <2>2
<1>7. ASSUME event'.at = "complete", event'.status = "completed", ~CancelLostDevice
      PROVE  IsCompleted'
    <2>1. CASE kind = "bulk"
        <3>1. /\ retired + 1 = Num /\ reapStatus = "completed"
              /\ \/ reapAction = "normal" /\ urb[i].status \in {"ok", "short", "killed"}
                 \/ reapAction = "early"
            BY <1>1, <1>3, <1>4, <1>5, <1>7, <2>1, BulkCases
        <3>2. transferred' = length \/ IsShort \/ FailedBeforeContinuation
            <4>1. CASE reapAction = "early"
                BY <1>1, <1>7, <2>1, <3>1, <4>1, LastForgetsNone DEF ReportIsTrue, EndHasReason
            <4>2. CASE reapAction = "normal" /\ urb[i].status \in {"ok", "short", "killed"}
                <5>1. Normal
                    BY <1>1, <3>1, <4>2 DEF Normal
                <5>2. CASE urb[i].actual < Size(i)
                    BY <1>7, <2>1, <4>2, <5>1, <5>2, LessIsShort
                <5>3. CASE ~(urb[i].actual < Size(i))
                    <6>1. Full(i)
                        <7>1. urb[i] \in Urbs
                            BY <1>1, NumIsBounded
                        <7>2. urb[i].actual \in Nat /\ urb[i].actual <= Size(i) /\ Size(i) \in Nat
                            BY <1>1, <7>1, Layout DEF ReportIsTrue, DataTypeOK, Urbs
                        <7>3. urb[i].actual = Size(i)
                            BY <5>3, <7>2
                        <7> QED BY <4>2, <7>3 DEF Full
                    <6>2. i = Num /\ transferred = Start(i)
                        BY <2>1, <3>1, <5>1, <6>1, NormalIsNext
                    <6>3. transferred' = transferred + Size(i)
                        BY <2>1, <6>1, BulkCases DEF Full
                    <6> QED BY <6>2, <6>3, Layout
                <5> QED BY <5>2, <5>3
            <4> QED BY <3>1, <4>1, <4>2
        <3> QED BY <1>1, <1>2, <2>1, <3>2 DEF IsCompleted
    <2>2. CASE kind = "iso"
        <3>1. retired + 1 = Num /\ reapAction = "normal"
            BY <1>3, <1>4, <1>7, <2>2, OtherCases
        <3>2. Normal
            BY <1>1, <2>2, <3>1 DEF Normal, ReportIsTrue, RetiredAreHandled
        <3>3. i = Num /\ transferred' = Start(i) + Size(i) /\ \A p \in 1..transferred' : buffer'[p] = p
            BY <1>7, <2>2, <3>1, <3>2, IsoInPlace
        <3>4. transferred' = length
            BY <3>3, Layout
        <3> QED BY <1>1, <2>2, <3>3, <3>4 DEF IsCompleted
    <2>3. CASE kind = "control"
        <3>1. ControlStatus(urb[i].status) = "completed"
            BY <1>3, <1>7, <2>3, OtherCases
        <3>2. urb[i].status = "ok"
            <4>1. urb[i].status \in UrbStatuses
                BY <1>1, NumIsBounded DEF Urbs
            <4> QED BY <3>1, <4>1 DEF ControlStatus, UrbStatuses
        <3>3. i = 1
            BY <1>1, <2>3, NumIsBounded
        <3> QED BY <1>1, <2>3, <3>2, <3>3 DEF IsCompleted
    <2> QED BY <2>1, <2>2, <2>3 DEF UsbfsInv, UsbfsTypeOK, Kinds
<1> QED BY <1>1, <1>2, <1>6, <1>7 DEF EndHasReason

\* A URB is handled.
LEMMA HandleIsTrue ==
    ASSUME UsbfsAssumption, UsbfsInv, ReportIsTrue, Handle
    PROVE  /\ DataTypeOK' /\ RetiredAreHandled' /\ CancelKnowsWhy' /\ FailureIsKnown' /\ OrderIsKept'
           /\ NormalIsFull' /\ DataFollows' /\ DataComesInOrder' /\ EndHasReason' /\ CompletedIsTrue'
<1>1. DataFollows'
    <2>1. UNCHANGED <<kind, gone>>
        BY HandleMoves
    <2>2. CASE kind = "bulk" /\ ~gone
        BY <2>2, BulkDataFollows
    <2>3. CASE ~(kind = "bulk" /\ ~gone)
        BY <2>1, <2>3 DEF DataFollows
    <2> QED BY <2>2, <2>3
<1> QED BY <1>1, HandleRest, HandleTypeOK, HandleNormalIsFull, HandleEndHasReason

-----------------------------------------------------------------------------
(* What is reported *)

\* When a transfer is reported nothing waits to be handled: what was sent is in place.
LEMMA WholeAtEnd == UsbfsAssumption /\ UsbfsInv /\ DataTypeOK /\ DataFollows => DataIsWhole
<1> SUFFICES ASSUME UsbfsAssumption, UsbfsInv, DataTypeOK, DataFollows, Reported, kind = "bulk", ~gone
             PROVE  transferred = sent /\ \A p \in 1..sent : buffer[p] = p
    BY DEF DataIsWhole
<1>1. ~held /\ InKernel = {}
    BY DEF Reported, UsbfsInv, FlightIsKnown, UrbsOutliveKernel
<1>2. event.at # "lock"
    BY <1>1 DEF UsbfsInv, EventsAreInPlace
<1>3. Waiting = {}
    BY <1>1, <1>2 DEF Waiting, InKernel
<1> QED BY <1>3 DEF DataFollows

\* Every step keeps it.
LEMMA StepIsTrue ==
    ASSUME UsbfsAssumption, UsbfsInv, ReportIsTrue, [Next]_vars
    PROVE  ReportIsTrue'
<1> DEFINE Rest == /\ DataTypeOK' /\ RetiredAreHandled' /\ CancelKnowsWhy' /\ FailureIsKnown' /\ OrderIsKept'
                   /\ NormalIsFull' /\ DataFollows' /\ DataComesInOrder' /\ EndHasReason' /\ CompletedIsTrue'
<1>0. UsbfsInv' /\ UsbfsAssumption'
    BY StepKeeps DEF UsbfsAssumption
<1>1. SUFFICES Rest
    <2>1. (UsbfsAssumption /\ UsbfsInv /\ DataTypeOK /\ DataFollows)' => DataIsWhole'
        BY WholeAtEnd, PTL
    <2> QED BY <1>0, <2>1 DEF ReportIsTrue
<1>2. CASE (PollError \/ Disconnect) \/ UNCHANGED vars
    BY <1>2, DisconnectIsTrue
<1>3. ASSUME NEW k \in Kinds, NEW len \in 0..MaxLength, Submit(k, len)
      PROVE  Rest
    BY <1>0, <1>3, SubmitIsTrue DEF ReportIsTrue
<1>4. CASE SubmitRefused
    BY <1>4, SubmitRefusedIsTrue
<1>5. CASE SubmitStep
    BY <1>0, <1>5, SubmitUrbIsTrue, SubmitDiscardedIsTrue, SubmitUrbFailsIsTrue DEF SubmitStep
<1>6. ASSUME NEW reason \in {"user", "timeout"}, Cancel(reason)
      PROVE  Rest
    BY <1>6, CancelIsTrue
<1>7. ASSUME NEW n \in 0..MaxLength, DiscardUrb(n)
      PROVE  Rest
    BY <1>0, <1>7, DiscardUrbIsTrue
<1>8. CASE CancelEnds
    BY <1>8, CancelEndsIsTrue
<1>9. CASE Reap \/ Handle \/ HandleDiscarded \/ Complete
    BY <1>0, <1>9, ReapIsTrue, HandleIsTrue, HandleDiscardedIsTrue, CompleteIsTrue
<1>10. CASE KernelStep \/ Unplug
    BY <1>0, <1>10, UnlinkIsTrue, UnplugIsTrue DEF KernelStep
<1>11. ASSUME NEW i \in 1..MaxUrbs, NEW st \in {"ok", "short", "stall", "bus", "overflow"},
              NEW n \in 0..MaxLength, n <= Size(i), Answer(i, st, n)
       PROVE  Rest
    BY <1>0, <1>11, AnswerIsTrue
<1> HIDE DEF Rest
<1> QED BY <1>2, <1>3, <1>4, <1>5, <1>6, <1>7, <1>8, <1>9, <1>10, <1>11 DEF Next, EventStep

\* handle_bulk_completion(), handle_iso_completion(), handle_control_completion(): however
\* a transfer is split, fails, is short, is cancelled or loses its device, the buffer of a
\* bulk transfer holds what the device sent in order and without holes, and a transfer is
\* reported as completed only if its URBs completed it, but for the two cases the
\* definition names.
THEOREM UsbfsReportIsTrue == Spec => []ReportIsTrue
<1>1. Init => UsbfsInv /\ ReportIsTrue
    BY UsbfsAssumption, InitHolds, InitIsTrue
<1>2. (UsbfsInv /\ ReportIsTrue) /\ [Next]_vars => (UsbfsInv /\ ReportIsTrue)'
    BY UsbfsAssumption, StepKeeps, StepIsTrue
<1> QED BY <1>1, <1>2, PTL DEF Spec
=============================================================================
