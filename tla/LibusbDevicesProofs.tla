------------------------- MODULE LibusbDevicesProofs -------------------------
(***************************************************************************)
(* Proofs about LibusbDevices, for any number of objects, callbacks and    *)
(* changes: an object's reference count is the number of those who keep it.*)
(* A step moves a reference from one holder to another, takes one or gives *)
(* one back; the lemmas about counts say so of the objects alone, those    *)
(* about steps and messages who holds what then.                           *)
(***************************************************************************)
EXTENDS LibusbDevices, FiniteSetTheorems, SequenceTheorems, TLAPS

Records == [dev : Devices, state : {"unused", "live", "freed"}, refs : Nat,
            attached : BOOLEAN, there : BOOLEAN, parent : {0} \cup Object]

\* A parent is a hub's object, and its children are devices.
Family(objs) == \A o \in Object : objs[o].state = "live" /\ objs[o].parent # 0 =>
                    objs[o].dev = Device /\ objs[objs[o].parent].dev = Hub

\* There are finitely many objects on one.
LEMMA ChildrenAreFinite ==
    ASSUME DevicesAssumption, NEW objs, NEW o
    PROVE  /\ IsFiniteSet(Children(objs, o)) /\ Cardinality(Children(objs, o)) \in Nat
           /\ Cardinality(Children(objs, o)) = 0 <=> Children(objs, o) = {}
<1>1. IsFiniteSet(Object) /\ Children(objs, o) \subseteq Object
    BY FS_Interval DEF DevicesAssumption, Object, Children
<1> QED BY <1>1, FS_Subset, FS_CardinalityType, FS_EmptySet

\* One more object on another, and one less.
LEMMA ChildAdded ==
    ASSUME DevicesAssumption, NEW objs, NEW objs2, NEW o, NEW c,
           Children(objs2, o) = Children(objs, o) \cup {c}, c \notin Children(objs, o)
    PROVE  Cardinality(Children(objs2, o)) = Cardinality(Children(objs, o)) + 1
BY ChildrenAreFinite, FS_AddElement

\* One device less on an object, of which there was one.
LEMMA ChildRemoved ==
    ASSUME DevicesAssumption, NEW objs, NEW objs2, NEW o, NEW c,
           Children(objs2, o) = Children(objs, o) \ {c}, c \in Children(objs, o)
    PROVE  /\ Cardinality(Children(objs2, o)) = Cardinality(Children(objs, o)) - 1
           /\ Cardinality(Children(objs, o)) > 0
<1>1. Cardinality(Children(objs2, o)) = Cardinality(Children(objs, o)) - 1
    BY ChildrenAreFinite, FS_RemoveElement
<1> QED BY <1>1, ChildrenAreFinite

\* Who is held is live.
LEMMA HeldIsLive ==
    ASSUME DevicesAssumption, NEW objs, NEW h \in [Object -> Nat], Counts(objs, h), NEW x \in Object
    PROVE  /\ h[x] > 0 => objs[x].state = "live"
           /\ \A c \in Object : objs[c].state = "live" /\ objs[c].parent = x => objs[x].state = "live"
<1>1. h[x] > 0 => objs[x].state = "live"
    BY DEF Counts
<1>2. ASSUME NEW c \in Object, objs[c].state = "live", objs[c].parent = x
      PROVE  objs[x].state = "live"
    <2>1. c \in Children(objs, x)
        BY <1>2 DEF Children
    <2> QED BY <2>1 DEF Counts
<1> QED BY <1>1, <1>2

\* Counts depends on the states, the counts and the parents.
LEMMA CountsSame ==
    ASSUME NEW objs \in [Object -> Records], NEW objs2, NEW h, Counts(objs, h),
           \A o \in Object : /\ objs2[o].state = objs[o].state /\ objs2[o].refs = objs[o].refs
                             /\ objs2[o].parent = objs[o].parent
    PROVE  Counts(objs2, h)
<1>1. \A o \in Object : Children(objs2, o) = Children(objs, o)
    BY DEF Children
<1> QED BY <1>1 DEF Counts

\* A record stays one.
LEMMA RefTypes ==
    ASSUME NEW objs \in [Object -> Records], NEW x \in Object
    PROVE  Ref(objs, x) \in [Object -> Records]
BY DEF Ref, Records

\* What libusb_ref_device() does, to cite it of named things.
RefTaken(objs, x, r, more) ==
    /\ r \in [Object -> Records] /\ Counts(r, more)
    /\ \A o \in Object : /\ r[o].state = objs[o].state /\ r[o].dev = objs[o].dev
                         /\ r[o].attached = objs[o].attached
                         /\ r[o].parent = objs[o].parent

\* One more reference.
LEMMA RefIs ==
    ASSUME NEW objs \in [Object -> Records], NEW h \in [Object -> Nat], Counts(objs, h),
           DevicesAssumption, NEW x \in Object, objs[x].state = "live",
           NEW r, r = Ref(objs, x), NEW more, more = [h EXCEPT ![x] = @ + 1]
    PROVE  RefTaken(objs, x, r, more)
<1>1. r \in [Object -> Records]
    BY RefTypes
<1>2. \A o \in Object : /\ r[o].state = objs[o].state /\ r[o].dev = objs[o].dev
                        /\ r[o].attached = objs[o].attached /\ r[o].parent = objs[o].parent
                        /\ r[o].refs = IF o = x THEN objs[o].refs + 1 ELSE objs[o].refs
    BY DEF Ref, Records
<1>3. \A o \in Object : Children(r, o) = Children(objs, o)
    BY <1>2 DEF Children
<1>4. ASSUME NEW o \in Object PROVE Cardinality(Children(objs, o)) \in Nat /\ objs[o].refs \in Nat
    BY ChildrenAreFinite DEF Records
<1>5. \A o \in Object : more[o] \in Nat /\ more[o] = IF o = x THEN h[o] + 1 ELSE h[o]
    OBVIOUS
<1>6. ASSUME NEW o \in Object
      PROVE  IF r[o].state = "live"
             THEN r[o].refs > 0 /\ r[o].refs = more[o] + Cardinality(Children(r, o))
             ELSE more[o] = 0 /\ Children(r, o) = {}
    <2>1. CASE r[o].state = "live"
        <3>1. objs[o].refs > 0 /\ objs[o].refs = h[o] + Cardinality(Children(objs, o))
            BY <1>2, <2>1 DEF Counts
        <3>2. h[o] \in Nat /\ Children(r, o) = Children(objs, o)
            BY <1>3
        <3>3. /\ r[o].refs = IF o = x THEN objs[o].refs + 1 ELSE objs[o].refs
              /\ more[o] = IF o = x THEN h[o] + 1 ELSE h[o]
            BY <1>2, <1>5
        <3>4. CASE o = x
            BY <1>4, <2>1, <3>1, <3>2, <3>3, <3>4
        <3>5. CASE o # x
            BY <1>4, <2>1, <3>1, <3>2, <3>3, <3>5
        <3> QED BY <3>4, <3>5
    <2>2. CASE r[o].state # "live"
        <3>1. h[o] = 0 /\ Children(objs, o) = {} /\ o # x
            BY <1>2, <2>2 DEF Counts
        <3> QED BY <1>3, <1>5, <2>2, <3>1
    <2> QED BY <2>1, <2>2
<1>7. Counts(r, more)
    BY <1>6 DEF Counts
<1> QED BY <1>1, <1>2, <1>7 DEF RefTaken

\* One reference less.  One who is freed leaves its reference to its parent.
Dropped(objs, h, x, d, less, p) ==
    /\ d \in [Object -> Records] /\ less \in [Object -> Nat] /\ objs[x].state = "live"
    /\ IF objs[x].refs > 1 \/ p = 0 THEN Counts(d, less)
       ELSE p \in Object /\ p # x /\ Counts(d, [less EXCEPT ![p] = @ + 1])
    /\ \A o \in Object : /\ d[o].dev = objs[o].dev /\ d[o].attached = objs[o].attached
                         /\ d[o].parent = objs[o].parent
                         /\ o # x => d[o] = objs[o]
    /\ d[x].state = IF objs[x].refs > 1 THEN "live" ELSE "freed"

\* The reference taken away is accounted for, that of a parent not yet.
LEMMA DropCounts ==
    ASSUME NEW objs \in [Object -> Records], NEW h \in [Object -> Nat], Counts(objs, h),
           DevicesAssumption, NEW x \in Object, h[x] > 0
    PROVE  Dropped(objs, h, x, Drop(objs, x), [h EXCEPT ![x] = @ - 1], objs[x].parent)
<1> DEFINE d == Drop(objs, x)
           less == [h EXCEPT ![x] = @ - 1]
           p == objs[x].parent
<1>1. objs[x].state = "live" /\ objs[x].refs > 0 /\ objs[x].refs = h[x] + Cardinality(Children(objs, x))
    BY DEF Counts
<1>2. /\ d \in [Object -> Records] /\ less \in [Object -> Nat]
      /\ \A o \in Object : /\ d[o].dev = objs[o].dev /\ d[o].attached = objs[o].attached
                           /\ d[o].parent = objs[o].parent
                           /\ o # x => d[o] = objs[o]
      /\ objs[x].refs > 1 => d[x].state = "live" /\ d[x].refs = objs[x].refs - 1
      /\ ~(objs[x].refs > 1) => d[x].state = "freed" /\ d[x].refs = 0
    <2>1. CASE objs[x].refs > 1
        <3>1. d = [objs EXCEPT ![x].refs = @ - 1]
            BY <2>1 DEF Drop
        <3> HIDE DEF d
        <3> QED BY <1>1, <2>1, <3>1 DEF Records
    <2>2. CASE ~(objs[x].refs > 1)
        <3> DEFINE zero == [objs[x] EXCEPT !.refs = 0]
                   freed == [zero EXCEPT !.state = "freed"]
        <3>1. d = [objs EXCEPT ![x] = freed]
            BY <2>2 DEF Drop
        <3>2. /\ freed \in Records /\ freed.state = "freed" /\ freed.refs = 0
              /\ freed.dev = objs[x].dev /\ freed.attached = objs[x].attached
              /\ freed.parent = objs[x].parent
            <4>1. /\ zero \in Records /\ zero.refs = 0 /\ zero.dev = objs[x].dev
                  /\ zero.attached = objs[x].attached /\ zero.parent = objs[x].parent
                BY DEF Records
            <4> HIDE DEF zero
            <4> QED BY <4>1 DEF Records
        <3> HIDE DEF d, freed
        <3> QED BY <2>2, <3>1, <3>2
    <2> QED BY <2>1, <2>2
<1>3. /\ \A o \in Object : /\ d[o].dev = objs[o].dev /\ d[o].attached = objs[o].attached
                           /\ d[o].parent = objs[o].parent
                           /\ o # x => d[o] = objs[o]
      /\ objs[x].refs > 1 => d[x].state = "live" /\ d[x].refs = objs[x].refs - 1
      /\ ~(objs[x].refs > 1) => d[x].state = "freed" /\ d[x].refs = 0
    BY <1>2
<1> HIDE DEF d
<1>7. d[x].state = (IF objs[x].refs > 1 THEN "live" ELSE "freed")
    BY <1>3
<1>4. ASSUME NEW o \in Object
      PROVE  Cardinality(Children(objs, o)) \in Nat /\ objs[o].refs \in Nat /\ h[o] \in Nat
             /\ (Cardinality(Children(objs, o)) = 0 <=> Children(objs, o) = {})
    BY ChildrenAreFinite DEF Records
<1>5. CASE objs[x].refs > 1
    <2>1. \A o \in Object : Children(d, o) = Children(objs, o)
        BY <1>1, <1>3, <1>5 DEF Children
    <2>2. Counts(d, less)
        <3> SUFFICES ASSUME NEW o \in Object
                     PROVE  IF d[o].state = "live"
                            THEN d[o].refs > 0 /\ d[o].refs = less[o] + Cardinality(Children(d, o))
                            ELSE less[o] = 0 /\ Children(d, o) = {}
            BY DEF Counts
        <3>1. CASE o = x
            BY <1>1, <1>3, <1>4, <1>5, <2>1, <3>1
        <3>2. CASE o # x
            BY <1>3, <2>1, <3>2 DEF Counts
        <3> QED BY <3>1, <3>2
    <2> QED BY <1>1, <1>2, <1>3, <1>5, <1>7, <2>2 DEF Dropped, d
<1>6. CASE ~(objs[x].refs > 1)
    <2>1. h[x] = 1 /\ Children(objs, x) = {}
        <3>1. objs[x].refs = 1
            BY <1>1, <1>4, <1>6
        <3> QED BY <1>1, <1>4, <3>1
    <2>2. \A o \in Object : Children(d, o) = Children(objs, o) \ {x}
        BY <1>3, <1>6 DEF Children
    <2>3. \A o \in Object : o # p => Children(d, o) = Children(objs, o)
        BY <2>2 DEF Children
    <2>4. p # x /\ less[x] = 0 /\ Children(d, x) = {}
        BY <1>1, <2>1, <2>2 DEF Children
    <2>5. CASE p = 0
        <3>1. \A o \in Object : Children(d, o) = Children(objs, o)
            BY <2>3, <2>5 DEF Object
        <3>2. Counts(d, less)
            BY <1>3, <1>6, <2>4, <3>1 DEF Counts
        <3> QED BY <1>1, <1>2, <1>3, <1>6, <1>7, <2>5, <3>2 DEF Dropped, d
    <2>6. CASE p # 0
        <3>1. p \in Object /\ x \in Children(objs, p)
            BY <1>1, <2>6 DEF Records, Children
        <3>2. objs[p].state = "live" /\ objs[p].refs = h[p] + Cardinality(Children(objs, p)) /\ objs[p].refs > 0
            BY <3>1 DEF Counts
        <3>3. Cardinality(Children(d, p)) = Cardinality(Children(objs, p)) - 1
            BY <2>2, <3>1, ChildRemoved
        <3> DEFINE more == [less EXCEPT ![p] = @ + 1]
        <3>4. Counts(d, more)
            <4> SUFFICES ASSUME NEW o \in Object
                         PROVE  IF d[o].state = "live"
                                THEN d[o].refs > 0 /\ d[o].refs = more[o] + Cardinality(Children(d, o))
                                ELSE more[o] = 0 /\ Children(d, o) = {}
                BY DEF Counts
            <4>1. CASE o = x
                BY <1>3, <1>6, <2>4, <3>1, <4>1, <1>2
            <4>2. CASE o = p
                <5>1. more[p] = h[p] + 1 /\ d[p] = objs[p]
                    BY <1>2, <1>3, <2>4, <3>1
                <5> QED BY <1>4, <3>1, <3>2, <3>3, <4>2, <5>1
            <4>3. CASE o # x /\ o # p
                <5>1. more[o] = h[o] /\ d[o] = objs[o] /\ Children(d, o) = Children(objs, o)
                    BY <1>2, <1>3, <2>3, <3>1, <4>3
                <5> QED BY <5>1 DEF Counts
            <4> QED BY <4>1, <4>2, <4>3
        <3> QED BY <1>1, <1>2, <1>3, <1>6, <1>7, <2>4, <2>6, <3>1, <3>4 DEF Dropped, d
    <2> QED BY <2>5, <2>6
<1> QED BY <1>5, <1>6

\* libusb_unref_device() takes a reference and nothing else from the account.
Unreffed(objs, x, u) ==
    /\ u \in [Object -> Records] /\ Family(u)
    /\ \A o \in Object : /\ u[o].dev = objs[o].dev /\ u[o].attached = objs[o].attached
                         /\ u[o].parent = objs[o].parent
                         /\ u[o].state = "live" => objs[o].state = "live"
                         /\ u[o].state # "live" /\ objs[o].state = "live" =>
                              objs[o].refs = 1 /\ o \in {x, objs[x].parent}

\* libusb_unref_device() by a holder keeps the account, the parent's reference included.
LEMMA UnrefCounts ==
    ASSUME NEW objs \in [Object -> Records], NEW h \in [Object -> Nat], Counts(objs, h), Family(objs),
           DevicesAssumption, NEW x \in Object, h[x] > 0,
           NEW u, u = Unref(objs, x), NEW less, less = [h EXCEPT ![x] = @ - 1]
    PROVE  Unreffed(objs, x, u) /\ Counts(u, less)
<1> DEFINE p == objs[x].parent
           d == Drop(objs, x)
<1>1. /\ d \in [Object -> Records] /\ less \in [Object -> Nat] /\ objs[x].state = "live"
      /\ IF objs[x].refs > 1 \/ p = 0 THEN Counts(d, less)
         ELSE p \in Object /\ p # x /\ Counts(d, [less EXCEPT ![p] = @ + 1])
      /\ \A o \in Object : /\ d[o].dev = objs[o].dev /\ d[o].attached = objs[o].attached
                           /\ d[o].parent = objs[o].parent
                           /\ o # x => d[o] = objs[o]
      /\ d[x].state = IF objs[x].refs > 1 THEN "live" ELSE "freed"
    <2>1. Dropped(objs, h, x, d, less, p)
        BY DropCounts
    <2> QED BY <2>1 DEF Dropped
<1>2. objs[x].refs \in Nat /\ objs[x].refs > 0
    BY <1>1 DEF Counts, Records
<1> HIDE DEF d
<1>3. ASSUME NEW v, v \in [Object -> Records], Counts(v, less),
             \A o \in Object : /\ v[o].dev = objs[o].dev /\ v[o].attached = objs[o].attached
                               /\ v[o].parent = objs[o].parent
                               /\ v[o].state = "live" => objs[o].state = "live"
      PROVE  Family(v)
    BY <1>3 DEF Family, Records
<1>4. CASE objs[x].refs > 1 \/ p = 0
    <2>1. u = d
        BY <1>4 DEF Unref, d
    <2>2. Family(d)
        BY <1>1, <1>3, <1>4
    <2> QED BY <1>1, <1>2, <1>4, <2>1, <2>2 DEF Unreffed
<1>5. CASE ~(objs[x].refs > 1 \/ p = 0)
    <2> DEFINE more == [less EXCEPT ![p] = @ + 1]
               e == Drop(d, p)
    <2>1. u = e
        BY <1>5 DEF Unref, d
    <2>2. p \in Object /\ p # x /\ Counts(d, more) /\ more \in [Object -> Nat] /\ more[p] > 0
        BY <1>1, <1>5
    <2>3. d[p] = objs[p] /\ d[p].parent = 0
        <3>1. d[p] = objs[p]
            BY <1>1, <2>2
        <3>2. objs[p].dev = Hub
            BY <1>1, <1>5 DEF Family
        <3>3. d[p].state = "live"
            BY <2>2, HeldIsLive
        <3> QED BY <2>2, <3>1, <3>2, <3>3 DEF Family, DevicesAssumption
    <2> HIDE DEF more
    <2>4. /\ e \in [Object -> Records]
          /\ Counts(e, [more EXCEPT ![p] = @ - 1])
          /\ \A o \in Object : /\ e[o].dev = d[o].dev /\ e[o].attached = d[o].attached
                               /\ e[o].parent = d[o].parent
                               /\ o # p => e[o] = d[o]
          /\ d[p].state = "live"
          /\ e[p].state = IF d[p].refs > 1 THEN "live" ELSE "freed"
        <3>1. Dropped(d, more, p, e, [more EXCEPT ![p] = @ - 1], 0)
            BY <1>1, <2>2, <2>3, DropCounts
        <3> QED BY <3>1 DEF Dropped
    <2> HIDE DEF e
    <2>5. [more EXCEPT ![p] = @ - 1] = less
        BY <1>1, <2>2 DEF more
    <2>6. objs[p].refs \in Nat /\ objs[p].refs > 0
        <3>1. objs[p].state = "live"
            BY <2>3, <2>4
        <3> QED BY <2>2, <3>1 DEF Counts, Records
    <2>7. \A o \in Object : /\ e[o].dev = objs[o].dev /\ e[o].attached = objs[o].attached
                            /\ e[o].parent = objs[o].parent
                            /\ e[o].state = "live" => objs[o].state = "live"
                            /\ e[o].state # "live" /\ objs[o].state = "live" =>
                                 objs[o].refs = 1 /\ o \in {x, p}
        BY <1>1, <1>2, <1>5, <2>2, <2>3, <2>4, <2>6
    <2>8. Family(e)
        BY <1>3, <2>4, <2>5, <2>7
    <2> QED BY <1>1, <2>1, <2>4, <2>5, <2>7, <2>8 DEF Unreffed
<1> QED BY <1>4, <1>5

-----------------------------------------------------------------------------
(* Sequences *)

\* The first of a queue and what stays behind it.
LEMMA QueueFirst ==
    ASSUME NEW S, NEW q \in Seq(S), q # <<>>
    PROVE  /\ Head(q) = q[1] /\ q[1] \in S /\ 1 \in DOMAIN q /\ Tail(q) \in Seq(S)
           /\ \A i \in DOMAIN Tail(q) : i \in Nat /\ i + 1 \in DOMAIN q /\ Tail(q)[i] = q[i + 1] /\ 1 < i + 1
           /\ \A i \in DOMAIN q : i \in Nat /\ (i # 1 => i - 1 \in DOMAIN Tail(q) /\ Tail(q)[i - 1] = q[i])
OBVIOUS

\* A queue with one more behind it.
LEMMA QueueAdded ==
    ASSUME NEW S, NEW q \in Seq(S), NEW x \in S
    PROVE  /\ Append(q, x) \in Seq(S) /\ DOMAIN q = 1..Len(q) /\ Len(q) \in Nat
           /\ DOMAIN Append(q, x) = 1..(Len(q) + 1)
           /\ \A i \in DOMAIN q : i \in DOMAIN Append(q, x) /\ Append(q, x)[i] = q[i]
           /\ Append(q, x)[Len(q) + 1] = x
OBVIOUS

\* One or two in front of a queue.
LEMMA InFront ==
    ASSUME NEW S, NEW q \in Seq(S), NEW x \in S, NEW y \in S
    PROVE  /\ <<>> \o q = q
           /\ <<x>> \o q \in Seq(S) /\ DOMAIN (<<x>> \o q) = 1..(Len(q) + 1)
           /\ (<<x>> \o q)[1] = x /\ \A i \in DOMAIN q : i \in Nat /\ (<<x>> \o q)[i + 1] = q[i]
           /\ <<x, y>> \o q \in Seq(S) /\ DOMAIN (<<x, y>> \o q) = 1..(Len(q) + 2)
           /\ (<<x, y>> \o q)[1] = x /\ (<<x, y>> \o q)[2] = y
           /\ \A i \in DOMAIN q : i \in Nat /\ (<<x, y>> \o q)[i + 2] = q[i]
           /\ Len(q) \in Nat /\ DOMAIN q = 1..Len(q)
OBVIOUS

\* What a list is without its element i.
LEMMA RemoveAtIs ==
    ASSUME NEW S, NEW s \in Seq(S), NEW i \in 1..Len(s)
    PROVE  /\ RemoveAt(s, i) \in Seq(S) /\ Len(RemoveAt(s, i)) = Len(s) - 1
           /\ \A j \in 1..(Len(s) - 1) :
                RemoveAt(s, i)[j] = IF j < i THEN s[j] ELSE s[j + 1]
<1> DEFINE a == SubSeq(s, 1, i - 1)
           b == SubSeq(s, i + 1, Len(s))
<1>1. /\ Len(s) \in Nat /\ i \in Nat /\ i - 1 \in Nat /\ i + 1 \in Nat
      /\ i - 1 \in Int /\ i + 1 \in Int
    OBVIOUS
<1>2. /\ \A j \in 1..(i - 1) : s[j] \in S
      /\ \A j \in (i + 1)..Len(s) : s[j] \in S
    BY <1>1
<1>3. a \in Seq(S) /\ Len(a) = i - 1 /\ \A j \in 1..(i - 1) : a[j] = s[j]
  <2>1. /\ a \in Seq(S) /\ Len(a) = (IF 1 <= i - 1 THEN (i - 1) - 1 + 1 ELSE 0)
        /\ \A j \in 1..((i - 1) - 1 + 1) : a[j] = s[1 + j - 1]
    BY <1>1, <1>2, SubSeqProperties
  <2> HIDE DEF a
  <2> QED BY <1>1, <2>1
<1>4. b \in Seq(S) /\ Len(b) = Len(s) - i /\ \A j \in 1..(Len(s) - i) : b[j] = s[i + j]
  <2>1. /\ b \in Seq(S) /\ Len(b) = (IF i + 1 <= Len(s) THEN Len(s) - (i + 1) + 1 ELSE 0)
        /\ \A j \in 1..(Len(s) - (i + 1) + 1) : b[j] = s[(i + 1) + j - 1]
    BY <1>1, <1>2, SubSeqProperties
  <2> HIDE DEF b
  <2>2. Len(s) - (i + 1) + 1 = Len(s) - i /\ \A j \in 1..(Len(s) - i) : (i + 1) + j - 1 = i + j
    BY <1>1
  <2>3. Len(b) = Len(s) - i
    <3>1. CASE i + 1 <= Len(s)
        BY <2>1, <2>2, <3>1
    <3>2. CASE ~(i + 1 <= Len(s))
      <4>1. Len(s) - i = 0
        BY <1>1, <3>2
      <4> QED BY <2>1, <3>2, <4>1
    <3> QED BY <3>1, <3>2
  <2> QED BY <2>1, <2>2, <2>3
<1> HIDE DEF a, b
<1>5. /\ a \o b \in Seq(S) /\ Len(a \o b) = Len(a) + Len(b)
      /\ \A j \in 1..(Len(a) + Len(b)) :
           (a \o b)[j] = IF j <= Len(a) THEN a[j] ELSE b[j - Len(a)]
    BY <1>3, <1>4, ConcatProperties
<1>6. ASSUME NEW j \in 1..(Len(s) - 1)
      PROVE  (a \o b)[j] = IF j < i THEN s[j] ELSE s[j + 1]
    BY <1>1, <1>3, <1>4, <1>5
<1>7. RemoveAt(s, i) = a \o b
    BY DEF RemoveAt, a, b
<1>8. Len(a) + Len(b) = Len(s) - 1
    BY <1>1, <1>3, <1>4
<1> QED BY <1>5, <1>6, <1>7, <1>8

\* What is taken off a list is not on it any more, and the others are.
LEMMA RemovedIs ==
    ASSUME NEW list \in Seq(Object), IsInjective(list), NEW o
    PROVE  /\ Removed(list, o) \in Seq(Object) /\ IsInjective(Removed(list, o))
           /\ \A q : q \in Range(Removed(list, o)) <=> q \in Range(list) /\ q # o
<1>1. CASE o \notin Range(list)
    BY <1>1 DEF Removed, Range
<1>2. CASE o \in Range(list)
    <2> DEFINE k == CHOOSE i \in DOMAIN list : list[i] = o
               new == RemoveAt(list, k)
               n == Len(list)
    <2>1. k \in DOMAIN list /\ list[k] = o
        BY <1>2 DEF Range
    <2>2. Removed(list, o) = new
        BY <1>2 DEF Removed
    <2> HIDE DEF k
    <2>3. n \in Nat /\ k \in 1..n /\ DOMAIN list = 1..n
        BY <2>1
    <2>4. /\ new \in Seq(Object) /\ DOMAIN new = 1..(n - 1)
          /\ \A i \in 1..(n - 1) : new[i] = IF i < k THEN list[i] ELSE list[i + 1]
        BY <2>3, RemoveAtIs
    <2> HIDE DEF new, n
    <2>5. IsInjective(new)
        <3> SUFFICES ASSUME NEW a \in 1..(n - 1), NEW b \in 1..(n - 1), new[a] = new[b] PROVE a = b
            BY <2>4 DEF IsInjective
        <3> DEFINE c == IF a < k THEN a ELSE a + 1
                   e == IF b < k THEN b ELSE b + 1
        <3>1. c \in 1..n /\ e \in 1..n
            BY <2>3
        <3>2. list[c] = list[e]
            BY <2>4
        <3>3. c = e
            BY <2>3, <3>1, <3>2 DEF IsInjective
        <3> QED BY <2>3, <3>3
    <2>6. ASSUME NEW q, q \in Range(new) PROVE q \in Range(list) /\ q # o
        <3>1. PICK i \in 1..(n - 1) : new[i] = q
            BY <2>4, <2>6 DEF Range
        <3>2. PICK j \in 1..n : j # k /\ list[j] = q
            BY <2>3, <2>4, <3>1
        <3> QED BY <2>1, <2>3, <3>2 DEF Range, IsInjective
    <2>7. ASSUME NEW q, q \in Range(list), q # o PROVE q \in Range(new)
        <3>1. PICK j \in 1..n : list[j] = q
            BY <2>3, <2>7 DEF Range
        <3>2. j # k
            BY <2>1, <2>7, <3>1
        <3>3. PICK i \in 1..(n - 1) : i = IF j < k THEN j ELSE j - 1
            BY <2>3, <3>2
        <3>4. new[i] = q
            BY <2>3, <2>4, <3>1, <3>2, <3>3
        <3> QED BY <2>4, <3>4 DEF Range
    <2> QED BY <2>2, <2>4, <2>5, <2>6, <2>7
<1> QED BY <1>1, <1>2

\* A list with one more in front, and without its first.
LEMMA ListIs ==
    ASSUME NEW list \in Seq(Object), IsInjective(list), NEW o \in Object
    PROVE  /\ <<o>> \o list \in Seq(Object)
           /\ \A q : q \in Range(<<o>> \o list) <=> q = o \/ q \in Range(list)
           /\ o \notin Range(list) => IsInjective(<<o>> \o list)
           /\ list # <<>> => /\ Tail(list) \in Seq(Object) /\ IsInjective(Tail(list))
                             /\ Head(list) \in Object /\ Head(list) \in Range(list)
                             /\ \A q : q \in Range(Tail(list)) <=> q \in Range(list) /\ q # Head(list)
<1>1. /\ <<o>> \o list \in Seq(Object) /\ DOMAIN (<<o>> \o list) = 1..(Len(list) + 1)
      /\ (<<o>> \o list)[1] = o /\ \A i \in DOMAIN list : i \in Nat /\ (<<o>> \o list)[i + 1] = list[i]
      /\ Len(list) \in Nat /\ DOMAIN list = 1..Len(list)
    BY InFront
<1>2. \A q : q \in Range(<<o>> \o list) <=> q = o \/ q \in Range(list)
    <2> DEFINE new == <<o>> \o list
    <2> HIDE DEF new
    <2>1. /\ DOMAIN new = 1..(Len(list) + 1) /\ new[1] = o /\ \A i \in DOMAIN list : new[i + 1] = list[i]
          /\ Len(list) \in Nat /\ DOMAIN list = 1..Len(list)
        BY <1>1 DEF new
    <2>2. ASSUME NEW q, q \in Range(new) PROVE q = o \/ q \in Range(list)
        <3>1. PICK i \in DOMAIN new : new[i] = q
            BY <2>2 DEF Range
        <3>2. i = 1 \/ i - 1 \in DOMAIN list
            BY <2>1
        <3>3. i - 1 \in DOMAIN list => list[i - 1] = q
            BY <2>1, <3>1
        <3> QED BY <2>1, <3>1, <3>2, <3>3 DEF Range
    <2>3. ASSUME NEW q, q = o \/ q \in Range(list) PROVE q \in Range(new)
        <3>1. CASE q = o
            BY <2>1, <3>1 DEF Range
        <3>2. CASE q \in Range(list)
            <4>1. PICK i \in DOMAIN list : list[i] = q
                BY <3>2 DEF Range
            <4>2. i + 1 \in DOMAIN new /\ new[i + 1] = q
                BY <2>1, <4>1
            <4> QED BY <4>2 DEF Range
        <3> QED BY <2>3, <3>1, <3>2
    <2> QED BY <2>2, <2>3 DEF new
<1>3. ASSUME o \notin Range(list) PROVE IsInjective(<<o>> \o list)
    <2> DEFINE new == <<o>> \o list
    <2> HIDE DEF new
    <2>1. /\ DOMAIN new = 1..(Len(list) + 1) /\ new[1] = o /\ \A i \in DOMAIN list : new[i + 1] = list[i]
          /\ Len(list) \in Nat /\ DOMAIN list = 1..Len(list)
        BY <1>1 DEF new
    <2>2. \A i \in DOMAIN new : i = 1 \/ (i - 1 \in DOMAIN list /\ new[i] = list[i - 1] /\ new[i] # o)
        <3> SUFFICES ASSUME NEW i \in DOMAIN new, i # 1
                     PROVE  i - 1 \in DOMAIN list /\ new[i] = list[i - 1] /\ new[i] # o
            OBVIOUS
        <3>1. i - 1 \in DOMAIN list /\ new[i] = list[i - 1]
            BY <2>1
        <3> QED BY <1>3, <3>1 DEF Range
    <2> QED BY <2>1, <2>2 DEF IsInjective, new
<1>4. ASSUME list # <<>>
      PROVE  /\ Tail(list) \in Seq(Object) /\ IsInjective(Tail(list))
             /\ Head(list) \in Object /\ Head(list) \in Range(list)
             /\ \A q : q \in Range(Tail(list)) <=> q \in Range(list) /\ q # Head(list)
    <2> DEFINE t == Tail(list)
    <2>1. /\ Head(list) = list[1] /\ list[1] \in Object /\ 1 \in DOMAIN list /\ t \in Seq(Object)
          /\ \A i \in DOMAIN t : i \in Nat /\ i + 1 \in DOMAIN list /\ t[i] = list[i + 1] /\ 1 < i + 1
          /\ \A i \in DOMAIN list : i \in Nat /\ (i # 1 => i - 1 \in DOMAIN t /\ t[i - 1] = list[i])
        BY <1>4, QueueFirst
    <2> HIDE DEF t
    <2>2. IsInjective(t)
        BY <2>1 DEF IsInjective
    <2>3. ASSUME NEW q, q \in Range(t) PROVE q \in Range(list) /\ q # list[1]
        <3>1. PICK i \in DOMAIN t : t[i] = q
            BY <2>3 DEF Range
        <3> QED BY <2>1, <3>1 DEF Range, IsInjective
    <2>4. ASSUME NEW q, q \in Range(list), q # list[1] PROVE q \in Range(t)
        <3>1. PICK i \in DOMAIN list : list[i] = q
            BY <2>4 DEF Range
        <3> QED BY <2>1, <2>4, <3>1 DEF Range
    <2> QED BY <2>1, <2>2, <2>3, <2>4 DEF t, Range
<1> QED BY <1>1, <1>2, <1>3, <1>4

-----------------------------------------------------------------------------
(* The steps that remain under the lock *)

Dos == {"add", "parent", "again", "connect", "arrived", "remove", "unlist", "left"}
Steps == [do : Dos, dev : Devices, o : {0} \cup Object]

\* StepIsPlaced of every step; who is in one; what waits below the first.
Placed(st) ==
    \A i \in DOMAIN st : \/ st[i].do = "add" \/ i = 1
                         \/ /\ i = 2 /\ st[i].do = "again"
                            /\ st[1].dev = Hub /\ st[1].do \in {"add", "connect", "arrived"}
In(st, o, dos) == \E i \in DOMAIN st : st[i].o = o /\ st[i].do \in dos
Below(st, s) == \E i \in DOMAIN st : i # 1 /\ st[i] = s

\* The first step is done, and new ones may take its place.
LEMMA StepDone ==
    ASSUME NEW st \in Seq(Steps), st # <<>>, Placed(st)
    PROVE  /\ <<>> \o Tail(st) \in Seq(Steps) /\ Placed(<<>> \o Tail(st))
           /\ \A s : (\E i \in DOMAIN (<<>> \o Tail(st)) : (<<>> \o Tail(st))[i] = s) <=> Below(st, s)
<1> DEFINE t == Tail(st)
<1>1. /\ t \in Seq(Steps) /\ 1 \in DOMAIN st
      /\ \A i \in DOMAIN t : i \in Nat /\ i + 1 \in DOMAIN st /\ t[i] = st[i + 1] /\ 1 < i + 1
      /\ \A i \in DOMAIN st : i \in Nat /\ (i # 1 => i - 1 \in DOMAIN t /\ t[i - 1] = st[i])
    BY QueueFirst
<1>2. <<>> \o t = t
    BY <1>1
<1> HIDE DEF t
<1>3. Placed(t)
    <2> SUFFICES ASSUME NEW i \in DOMAIN t, i # 1 PROVE t[i].do = "add"
        BY DEF Placed
    <2>1. i + 1 # 1 /\ i + 1 # 2 /\ i + 1 \in DOMAIN st /\ t[i] = st[i + 1]
        BY <1>1
    <2> QED BY <2>1 DEF Placed
<1>4. ASSUME NEW s PROVE (\E i \in DOMAIN t : t[i] = s) <=> Below(st, s)
    <2>1. ASSUME NEW i \in DOMAIN t, t[i] = s PROVE Below(st, s)
        <3>1. i + 1 \in DOMAIN st /\ i + 1 # 1 /\ st[i + 1] = s
            BY <1>1, <2>1
        <3> QED BY <3>1 DEF Below
    <2>2. ASSUME Below(st, s) PROVE \E i \in DOMAIN t : t[i] = s
        BY <1>1, <2>2 DEF Below
    <2> QED BY <2>1, <2>2
<1> QED BY <1>1, <1>2, <1>3, <1>4 DEF t

\* The step in front gives way to another one, and what waits is as before.
LEMMA StepReplaced ==
    ASSUME NEW st \in Seq(Steps), st # <<>>, Placed(st), NEW new \in Steps,
           (\E s \in Steps : Below(st, s) /\ s.do # "add") =>
               new.dev = Hub /\ new.do \in {"add", "connect", "arrived"}
    PROVE  /\ <<new>> \o Tail(st) \in Seq(Steps) /\ Placed(<<new>> \o Tail(st))
           /\ \A s : (\E i \in DOMAIN (<<new>> \o Tail(st)) : (<<new>> \o Tail(st))[i] = s)
                       <=> s = new \/ Below(st, s)
<1> DEFINE t == Tail(st)
           u == <<new>> \o t
<1>1. /\ t \in Seq(Steps) /\ 1 \in DOMAIN st
      /\ \A i \in DOMAIN t : i \in Nat /\ i + 1 \in DOMAIN st /\ t[i] = st[i + 1] /\ 1 < i + 1
      /\ \A i \in DOMAIN st : i \in Nat /\ (i # 1 => i - 1 \in DOMAIN t /\ t[i - 1] = st[i])
    BY QueueFirst
<1> HIDE DEF t
<1>2. /\ u \in Seq(Steps) /\ DOMAIN u = 1..(Len(t) + 1) /\ u[1] = new
      /\ \A i \in DOMAIN t : i \in Nat /\ u[i + 1] = t[i]
      /\ Len(t) \in Nat /\ DOMAIN t = 1..Len(t)
    BY <1>1, InFront
<1> HIDE DEF u
<1>3. \A i \in DOMAIN u : i \in Nat /\ (i # 1 => i \in DOMAIN st /\ u[i] = st[i])
    <2> SUFFICES ASSUME NEW i \in DOMAIN u, i # 1 PROVE i \in DOMAIN st /\ u[i] = st[i]
        BY <1>2
    <2>1. i - 1 \in DOMAIN t /\ (i - 1) + 1 = i
        BY <1>2
    <2> QED BY <1>1, <1>2, <2>1
<1>4. \A i \in DOMAIN st : i # 1 => i \in DOMAIN u /\ u[i] = st[i]
    <2> SUFFICES ASSUME NEW i \in DOMAIN st, i # 1 PROVE i \in DOMAIN u /\ u[i] = st[i]
        OBVIOUS
    <2>1. i \in Nat /\ i - 1 \in DOMAIN t /\ t[i - 1] = st[i] /\ (i - 1) + 1 = i
        BY <1>1
    <2> QED BY <1>2, <2>1
<1>5. Placed(u)
    <2> SUFFICES ASSUME NEW i \in DOMAIN u, i # 1, u[i].do # "add"
                 PROVE  /\ i = 2 /\ u[i].do = "again"
                        /\ u[1].dev = Hub /\ u[1].do \in {"add", "connect", "arrived"}
        BY DEF Placed
    <2>1. i \in DOMAIN st /\ u[i] = st[i] /\ st[i] \in Steps /\ st[i].do # "add"
        BY <1>3
    <2>2. Below(st, st[i])
        BY <2>1 DEF Below
    <2> QED BY <1>2, <2>1, <2>2 DEF Placed
<1>6. ASSUME NEW s PROVE (\E i \in DOMAIN u : u[i] = s) <=> s = new \/ Below(st, s)
    <2>1. 1 \in DOMAIN u
        BY <1>2
    <2> QED BY <1>2, <1>3, <1>4, <2>1 DEF Below
<1> QED BY <1>2, <1>5, <1>6 DEF u, t

\* What is below is enumeration, so that a device may wait there.
NoneWaits(st) == \A s \in Steps : Below(st, s) => s.do = "add"
Waiting(new, again) == new.dev = Hub /\ new.do = "add" /\ again.do = "again"

\* The step in front gives way to that of its hub, and waits below it.
LEMMA StepsReplaced ==
    ASSUME NEW st \in Seq(Steps), st # <<>>, Placed(st), NEW new \in Steps, NEW again \in Steps,
           NoneWaits(st), Waiting(new, again)
    PROVE  /\ <<new, again>> \o Tail(st) \in Seq(Steps) /\ Placed(<<new, again>> \o Tail(st))
           /\ \A s : (\E i \in DOMAIN (<<new, again>> \o Tail(st)) : (<<new, again>> \o Tail(st))[i] = s)
                       <=> s = new \/ s = again \/ Below(st, s)
<1> DEFINE t == Tail(st)
           u == <<new, again>> \o t
<1>1. /\ t \in Seq(Steps) /\ 1 \in DOMAIN st
      /\ \A i \in DOMAIN t : i \in Nat /\ i + 1 \in DOMAIN st /\ t[i] = st[i + 1] /\ 1 < i + 1
      /\ \A i \in DOMAIN st : i \in Nat /\ (i # 1 => i - 1 \in DOMAIN t /\ t[i - 1] = st[i])
    BY QueueFirst
<1> HIDE DEF t
<1>2. /\ u \in Seq(Steps) /\ DOMAIN u = 1..(Len(t) + 2) /\ u[1] = new /\ u[2] = again
      /\ \A i \in DOMAIN t : i \in Nat /\ u[i + 2] = t[i]
      /\ Len(t) \in Nat /\ DOMAIN t = 1..Len(t)
    BY <1>1, InFront
<1> HIDE DEF u
<1>3. \A i \in DOMAIN u : i \in Nat /\ (i # 1 /\ i # 2 => i - 1 \in DOMAIN st /\ i - 1 # 1 /\ u[i] = st[i - 1])
    <2> SUFFICES ASSUME NEW i \in DOMAIN u, i # 1, i # 2
                 PROVE  i - 1 \in DOMAIN st /\ i - 1 # 1 /\ u[i] = st[i - 1]
        BY <1>2
    <2>1. i \in Nat /\ i - 2 \in DOMAIN t /\ (i - 2) + 2 = i /\ (i - 2) + 1 = i - 1 /\ i - 1 # 1
        BY <1>2
    <2> QED BY <1>1, <1>2, <2>1
<1>4. \A i \in DOMAIN st : i # 1 => i + 1 \in DOMAIN u /\ u[i + 1] = st[i]
    <2> SUFFICES ASSUME NEW i \in DOMAIN st, i # 1 PROVE i + 1 \in DOMAIN u /\ u[i + 1] = st[i]
        OBVIOUS
    <2>1. i \in Nat /\ i - 1 \in DOMAIN t /\ t[i - 1] = st[i] /\ (i - 1) + 2 = i + 1
        BY <1>1
    <2>2. i + 1 \in DOMAIN u
        BY <1>2, <2>1
    <2> QED BY <1>2, <2>1, <2>2
<1>5. Placed(u)
    <2> SUFFICES ASSUME NEW i \in DOMAIN u, i # 1, i # 2 PROVE u[i].do = "add"
        BY <1>2 DEF Placed, Waiting
    <2>1. i - 1 \in DOMAIN st /\ i - 1 # 1 /\ u[i] = st[i - 1] /\ st[i - 1] \in Steps
        BY <1>3
    <2> QED BY <2>1 DEF Below, NoneWaits
<1>6. ASSUME NEW s PROVE (\E i \in DOMAIN u : u[i] = s) <=> s = new \/ s = again \/ Below(st, s)
    <2>1. 1 \in DOMAIN u /\ 2 \in DOMAIN u
        BY <1>2
    <2>2. ASSUME NEW i \in DOMAIN u, u[i] = s PROVE s = new \/ s = again \/ Below(st, s)
        BY <1>2, <1>3, <2>2 DEF Below
    <2>3. ASSUME Below(st, s) PROVE \E i \in DOMAIN u : u[i] = s
        BY <1>4, <2>3 DEF Below
    <2> QED BY <1>2, <2>1, <2>2, <2>3
<1> QED BY <1>2, <1>5, <1>6 DEF u, t

-----------------------------------------------------------------------------
(* Who keeps an object *)

\* The parts of DevicesInv of which ExitFreesTheRest is a consequence.
Core == DevicesTypeOK /\ ContextIsInOrder /\ StepsAreInPlace /\ RefsAreHolders
        /\ ListIsAttached /\ LeftOnce /\ ArrivedIsKept

\* The types as the lemmas about data use them.
LEMMA Types ==
    ASSUME DevicesTypeOK
    PROVE  /\ objects \in [Object -> Records] /\ usbDevs \in Seq(Object) /\ app.list \in Seq(Object)
           /\ messages \in Seq(Changes) /\ handler.messages \in Seq(Changes) /\ job.steps \in Seq(Steps)
           /\ references \in [Object -> Nat] /\ handles \subseteq Object /\ dropped \subseteq Object
BY DEF DevicesTypeOK, Records, Steps, Dos

\* The holders, by where they are.
InLists(o) == One(Listed(o)) + One(Given(o))
InMessages(o) == One(Leaving(o)) + One(LeavingNow(o)) + One(o \in dropped)
InSteps(o) == One(InStep(o, Connecting \cup {"unlist"})) + 2 * One(InStep(o, {"left"}))
InUse(o) == references[o] + One(o \in handles) + One(Opening(o))
Own == [o \in Object |-> Holders(o)]

\* Nobody keeps an object but from one of these places.
LEMMA HoldersAre ==
    ASSUME DevicesTypeOK
    PROVE  /\ \A o \in Object : /\ InLists(o) \in Nat /\ InMessages(o) \in Nat
                                /\ InSteps(o) \in Nat /\ InUse(o) \in Nat /\ Own[o] \in Nat
                                /\ Own[o] = InLists(o) + InMessages(o) + InSteps(o) + InUse(o)
           /\ Own \in [Object -> Nat]
<1>1. ASSUME NEW o \in Object
      PROVE  /\ InLists(o) \in Nat /\ InMessages(o) \in Nat /\ InSteps(o) \in Nat /\ InUse(o) \in Nat
             /\ Holders(o) = InLists(o) + InMessages(o) + InSteps(o) + InUse(o)
    <2>1. references[o] \in Nat
        BY Types
    <2> QED BY <2>1 DEF InLists, InMessages, InSteps, InUse, Holders, One
<1> QED BY <1>1 DEF Own

\* The same of the next state.
LEMMA HoldersWillBe ==
    ASSUME DevicesTypeOK'
    PROVE  /\ \A o \in Object : /\ InLists(o)' \in Nat /\ InMessages(o)' \in Nat
                                /\ InSteps(o)' \in Nat /\ InUse(o)' \in Nat /\ Own'[o] \in Nat
                                /\ Own'[o] = InLists(o)' + InMessages(o)' + InSteps(o)' + InUse(o)'
           /\ Own' \in [Object -> Nat]
<1>1. ASSUME NEW o \in Object
      PROVE  /\ InLists(o)' \in Nat /\ InMessages(o)' \in Nat /\ InSteps(o)' \in Nat /\ InUse(o)' \in Nat
             /\ Holders(o)' = InLists(o)' + InMessages(o)' + InSteps(o)' + InUse(o)'
    <2>1. references'[o] \in Nat
        BY DEF DevicesTypeOK
    <2> QED BY <2>1 DEF InLists, InMessages, InSteps, InUse, Holders, One
<1> QED BY <1>1 DEF Own

\* What is held is there.
LEMMA HeldIsThere ==
    ASSUME Core, DevicesAssumption, NEW o \in Object,
           \/ Listed(o) \/ Given(o) \/ Leaving(o) \/ LeavingNow(o) \/ InStep(o, Connecting \cup {"unlist"})
           \/ InStep(o, {"left"}) \/ references[o] > 0 \/ o \in handles \/ Opening(o) \/ o \in dropped
    PROVE  Own[o] > 0 /\ Live(o)
<1>1. /\ InLists(o) \in Nat /\ InMessages(o) \in Nat /\ InSteps(o) \in Nat /\ InUse(o) \in Nat
      /\ Own[o] = InLists(o) + InMessages(o) + InSteps(o) + InUse(o) /\ Own \in [Object -> Nat]
    BY HoldersAre DEF Core
<1>2. references[o] \in Nat
    BY Types DEF Core
<1>3. InLists(o) > 0 \/ InMessages(o) > 0 \/ InSteps(o) > 0 \/ InUse(o) > 0
    BY <1>2 DEF InLists, InMessages, InSteps, InUse, One
<1>4. Own[o] > 0
    BY <1>1, <1>3
<1>5. Counts(objects, Own)
    BY DEF Core, RefsAreHolders, Own
<1> QED BY <1>1, <1>4, <1>5, HeldIsLive DEF Live

\* What RefsAreHolders says.
LEMMA RefsAre ==
    ASSUME Core
    PROVE  /\ Counts(objects, Own) /\ Family(objects) /\ Own \in [Object -> Nat]
           /\ \A o \in Range(usbDevs) : o \in Object /\ Live(o)
<1>1. \A o \in Range(usbDevs) : o \in Object
    BY Types DEF Core, Range
<1> QED BY <1>1, HoldersAre DEF Core, RefsAreHolders, Own, Family, Live

\* To show RefsAreHolders of the next state, the account of the objects will do.
LEMMA RefsWillBe ==
    ASSUME DevicesTypeOK', Counts(objects', Own'), Family(objects'), \A o \in Range(usbDevs') : Live(o)'
    PROVE  RefsAreHolders'
<1>1. Counts(objects, [o \in Object |-> Holders(o)])'
    BY DEF Own, Counts
<1> QED BY <1>1 DEF RefsAreHolders, Family, Live

\* The steps, by what is first and what waits.
LEMMA StepsAre ==
    ASSUME Core
    PROVE  /\ job.steps \in Seq(Steps) /\ Placed(job.steps)
           /\ \A i \in DOMAIN job.steps : StepIsTrue(job.steps[i])
           /\ \A o, dos : InStep(o, dos) <=> In(job.steps, o, dos)
           /\ job.steps # <<>> => Now = job.steps[1] /\ 1 \in DOMAIN job.steps /\ Now \in Steps /\ StepIsTrue(Now)
           /\ \A s : Below(job.steps, s) =>
                /\ s \in Steps
                /\ \/ s.do = "add" /\ s.o = 0
                   \/ s.do = "again" /\ StepIsTrue(s)
                      /\ Now.dev = Hub /\ Now.do \in {"add", "connect", "arrived"}
<1>1. job.steps \in Seq(Steps)
    BY Types DEF Core
<1>2. /\ Placed(job.steps)
      /\ \A i \in DOMAIN job.steps : StepIsTrue(job.steps[i])
      /\ \A o, dos : InStep(o, dos) <=> In(job.steps, o, dos)
    BY DEF Core, StepsAreInPlace, StepIsPlaced, Placed, InStep, In
<1>3. job.steps # <<>> => Now = job.steps[1] /\ 1 \in DOMAIN job.steps /\ Now \in Steps
    BY <1>1, QueueFirst DEF Now
<1>4. ASSUME NEW s, Below(job.steps, s)
      PROVE  /\ s \in Steps
             /\ \/ s.do = "add" /\ s.o = 0
                \/ s.do = "again" /\ StepIsTrue(s)
                   /\ Now.dev = Hub /\ Now.do \in {"add", "connect", "arrived"}
    <2>1. PICK i \in DOMAIN job.steps : i # 1 /\ job.steps[i] = s
        BY <1>4 DEF Below
    <2>2. s \in Steps /\ job.steps # <<>>
        BY <1>1, <2>1
    <2>3. s.do = "add" => s.o = 0
        BY <1>2, <2>1 DEF StepIsTrue
    <2> QED BY <1>2, <1>3, <2>1, <2>2, <2>3 DEF Placed
<1> QED BY <1>1, <1>2, <1>3, <1>4

\* The same steps stay true.
Quiet(objs, objs2) ==
    \A o \in Object : /\ objs2[o].dev = objs[o].dev /\ objs2[o].attached = objs[o].attached
                      /\ objs2[o].parent = objs[o].parent
                      /\ objs2[o].state = "live" => objs[o].state = "live"

\* What a step needs stays true of the same steps.
LEMMA StepsKeep ==
    ASSUME Core, job'.steps = job.steps, job'.by = "none" => job.steps = <<>>, usbDevs' = usbDevs,
           Quiet(objects, objects'), \A o \in Object : InStep(o, Connecting) => Live(o)'
    PROVE  StepsAreInPlace'
<1>1. \A i \in DOMAIN job'.steps : StepIsPlaced(i)'
    BY DEF Core, StepsAreInPlace, StepIsPlaced
<1>2. ASSUME NEW i \in DOMAIN job.steps PROVE StepIsTrue(job.steps[i])'
    <2>9. PICK s : s = job.steps[i]
        OBVIOUS
    <2>1. s \in Steps /\ StepIsTrue(s)
        <3>1. job.steps \in Seq(Steps) /\ StepIsTrue(s)
            BY <2>9, StepsAre
        <3> QED BY <2>9, <3>1
    <2>2. s.o # 0 => s.o \in Object
        BY <2>1 DEF Steps
    <2>3. s.do \in Connecting => InStep(s.o, Connecting)
        BY <2>9 DEF InStep
    <2>4. \A o \in Range(usbDevs) : o \in Object
        BY RefsAre
    <2>5. \A d : Known(d) <=> Known(d)'
        BY <2>4 DEF Known, OnList, Quiet
    <2>6. job'.steps[i] = s
        BY <2>9
    <2>7. \A o \in Object : InStep(o, Connecting) => Live(o)'
        OBVIOUS
    <2>8. StepIsTrue(s)'
        <3>1. s.do \in {"parent", "again"} => s.dev = Device /\ s.o # 0 /\ objects'[s.o].parent = 0
            BY <2>1, <2>2 DEF StepIsTrue, Quiet
        <3>2. (s.do \in {"add", "remove"} <=> s.o = 0) /\ (s.o # 0 => objects'[s.o].dev = s.dev)
            BY <2>1, <2>2 DEF StepIsTrue, Quiet
        <3>3. s.do \in Connecting => Live(s.o)' /\ ~objects'[s.o].attached /\ ~Known(s.dev)'
            <4>1. s.do \in Connecting => s.o \in Object
                BY <2>1, <2>2 DEF StepIsTrue, Connecting
            <4> QED BY <2>1, <2>3, <2>5, <2>7, <4>1 DEF StepIsTrue, Quiet
        <3>4. /\ s.do \in {"arrived", "unlist"} => s.o \in Range(usbDevs')
              /\ s.do \in {"unlist", "left"} => ~objects'[s.o].attached
              /\ s.do = "left" => s.o \notin Range(usbDevs')
            BY <2>1, <2>2 DEF StepIsTrue, Quiet
        <3> QED BY <3>1, <3>2, <3>3, <3>4 DEF StepIsTrue
    <2> QED BY <2>6, <2>8 DEF StepIsTrue
<1> QED BY <1>1, <1>2 DEF Core, StepsAreInPlace

\* New steps are true, and so are those below.
LEMMA StepsContinue ==
    ASSUME Core, DevicesTypeOK', job'.by # "none", Placed(job'.steps),
           (\A i \in DOMAIN job.steps : StepIsTrue(job.steps[i]))'
    PROVE  StepsAreInPlace'
BY DEF StepsAreInPlace, StepIsPlaced, Placed

\* The list stays as it is.
LEMMA ListKeep ==
    ASSUME Core, job'.steps = job.steps, usbDevs' = usbDevs, Quiet(objects, objects'),
           IsInjective(app'.list),
           ~Exited' /\ ctx' \notin {"exit", "gone"} => ~Exited /\ ctx \notin {"exit", "gone"}
    PROVE  ListIsAttached'
<1>1. \A o \in Range(usbDevs) : o \in Object
    BY RefsAre
<1>2. \A d : OnList(d)' = OnList(d)
    BY <1>1 DEF OnList, Quiet
<1>3. \A o, dos : InStep(o, dos)' <=> InStep(o, dos)
    BY DEF InStep
<1>4. IsInjective(usbDevs') /\ \A d \in Devices : \A o, q \in OnList(d)' : o = q
    BY <1>2 DEF Core, ListIsAttached
<1>5. \A o \in Object : Live(o)' /\ ~Exited' /\ ctx' \notin {"exit", "gone"} =>
         (o \in Range(usbDevs') <=> objects'[o].attached \/ InStep(o, {"unlist"})')
    BY <1>3 DEF Core, ListIsAttached, Quiet, Live
<1> QED BY <1>4, <1>5 DEF ListIsAttached

\* The messages stay as they are.
LEMMA MessagesKeep ==
    ASSUME Core, job'.steps = job.steps, usbDevs' = usbDevs, messages' = messages,
           handler'.messages = handler.messages, dropped' = dropped
    PROVE  LeftOnce' /\ ArrivedIsKept'
<1>1. /\ \A o, dos : InStep(o, dos)' <=> InStep(o, dos)
      /\ \A o : (Leaving(o)' <=> Leaving(o)) /\ (LeavingNow(o)' <=> LeavingNow(o)) /\ (Kept(o)' <=> Kept(o))
    BY DEF InStep, Leaving, LeavingNow, Kept
<1>2. LeftOnce'
    BY <1>1 DEF Core, LeftOnce
<1>3. ArrivedIsKept'
    BY <1>1 DEF Core, ArrivedIsKept
<1> QED BY <1>2, <1>3

\* What the holders depend on.
LEMMA ListsSame ==
    ASSUME usbDevs' = usbDevs, ctx' = ctx, ready' = ready, app'.list = app.list
    PROVE  \A o : InLists(o)' = InLists(o)
BY DEF InLists, Listed, Given, Exited, One

\* With the same messages, the same objects are kept by them.
LEMMA MessagesSame ==
    ASSUME messages' = messages, handler'.messages = handler.messages, dropped' = dropped
    PROVE  \A o : InMessages(o)' = InMessages(o)
BY DEF InMessages, Leaving, LeavingNow, One

\* With the same steps, the same objects are kept by them.
LEMMA StepsSame ==
    ASSUME job'.steps = job.steps
    PROVE  \A o : InSteps(o)' = InSteps(o)
BY DEF InSteps, InStep, One

\* With the same calls of the application, the same objects are kept by it.
LEMMA UseSame ==
    ASSUME references' = references, handles' = handles, \A o \in Object : Opening(o)' <=> Opening(o)
    PROVE  \A o \in Object : InUse(o)' = InUse(o)
BY DEF InUse, One

\* The holders of all, one less and one more.
LEMMA OwnSame ==
    ASSUME DevicesTypeOK, DevicesTypeOK',
           \A o \in Object : InLists(o)' + InMessages(o)' + InSteps(o)' + InUse(o)'
                             = InLists(o) + InMessages(o) + InSteps(o) + InUse(o)
    PROVE  Own' = Own
<1>1. \A o \in Object : Own'[o] = Own[o]
    BY HoldersAre, HoldersWillBe
<1>2. Own \in [Object -> Nat] /\ Own' \in [Object -> Nat]
    BY HoldersAre, HoldersWillBe
<1> QED BY <1>1, <1>2

\* The holders are one less of one object.
LEMMA OwnLess ==
    ASSUME DevicesTypeOK, DevicesTypeOK', NEW x \in Object,
           \A o \in Object : InLists(o)' + InMessages(o)' + InSteps(o)' + InUse(o)'
                             = InLists(o) + InMessages(o) + InSteps(o) + InUse(o) - (IF o = x THEN 1 ELSE 0)
    PROVE  Own' = [Own EXCEPT ![x] = @ - 1] /\ Own[x] > 0
<1>1. Own \in [Object -> Nat] /\ Own' \in [Object -> Nat]
    BY HoldersAre, HoldersWillBe
<1>2. \A o \in Object : Own'[o] = Own[o] - (IF o = x THEN 1 ELSE 0)
    BY HoldersAre, HoldersWillBe
<1> HIDE DEF Own
<1>3. Own' = [Own EXCEPT ![x] = @ - 1]
    BY <1>1, <1>2
<1> QED BY <1>1, <1>2, <1>3

\* The holders are one more of one object.
LEMMA OwnMore ==
    ASSUME DevicesTypeOK, DevicesTypeOK', NEW x \in Object,
           \A o \in Object : InLists(o)' + InMessages(o)' + InSteps(o)' + InUse(o)'
                             = InLists(o) + InMessages(o) + InSteps(o) + InUse(o) + (IF o = x THEN 1 ELSE 0)
    PROVE  Own' = [Own EXCEPT ![x] = @ + 1]
<1>1. Own \in [Object -> Nat] /\ Own' \in [Object -> Nat]
    BY HoldersAre, HoldersWillBe
<1>2. \A o \in Object : Own'[o] = Own[o] + (IF o = x THEN 1 ELSE 0)
    BY HoldersAre, HoldersWillBe
<1> QED BY <1>1, <1>2

\* What will be held will be there.
LEMMA HeldWillBe ==
    ASSUME DevicesAssumption, DevicesTypeOK', Counts(objects', Own'), NEW o \in Object,
           Listed(o)' \/ InStep(o, Connecting)' \/ InStep(o, {"unlist"})'
    PROVE  Live(o)'
<1>1. /\ InLists(o)' \in Nat /\ InMessages(o)' \in Nat /\ InSteps(o)' \in Nat /\ InUse(o)' \in Nat
      /\ Own'[o] = InLists(o)' + InMessages(o)' + InSteps(o)' + InUse(o)' /\ Own' \in [Object -> Nat]
    BY HoldersWillBe
<1>2. InLists(o)' > 0 \/ InSteps(o)' > 0
    <2>1. CASE Listed(o)'
        BY <2>1 DEF InLists, One
    <2>2. CASE InStep(o, Connecting)' \/ InStep(o, {"unlist"})'
        <3>1. InStep(o, Connecting \cup {"unlist"})'
            BY <2>2 DEF InStep
        <3> QED BY <3>1 DEF InSteps, One
    <2> QED BY <2>1, <2>2
<1>3. Own'[o] > 0
    BY <1>1, <1>2
<1> QED BY <1>1, <1>3, HeldIsLive DEF Live

\* Nothing changes but what holds nothing.
LEMMA Still ==
    ASSUME Core, DevicesAssumption, DevicesTypeOK', ContextIsInOrder',
           job'.steps = job.steps, job'.by = "none" => job.steps = <<>>,
           usbDevs' = usbDevs, messages' = messages, handler'.messages = handler.messages,
           dropped' = dropped, references' = references, handles' = handles,
           Quiet(objects, objects'),
           \A o \in Object : objects'[o].state = objects[o].state /\ objects'[o].refs = objects[o].refs,
           \A o \in Object : Opening(o)' <=> Opening(o),
           \A o \in Object : InLists(o)' = InLists(o),
           IsInjective(app'.list),
           ~Exited' /\ ctx' \notin {"exit", "gone"} => ~Exited /\ ctx \notin {"exit", "gone"}
    PROVE  Core'
<1>1. \A o \in Object : InMessages(o)' = InMessages(o) /\ InSteps(o)' = InSteps(o) /\ InUse(o)' = InUse(o)
    BY MessagesSame, StepsSame, UseSame
<1>2. Own' = Own
    BY <1>1, OwnSame DEF Core
<1>3. Counts(objects', Own)
    <2>1. Counts(objects, Own) /\ objects \in [Object -> Records]
        BY RefsAre, Types DEF Core
    <2>2. \A o \in Object : /\ objects'[o].state = objects[o].state /\ objects'[o].refs = objects[o].refs
                            /\ objects'[o].parent = objects[o].parent
        BY DEF Quiet
    <2> HIDE DEF Own, Quiet
    <2> QED BY <2>1, <2>2, CountsSame
<1>4. Family(objects')
    <2>1. Family(objects) /\ objects \in [Object -> Records]
        BY RefsAre, Types DEF Core
    <2> QED BY <2>1 DEF Family, Quiet, Records
<1>5. RefsAreHolders'
    <2>1. \A o \in Range(usbDevs') : Live(o)'
        BY RefsAre DEF Live
    <2> QED BY <1>2, <1>3, <1>4, <2>1, RefsWillBe
<1>6. StepsAreInPlace'
    <2>1. \A o \in Object : InStep(o, Connecting) => Live(o)'
        <3> SUFFICES ASSUME NEW o \in Object, InStep(o, Connecting) PROVE Live(o)'
            OBVIOUS
        <3>1. InStep(o, Connecting \cup {"unlist"})
            BY DEF InStep
        <3>2. Live(o)
            BY <3>1, HeldIsThere
        <3> QED BY <3>2 DEF Live
    <2> QED BY <2>1, StepsKeep
<1>7. ListIsAttached'
    BY ListKeep
<1>8. LeftOnce' /\ ArrivedIsKept'
    BY MessagesKeep
<1> QED BY <1>5, <1>6, <1>7, <1>8 DEF Core

\* The lock is taken, for a device or more.
LEMMA StepsBegin ==
    ASSUME Core, DevicesAssumption, DevicesTypeOK', ContextIsInOrder',
           job.steps = <<>>, job'.by # "none",
           \A i \in DOMAIN job'.steps : job'.steps[i].do = "add" \/ (job'.steps[i].do = "remove" /\ i = 1),
           \A i \in DOMAIN job'.steps : job'.steps[i].o = 0,
           UNCHANGED <<objects, usbDevs, ready, messages, handler, references, handles, dropped>>,
           app'.list = app.list, app'.at = app.at, app'.o = app.o,
           \A o \in Object : InLists(o)' = InLists(o),
           ~Exited' /\ ctx' \notin {"exit", "gone"} => ~Exited /\ ctx \notin {"exit", "gone"}
    PROVE  Core'
<1>1. /\ \A o, dos : ~InStep(o, dos)
      /\ \A o \in Object : ~InStep(o, Connecting)' /\ ~InStep(o, {"unlist"})' /\ ~InStep(o, {"left"})'
                           /\ ~InStep(o, Connecting \cup {"unlist"})'
    BY DEF InStep, Connecting, Object
<1>2. \A o \in Object : InMessages(o)' = InMessages(o) /\ InSteps(o)' = InSteps(o) /\ InUse(o)' = InUse(o)
    <2>1. \A o \in Object : InMessages(o)' = InMessages(o)
        BY MessagesSame
    <2>2. \A o \in Object : InSteps(o)' = InSteps(o)
        BY <1>1 DEF InSteps, One
    <2>3. \A o \in Object : InUse(o)' = InUse(o)
        BY DEF InUse, Opening, One
    <2> QED BY <2>1, <2>2, <2>3
<1>3. Own' = Own
    BY <1>2, OwnSame DEF Core
<1>4. RefsAreHolders'
    <2>1. Counts(objects, Own) /\ Family(objects) /\ \A o \in Range(usbDevs) : Live(o)
        BY RefsAre
    <2>2. Counts(objects', Own') /\ Family(objects') /\ \A o \in Range(usbDevs') : Live(o)'
        BY <1>3, <2>1 DEF Live
    <2> QED BY <2>2, RefsWillBe
<1>5. StepsAreInPlace'
    BY DEF Core, StepsAreInPlace, StepIsPlaced, StepIsTrue, Connecting
<1>6. ListIsAttached'
    <2>1. \A d : OnList(d)' = OnList(d)
        BY DEF OnList
    <2> QED BY <1>1, <2>1 DEF Core, ListIsAttached, Live
<1>7. /\ \A o : (Leaving(o)' <=> Leaving(o)) /\ (LeavingNow(o)' <=> LeavingNow(o))
      /\ \A o \in Object : Kept(o)' <=> Kept(o)
    BY <1>1 DEF Leaving, LeavingNow, Kept
<1>8. LeftOnce'
    <2>1. \A o \in Object : \A i \in DOMAIN job'.steps : job'.steps[i].o # o
        BY DEF Object
    <2> QED BY <1>7, <2>1 DEF Core, LeftOnce
<1>9. ArrivedIsKept'
    <2>1. /\ \A i \in DOMAIN messages : messages[i][2] \in Object
          /\ \A i \in DOMAIN handler.messages : handler.messages[i][2] \in Object
        BY Types DEF Core, Changes
    <2>2. \A i \in DOMAIN messages' : Kept(messages[i][2])'
        BY <1>7, <2>1 DEF Core, ArrivedIsKept
    <2>3. \A i \in DOMAIN handler'.messages : Kept(handler.messages[i][2])' \/ LeavingNow(handler.messages[i][2])'
        BY <1>7, <2>1 DEF Core, ArrivedIsKept
    <2> QED BY <1>1, <2>2, <2>3 DEF ArrivedIsKept
<1> QED BY <1>4, <1>5, <1>6, <1>8, <1>9 DEF Core

-----------------------------------------------------------------------------
(* The actions *)

\* Devices come and go without anyone having been told.
LEMMA WorldKeeps ==
    ASSUME Core, DevicesAssumption, NEW d \in Devices, Plug(d) \/ Unplug(d)
    PROVE  Core'
<1>1. /\ UNCHANGED <<ctx, usbDevs, ready, messages, callbacks, registered, job, handler, app, references, handles, dropped>>
      /\ Quiet(objects, objects') /\ objects' \in [Object -> Records]
      /\ \A o \in Object : objects'[o].state = objects[o].state /\ objects'[o].refs = objects[o].refs
    <2>1. CASE Plug(d)
        BY <2>1, Types DEF Plug, Core, Quiet, cbVars, appVars
    <2>2. CASE Unplug(d)
        <3>1. PICK gone : objects' = [o \in Object |-> IF objects[o].dev \in gone THEN [objects[o] EXCEPT !.there = FALSE]
                                                       ELSE objects[o]]
            BY <2>2 DEF Unplug
        <3>2. objects \in [Object -> Records]
            BY Types DEF Core
        <3>3. \A o \in Object : objects'[o] = objects[o] \/ objects'[o] = [objects[o] EXCEPT !.there = FALSE]
            BY <3>1
        <3>4. \A o \in Object : /\ objects'[o] \in Records /\ objects'[o].dev = objects[o].dev
                                /\ objects'[o].attached = objects[o].attached
                                /\ objects'[o].parent = objects[o].parent
                                /\ objects'[o].state = objects[o].state /\ objects'[o].refs = objects[o].refs
            <4> SUFFICES ASSUME NEW o \in Object
                         PROVE  /\ objects'[o] \in Records /\ objects'[o].dev = objects[o].dev
                                /\ objects'[o].attached = objects[o].attached
                                /\ objects'[o].parent = objects[o].parent
                                /\ objects'[o].state = objects[o].state /\ objects'[o].refs = objects[o].refs
                OBVIOUS
            <4>1. CASE objects'[o] = objects[o]
                BY <3>2, <4>1
            <4>2. CASE objects'[o] = [objects[o] EXCEPT !.there = FALSE]
                BY <3>2, <4>2 DEF Records
            <4> QED BY <3>3, <4>1, <4>2
        <3>5. objects' \in [Object -> Records]
            BY <3>1, <3>4
        <3> QED BY <2>2, <3>4, <3>5 DEF Unplug, Quiet, cbVars, appVars
    <2> QED BY <2>1, <2>2
<1>2. present' \subseteq Devices /\ netlink' \in Seq({"add", "remove"} \X Devices) /\ overrun' \in BOOLEAN
    <2>1. present \subseteq Devices /\ netlink \in Seq({"add", "remove"} \X Devices) /\ overrun \in BOOLEAN
        BY DEF Core, DevicesTypeOK
    <2>2. present' \subseteq Devices
        BY <2>1 DEF Plug, Unplug
    <2>3. ASSUME NEW reports \in Seq({"add", "remove"} \X Devices), Report(reports)
          PROVE  netlink' \in Seq({"add", "remove"} \X Devices) /\ overrun' \in BOOLEAN
        <3>1. netlink \o reports \in Seq({"add", "remove"} \X Devices)
            BY <2>1, ConcatProperties
        <3> QED BY <2>1, <2>3, <3>1 DEF Report
    <2>4. \/ UNCHANGED <<netlink, overrun>>
          \/ \E reports \in Seq({"add", "remove"} \X Devices) : Report(reports)
        <3>1. /\ <<<<"add", d>>>> \in Seq({"add", "remove"} \X Devices)
              /\ <<<<"remove", d>>>> \in Seq({"add", "remove"} \X Devices)
              /\ <<<<"remove", Device>>, <<"remove", Hub>>>> \in Seq({"add", "remove"} \X Devices)
            BY DEF Devices
        <3>2. CASE Plug(d)
            BY <3>1, <3>2 DEF Plug
        <3>3. CASE Unplug(d)
            BY <3>1, <3>3 DEF Unplug
        <3> QED BY <3>2, <3>3
    <2> QED BY <2>1, <2>2, <2>3, <2>4
<1>3. DevicesTypeOK'
    BY <1>1, <1>2 DEF Core, DevicesTypeOK, Records
<1>4. ContextIsInOrder'
    BY <1>1 DEF Core, ContextIsInOrder
<1>5. \A o \in Object : (Opening(o)' <=> Opening(o)) /\ InLists(o)' = InLists(o)
    BY <1>1, ListsSame DEF Opening
<1>6. IsInjective(app'.list) /\ (Exited' <=> Exited)
    BY <1>1 DEF Core, ListIsAttached, Exited
<1> QED BY <1>1, <1>3, <1>4, <1>5, <1>6, Still DEF Core, StepsAreInPlace

\* The context opens and closes.
LEMMA InitialiseKeeps ==
    ASSUME Core, DevicesAssumption, StartMonitor \/ ScanFails \/ HotplugInit \/ Scanned
    PROVE  Core'
<1>1. /\ UNCHANGED <<present, netlink, overrun, usbDevs, objects, messages, callbacks, registered, handler, app,
                     references, handles, dropped>>
      /\ job'.steps = job.steps /\ (job'.by = "none" => job.steps = <<>>)
      /\ DevicesTypeOK'
    <2>1. /\ UNCHANGED <<present, netlink, overrun, usbDevs, objects, messages, callbacks, registered, handler, app,
                         references, handles, dropped>>
          /\ job'.steps = job.steps /\ (job'.by = "none" => job.steps = <<>>)
          /\ ctx' \in {"monitored", "failed", "open", "scanned"}
          /\ ready' \in {ready, TRUE} /\ job' \in {job, NoJob}
        <3>1. CASE StartMonitor \/ ScanFails \/ HotplugInit
            BY <3>1 DEF StartMonitor, ScanFails, HotplugInit, world, cbVars, appVars, Core, StepsAreInPlace
        <3>2. CASE Scanned
            BY <3>2 DEF Scanned, world, cbVars, appVars, NoJob
        <3> QED BY <3>1, <3>2
    <2>2. ready' \in BOOLEAN /\ job' \in [by : {"none", "monitor", "handler", "init", "poll", "open"}, steps : Seq(Steps)]
        <3>1. ready \in BOOLEAN /\ job \in [by : {"none", "monitor", "handler", "init", "poll", "open"}, steps : Seq(Steps)]
            BY DEF Core, DevicesTypeOK, Steps, Dos
        <3>2. NoJob \in [by : {"none", "monitor", "handler", "init", "poll", "open"}, steps : Seq(Steps)]
            BY DEF NoJob
        <3> QED BY <2>1, <3>1, <3>2
    <2> QED BY <2>1, <2>2 DEF Core, DevicesTypeOK, Steps, Dos
<1>2. ContextIsInOrder'
    BY <1>1 DEF Core, ContextIsInOrder, StartMonitor, ScanFails, HotplugInit, Scanned, world, cbVars, appVars, NoJob
<1>3. /\ ctx \in {"init", "monitored", "scanned", "scanning"} /\ ctx' \in {"monitored", "failed", "open", "scanned"}
    BY DEF StartMonitor, ScanFails, HotplugInit, Scanned, Core, ContextIsInOrder
<1>4. \A o \in Object : (Opening(o)' <=> Opening(o)) /\ InLists(o)' = InLists(o)
    BY <1>1, <1>3 DEF Opening, InLists, Listed, Given, Exited, One
<1>5. IsInjective(app'.list) /\ ~Exited
    BY <1>1, <1>3 DEF Core, ListIsAttached, Exited
<1>6. Quiet(objects, objects')
    BY <1>1 DEF Quiet
<1> QED BY <1>1, <1>2, <1>3, <1>4, <1>5, <1>6, Still

\* libusb_exit() begins: the list is to be gone through, so who was listed still is.
LEMMA ExitKeeps ==
    ASSUME Core, DevicesAssumption, HotplugExit \/ StopMonitor
    PROVE  Core'
<1>1. /\ UNCHANGED <<present, overrun, objects, usbDevs, ready, messages, job, handler, references, handles, dropped>>
      /\ netlink' \in {netlink, <<>>} /\ callbacks' \subseteq callbacks /\ registered' = registered
      /\ IsInjective(app'.list) /\ app'.list \in {usbDevs, <<>>}
    <2>1. IsInjective(usbDevs) /\ IsInjective(<<>>)
        BY DEF Core, ListIsAttached, IsInjective
    <2>2. CASE HotplugExit
        <3>1. app'.list = usbDevs
            BY <2>2 DEF HotplugExit, IdleApp
        <3> QED BY <2>1, <2>2, <3>1 DEF HotplugExit, world
    <2>3. CASE StopMonitor
        <3>1. app'.list = <<>>
            BY <2>3 DEF StopMonitor, IdleApp
        <3> QED BY <2>1, <2>3, <3>1 DEF StopMonitor, cbVars
    <2> QED BY <2>2, <2>3
<1>2. DevicesTypeOK' /\ ContextIsInOrder'
    <2>1. CASE HotplugExit
        <3>1. DevicesTypeOK'
            BY <1>1, <2>1 DEF Core, DevicesTypeOK, HotplugExit, IdleApp, world
        <3>2. ctx = "open" /\ ctx' = "exit" /\ app'.at = "exit" /\ app'.list = usbDevs /\ job = NoJob
              /\ handles = {} /\ handler = IdleHandler
            BY <2>1 DEF HotplugExit, IdleApp, AppAt
        <3>3. job.by = "none" /\ job.steps = <<>> /\ handler.messages = <<>>
            BY <3>2 DEF NoJob, IdleHandler
        <3> QED BY <1>1, <3>1, <3>2, <3>3 DEF Core, ContextIsInOrder
    <2>2. CASE StopMonitor
        <3>1. DevicesTypeOK'
            BY <1>1, <2>2 DEF Core, DevicesTypeOK, StopMonitor, IdleApp, cbVars
        <3> QED BY <1>1, <2>2, <3>1 DEF Core, ContextIsInOrder, StopMonitor, IdleApp, NoJob
    <2> QED BY <2>1, <2>2
<1>3. \A o \in Object : (Opening(o)' <=> Opening(o)) /\ InLists(o)' = InLists(o)
    <2>1. CASE HotplugExit
        <3>1. app.list = <<>> /\ app.at = "idle" /\ ctx = "open" /\ ctx' = "exit" /\ app'.at = "exit" /\ app'.list = usbDevs
            BY <2>1 DEF Core, ContextIsInOrder, HotplugExit, AppAt, IdleApp
        <3> QED BY <1>1, <3>1 DEF Opening, InLists, Listed, Given, Exited, One, Range
    <2>2. CASE StopMonitor /\ ctx = "failed"
        <3>1. app.list = <<>> /\ app.at = "idle" /\ ctx' = "stopped" /\ app'.at = "idle" /\ app'.list = <<>> /\ ~ready
            BY <2>2 DEF Core, ContextIsInOrder, StopMonitor, IdleApp, DevicesTypeOK
        <3> QED BY <1>1, <2>2, <3>1 DEF Opening, InLists, Listed, Given, Exited, One, Range
    <2>3. CASE StopMonitor /\ ctx = "exit"
        <3>1. /\ app.list = <<>> /\ app.at = "exit" /\ ctx' = "stopped" /\ app'.at = "idle" /\ app'.list = <<>>
              /\ ready /\ ready'
            BY <1>1, <2>3 DEF Core, ContextIsInOrder, StopMonitor, IdleApp
        <3> QED BY <1>1, <2>3, <3>1 DEF Opening, InLists, Listed, Given, Exited, One, Range
    <2> QED BY <2>1, <2>2, <2>3 DEF StopMonitor
<1>4. /\ ~Exited' /\ ctx' \notin {"exit", "gone"} => ~Exited /\ ctx \notin {"exit", "gone"}
      /\ job'.by = "none" => job.steps = <<>>
    BY <1>1 DEF HotplugExit, StopMonitor, Exited, Core, ContextIsInOrder, StepsAreInPlace
<1>5. Quiet(objects, objects')
    BY <1>1 DEF Quiet
<1> QED BY <1>1, <1>2, <1>3, <1>4, <1>5, Still

\* Calls and callbacks that hold nothing yet, or no more.
LEMMA CallsKeep ==
    ASSUME Core, DevicesAssumption,
           \/ GetDeviceList \/ PollBegins \/ PollEnds \/ JobEnds \/ SkipCallback \/ FreeDeregistered
           \/ (\E enumerate \in BOOLEAN : RegisterCallback(enumerate))
           \/ (\E cb \in 1..MaxCallbacks : DeregisterCallback(cb))
    PROVE  Core'
<1>1. /\ UNCHANGED <<present, netlink, overrun, ctx, objects, usbDevs, ready, messages, references, handles, dropped>>
      /\ job'.steps = job.steps /\ (job'.by = "none" => job.steps = <<>>)
      /\ handler'.messages = handler.messages
      /\ DevicesTypeOK' /\ ContextIsInOrder'
      /\ app'.list = app.list
      /\ \A o \in Object : Opening(o)' <=> Opening(o)
    <2>1. CASE GetDeviceList
        <3>1. /\ DevicesTypeOK' /\ app'.list = <<>> /\ app'.at = "poll" /\ app.at = "idle" /\ app.list = <<>>
            BY <2>1 DEF GetDeviceList, Core, DevicesTypeOK, ContextIsInOrder, AppAt, IdleApp, world, cbVars
        <3> QED BY <2>1, <3>1 DEF GetDeviceList, Core, ContextIsInOrder, StepsAreInPlace, AppAt, world, Opening
    <2>2. CASE PollBegins
        <3>1. DevicesTypeOK'
            BY <2>2 DEF PollBegins, Core, DevicesTypeOK, NoJob, world, cbVars, appVars
        <3> QED BY <2>2, <3>1 DEF PollBegins, Core, ContextIsInOrder, StepsAreInPlace, AppAt, NoJob, world, appVars, Opening
    <2>3. CASE PollEnds
        <3>1. DevicesTypeOK' /\ app'.list = app.list /\ app'.at = "copy" /\ app.at = "poll" /\ ctx = "open"
            BY <2>3 DEF PollEnds, Core, DevicesTypeOK, ContextIsInOrder, NoJob, world, cbVars, appVars
        <3> QED BY <2>3, <3>1 DEF PollEnds, Core, ContextIsInOrder, StepsAreInPlace, NoJob, world, Opening
    <2>4. CASE JobEnds
        <3>1. DevicesTypeOK'
            BY <2>4 DEF JobEnds, Core, DevicesTypeOK, NoJob, world, cbVars, appVars
        <3> QED BY <2>4, <3>1 DEF JobEnds, Core, ContextIsInOrder, StepsAreInPlace, NoJob, world, appVars, Opening
    <2>5. CASE SkipCallback
        <3>1. DevicesTypeOK' /\ handler'.messages = handler.messages
            <4>1. /\ handler'.messages = handler.messages
                  /\ handler' \in [messages : Seq(Changes), todo : SUBSET Nat]
                BY <2>5 DEF SkipCallback, Core, DevicesTypeOK
            <4>2. UNCHANGED <<world, objects, ctx, usbDevs, ready, messages, cbVars, job, appVars, dropped>>
                BY <2>5 DEF SkipCallback
            <4> QED BY <4>1, <4>2 DEF Core, DevicesTypeOK, world, cbVars, appVars
        <3> QED BY <2>5, <3>1 DEF SkipCallback, Core, ContextIsInOrder, StepsAreInPlace, world, appVars, Opening
    <2>6. CASE FreeDeregistered
        <3>1. DevicesTypeOK'
            <4>1. callbacks' \subseteq callbacks
                BY <2>6 DEF FreeDeregistered
            <4>2. UNCHANGED <<world, objects, ctx, usbDevs, ready, messages, registered, job, handler, appVars, dropped>>
                BY <2>6 DEF FreeDeregistered
            <4> QED BY <4>1, <4>2 DEF Core, DevicesTypeOK, world, appVars
        <3> QED BY <2>6, <3>1 DEF FreeDeregistered, Core, ContextIsInOrder, StepsAreInPlace, world, appVars, Opening
    <2>7. CASE \E enumerate \in BOOLEAN : RegisterCallback(enumerate)
        <3>1. PICK enumerate \in BOOLEAN : RegisterCallback(enumerate)
            BY <2>7
        <3>2. /\ app.list = <<>> /\ app.at = "idle" /\ ctx = "open" /\ registered' = registered + 1
              /\ app' \in {app, [IdleApp EXCEPT !.at = "poll", !.cb = registered']}
              /\ callbacks' = callbacks \cup {registered'} /\ registered' \in Nat
            BY <3>1 DEF RegisterCallback, Core, ContextIsInOrder, DevicesTypeOK, AppAt
        <3>3. /\ app'.list = <<>> /\ app'.at \in {"idle", "poll"}
              /\ app' \in [at : {"idle", "poll", "copy", "enumerate", "open", "exit"}, cb : Nat, list : Seq(Object), o : Nat]
            <4>1. CASE app' = app
                BY <3>2, <4>1 DEF Core, DevicesTypeOK
            <4>2. CASE app' = [IdleApp EXCEPT !.at = "poll", !.cb = registered']
                <5>1. app' = [at |-> "poll", cb |-> registered', list |-> <<>>, o |-> 0]
                    BY <4>2 DEF IdleApp
                <5> QED BY <3>2, <5>1
            <4> QED BY <3>2, <4>1, <4>2
        <3>4. DevicesTypeOK'
            BY <3>1, <3>2, <3>3 DEF RegisterCallback, Core, DevicesTypeOK, world
        <3>5. ContextIsInOrder'
            BY <3>1, <3>2, <3>3 DEF RegisterCallback, Core, ContextIsInOrder, world, NoJob
        <3> QED BY <3>1, <3>2, <3>3, <3>4, <3>5 DEF RegisterCallback, Core, StepsAreInPlace, world, Opening
    <2>8. CASE \E cb \in 1..MaxCallbacks : DeregisterCallback(cb)
        <3>1. DevicesTypeOK'
            BY <2>8 DEF DeregisterCallback, Core, DevicesTypeOK, world, appVars
        <3> QED BY <2>8, <3>1 DEF DeregisterCallback, Core, ContextIsInOrder, StepsAreInPlace, world, appVars, Opening
    <2> QED BY <2>1, <2>2, <2>3, <2>4, <2>5, <2>6, <2>7, <2>8
<1>2. \A o \in Object : InLists(o)' = InLists(o)
    BY <1>1, ListsSame
<1>3. IsInjective(app'.list) /\ (Exited' <=> Exited) /\ ctx' = ctx
    BY <1>1 DEF Core, ListIsAttached, Exited
<1>4. Quiet(objects, objects')
    BY <1>1 DEF Quiet
<1> QED BY <1>1, <1>2, <1>3, <1>4, Still

\* Someone takes the lock, or what it has it for.
LEMMA JobsKeep ==
    ASSUME Core, DevicesAssumption,
           MonitorReads \/ PollReads \/ OpenFinds \/ ScanDevices \/ \E o \in Object : HandleError(o)
    PROVE  Core'
<1>1. /\ UNCHANGED <<present, overrun, objects, usbDevs, ready, messages, callbacks, registered, handler, app,
                     references, handles, dropped>>
      /\ job.steps = <<>> /\ netlink' \in Seq({"add", "remove"} \X Devices)
      /\ ctx' = ctx \/ (ctx = "monitored" /\ ctx' = "scanning")
      /\ ContextIsInOrder'
      /\ job'.by \in {"monitor", "poll", "open", "init", "handler"} /\ job'.steps \in Seq(Steps)
      /\ job' \in [by : {"none", "monitor", "handler", "init", "poll", "open"}, steps : Seq(Steps)]
      /\ \A i \in DOMAIN job'.steps : job'.steps[i].do = "add" \/ (job'.steps[i].do = "remove" /\ i = 1)
      /\ \A i \in DOMAIN job'.steps : job'.steps[i].o = 0
    <2> DEFINE Jobs == [by : {"none", "monitor", "handler", "init", "poll", "open"}, steps : Seq(Steps)]
    <2>1. ASSUME netlink # <<>>
          PROVE  /\ Tail(netlink) \in Seq({"add", "remove"} \X Devices)
                 /\ netlink[1][1] \in {"add", "remove"} /\ netlink[1][2] \in Devices
        <3>1. netlink \in Seq({"add", "remove"} \X Devices)
            BY DEF Core, DevicesTypeOK
        <3>2. Tail(netlink) \in Seq({"add", "remove"} \X Devices) /\ netlink[1] \in {"add", "remove"} \X Devices
            BY <2>1, <3>1, QueueFirst
        <3> QED BY <3>2
    <2>2. ASSUME NEW do \in {"add", "remove"}, NEW d \in Devices,
                 NEW st, st = <<Step(do, d, 0)>>
          PROVE  /\ st \in Seq(Steps)
                 /\ \A i \in DOMAIN st : st[i].o = 0 /\ (st[i].do = "add" \/ (st[i].do = "remove" /\ i = 1))
        <3>1. Step(do, d, 0) \in Steps /\ Step(do, d, 0).o = 0 /\ Step(do, d, 0).do = do
            BY DEF Step, Steps, Dos
        <3> HIDE DEF Step
        <3> QED BY <2>2, <3>1
    <2>3. netlink \in Seq({"add", "remove"} \X Devices)
        BY DEF Core, DevicesTypeOK
    <2>4. CASE MonitorReads
        <3>1. PICK st : /\ job' = [by |-> "monitor", steps |-> st]
                        /\ st = IF ctx = "exit" THEN <<>> ELSE <<Step(netlink[1][1], netlink[1][2], 0)>>
            BY <2>4 DEF MonitorReads
        <3>2. /\ st \in Seq(Steps)
              /\ \A i \in DOMAIN st : st[i].o = 0 /\ (st[i].do = "add" \/ (st[i].do = "remove" /\ i = 1))
            <4>1. netlink # <<>>
                BY <2>4 DEF MonitorReads
            <4>2. CASE ctx = "exit"
                BY <3>1, <4>2
            <4>3. CASE ctx # "exit"
                <5>1. PICK do \in {"add", "remove"}, d \in Devices : do = netlink[1][1] /\ d = netlink[1][2]
                    BY <2>1, <4>1
                <5>2. st = <<Step(do, d, 0)>>
                    BY <3>1, <4>3, <5>1
                <5> QED BY <2>2, <5>2
            <4> QED BY <4>2, <4>3
        <3>3. job = NoJob /\ ctx' = ctx /\ Listening
            BY <2>4 DEF MonitorReads
        <3>4. ContextIsInOrder'
            BY <2>4, <3>1, <3>3 DEF MonitorReads, Core, ContextIsInOrder, Listening, NoJob, cbVars, appVars
        <3> QED BY <2>1, <2>4, <3>1, <3>2, <3>3, <3>4 DEF MonitorReads, cbVars, appVars, NoJob
    <2>5. CASE PollReads
        <3>1. PICK st : job' = [job EXCEPT !.steps = st] /\ st = <<Step(netlink[1][1], netlink[1][2], 0)>>
            BY <2>5 DEF PollReads
        <3>2. /\ st \in Seq(Steps)
              /\ \A i \in DOMAIN st : st[i].o = 0 /\ (st[i].do = "add" \/ (st[i].do = "remove" /\ i = 1))
            <4>1. netlink # <<>>
                BY <2>5 DEF PollReads
            <4>2. PICK do \in {"add", "remove"}, d \in Devices : do = netlink[1][1] /\ d = netlink[1][2]
                BY <2>1, <4>1
            <4>3. st = <<Step(do, d, 0)>>
                BY <3>1, <4>2
            <4> QED BY <2>2, <4>3
        <3>3. job \in Jobs
            BY DEF Core, DevicesTypeOK, Steps, Dos
        <3>4. job' = [by |-> "poll", steps |-> st]
            BY <2>5, <3>1, <3>3 DEF PollReads
        <3>5. ContextIsInOrder'
            BY <2>5, <3>4 DEF PollReads, Core, ContextIsInOrder, NoJob, cbVars, appVars
        <3>6. job'.by = "poll" /\ job'.steps = st /\ job' \in Jobs
            BY <3>2, <3>4
        <3>7. /\ UNCHANGED <<present, overrun, ctx, objects, usbDevs, ready, messages, callbacks, registered, handler, app,
                             references, handles, dropped>>
              /\ job.steps = <<>> /\ netlink' \in Seq({"add", "remove"} \X Devices)
            BY <2>1, <2>5 DEF PollReads, cbVars, appVars
        <3> HIDE DEF Jobs
        <3> QED BY <3>2, <3>5, <3>6, <3>7 DEF Jobs
    <2>6. CASE OpenFinds
        <3>1. PICK st : /\ job' = [by |-> "open", steps |-> st]
                        /\ st = IF objects[app.o].attached THEN <<Step("remove", objects[app.o].dev, 0)>> ELSE <<>>
            BY <2>6 DEF OpenFinds
        <3>2. objects[app.o].dev \in Devices
            <4>1. app.o \in Object /\ objects \in [Object -> Records]
                BY <2>6, Types DEF OpenFinds, AppAt, Core, ContextIsInOrder
            <4> QED BY <4>1 DEF Records
        <3>3. /\ st \in Seq(Steps)
              /\ \A i \in DOMAIN st : st[i].o = 0 /\ (st[i].do = "add" \/ (st[i].do = "remove" /\ i = 1))
            BY <2>2, <3>1, <3>2
        <3>4. ContextIsInOrder'
            BY <2>6, <3>1 DEF OpenFinds, Core, ContextIsInOrder, AppAt, NoJob, cbVars, appVars
        <3> QED BY <2>3, <2>6, <3>1, <3>3, <3>4 DEF OpenFinds, cbVars, appVars, NoJob, world
    <2>7. CASE ScanDevices
        <3>7. PICK order \in SetToSeqs(present) :
                 job' = [by |-> "init", steps |-> [i \in DOMAIN order |-> Step("add", order[i], 0)]]
            BY <2>7 DEF ScanDevices
        <3>1. PICK st : job' = [by |-> "init", steps |-> st] /\ st = [i \in DOMAIN order |-> Step("add", order[i], 0)]
            BY <3>7
        <3>2. order \in [1..Cardinality(present) -> Devices] /\ Cardinality(present) \in Nat
            <4>1. present \subseteq Devices /\ IsFiniteSet(Devices)
                <5>1. IsFiniteSet({} \cup {Hub}) /\ IsFiniteSet(({} \cup {Hub}) \cup {Device})
                    BY FS_EmptySet, FS_AddElement
                <5>2. Devices = ({} \cup {Hub}) \cup {Device}
                    BY DEF Devices
                <5> QED BY <5>1, <5>2 DEF Core, DevicesTypeOK
            <4>2. Cardinality(present) \in Nat
                BY <4>1, FS_Subset, FS_CardinalityType
            <4> QED BY <3>1, <4>1, <4>2 DEF SetToSeqs
        <3>3. \A d \in Devices : Step("add", d, 0) \in Steps /\ Step("add", d, 0).o = 0 /\ Step("add", d, 0).do = "add"
            BY DEF Step, Steps, Dos
        <3> HIDE DEF Step
        <3>4. st \in [1..Cardinality(present) -> Steps] /\ \A i \in DOMAIN st : st[i].o = 0 /\ st[i].do = "add"
            BY <3>1, <3>2, <3>3
        <3>5. st \in Seq(Steps)
            BY <3>2, <3>4
        <3>6. ContextIsInOrder'
            BY <2>7, <3>1 DEF ScanDevices, Core, ContextIsInOrder, NoJob, cbVars, appVars
        <3> QED BY <2>3, <2>7, <3>1, <3>4, <3>5, <3>6 DEF ScanDevices, cbVars, appVars, NoJob, world
    <2>8. CASE \E o \in Object : HandleError(o)
        <3>1. PICK o \in Object : HandleError(o)
            BY <2>8
        <3>2. PICK st : job' = [by |-> "handler", steps |-> st] /\ st = <<Step("remove", objects[o].dev, 0)>>
            BY <3>1 DEF HandleError
        <3>3. objects[o].dev \in Devices
            <4>1. objects \in [Object -> Records]
                BY Types DEF Core
            <4> QED BY <4>1 DEF Records
        <3>4. /\ st \in Seq(Steps)
              /\ \A i \in DOMAIN st : st[i].o = 0 /\ (st[i].do = "add" \/ (st[i].do = "remove" /\ i = 1))
            BY <2>2, <3>2, <3>3
        <3>5. ContextIsInOrder'
            BY <3>1, <3>2 DEF HandleError, HandlerIdle, Core, ContextIsInOrder, NoJob, cbVars, appVars
        <3> QED BY <2>3, <3>1, <3>2, <3>4, <3>5 DEF HandleError, cbVars, appVars, NoJob, world
    <2> QED BY <2>4, <2>5, <2>6, <2>7, <2>8
<1>2. DevicesTypeOK'
    BY <1>1 DEF Core, DevicesTypeOK, Steps, Dos
<1>3. \A o \in Object : InLists(o)' = InLists(o)
    BY <1>1 DEF InLists, Listed, Given, Exited, One
<1>4. ~Exited' /\ ctx' \notin {"exit", "gone"} => ~Exited /\ ctx \notin {"exit", "gone"}
    BY <1>1 DEF Exited
<1>5. job'.by # "none"
    BY <1>1
<1> QED BY <1>1, <1>2, <1>3, <1>4, <1>5, StepsBegin

-----------------------------------------------------------------------------
(* The steps under the lock *)

\* The first step is done, and there are new ones.
Went(new) ==
    /\ job.steps # <<>> /\ job'.by = job.by /\ job.by # "none"
    /\ job' \in [by : {"none", "monitor", "handler", "init", "poll", "open"}, steps : Seq(Steps)]
    /\ Placed(job'.steps)
    /\ \A s : (\E i \in DOMAIN job'.steps : job'.steps[i] = s) <=> s \in new \/ Below(job.steps, s)

\* While there is a step, somebody has the lock.
LEMMA JobIs ==
    ASSUME Core, job.steps # <<>>
    PROVE  /\ job \in [by : {"none", "monitor", "handler", "init", "poll", "open"}, steps : Seq(Steps)]
           /\ job.by # "none" /\ ctx \notin {"init", "exit", "stopped", "gone"}
BY DEF Core, DevicesTypeOK, StepsAreInPlace, ContextIsInOrder, Steps, Dos, NoJob

\* The step in front is done.
LEMMA WentOn ==
    ASSUME Core, job.steps # <<>>, Continue(<<>>)
    PROVE  Went({})
<1>1. /\ job.steps \in Seq(Steps) /\ Placed(job.steps)
    BY StepsAre
<1>2. PICK st : st = <<>> \o Tail(job.steps)
    OBVIOUS
<1>3. st \in Seq(Steps) /\ Placed(st) /\ \A s : (\E i \in DOMAIN st : st[i] = s) <=> Below(job.steps, s)
    BY <1>1, <1>2, StepDone
<1>4. job' = [job EXCEPT !.steps = st]
    BY <1>2 DEF Continue
<1> QED BY <1>3, <1>4, JobIs DEF Went

\* The step in front is followed by another one.
LEMMA WentTo ==
    ASSUME Core, job.steps # <<>>, NEW s \in Steps, Continue(<<s>>),
           Now.dev = Hub /\ Now.do \in {"add", "connect", "arrived"} =>
               s.dev = Hub /\ s.do \in {"add", "connect", "arrived"}
    PROVE  Went({s})
<1>1. /\ job.steps \in Seq(Steps) /\ Placed(job.steps)
    BY StepsAre
<1>2. PICK st : st = <<s>> \o Tail(job.steps)
    OBVIOUS
<1>3. (\E b \in Steps : Below(job.steps, b) /\ b.do # "add") => s.dev = Hub /\ s.do \in {"add", "connect", "arrived"}
    BY StepsAre
<1>4. st \in Seq(Steps) /\ Placed(st) /\ \A b : (\E i \in DOMAIN st : st[i] = b) <=> b = s \/ Below(job.steps, b)
    BY <1>1, <1>2, <1>3, StepReplaced
<1>5. job' = [job EXCEPT !.steps = st]
    BY <1>2 DEF Continue
<1> QED BY <1>4, <1>5, JobIs DEF Went

\* The step in front is followed by that of its hub and waits below it.
LEMMA WentToBoth ==
    ASSUME Core, job.steps # <<>>, NEW s \in Steps, NEW a \in Steps, Continue(<<s, a>>), Waiting(s, a),
           Now.do \notin {"add", "connect", "arrived"}
    PROVE  Went({s, a})
<1>1. /\ job.steps \in Seq(Steps) /\ Placed(job.steps)
    BY StepsAre
<1>2. PICK st : st = <<s, a>> \o Tail(job.steps)
    OBVIOUS
<1>3. NoneWaits(job.steps)
    BY StepsAre DEF NoneWaits
<1>4. st \in Seq(Steps) /\ Placed(st) /\ \A b : (\E i \in DOMAIN st : st[i] = b) <=> b = s \/ b = a \/ Below(job.steps, b)
    <2>1. /\ <<s, a>> \o Tail(job.steps) \in Seq(Steps) /\ Placed(<<s, a>> \o Tail(job.steps))
          /\ \A b : (\E i \in DOMAIN (<<s, a>> \o Tail(job.steps)) : (<<s, a>> \o Tail(job.steps))[i] = b)
                     <=> b = s \/ b = a \/ Below(job.steps, b)
        BY <1>1, <1>3, StepsReplaced
    <2> QED BY <1>2, <2>1
<1>5. job' = [job EXCEPT !.steps = st]
    BY <1>2 DEF Continue
<1> QED BY <1>4, <1>5, JobIs DEF Went

\* Who is in a step, before and after; what waits is for its parent.
Waits(o) == \E s \in Steps : Below(job.steps, s) /\ s.do = "again" /\ s.o = o

\* An object is in the step in front or in one that waits.
LEMMA InStepIs ==
    ASSUME Core, job.steps # <<>>, NEW o, NEW dos, "add" \notin dos
    PROVE  InStep(o, dos) <=> (Now.o = o /\ Now.do \in dos) \/ (Waits(o) /\ "again" \in dos)
<1>1. InStep(o, dos) <=> \E i \in DOMAIN job.steps : job.steps[i].o = o /\ job.steps[i].do \in dos
    BY DEF InStep
<1>2. Now = job.steps[1] /\ 1 \in DOMAIN job.steps
    BY StepsAre
<1>3. ASSUME NEW i \in DOMAIN job.steps, i # 1, job.steps[i].o = o, job.steps[i].do \in dos
      PROVE  Waits(o) /\ "again" \in dos
    <2>1. Below(job.steps, job.steps[i])
        BY <1>3 DEF Below
    <2>2. job.steps[i] \in Steps /\ job.steps[i].do \in {"add", "again"}
        BY <2>1, StepsAre
    <2> QED BY <1>3, <2>1, <2>2 DEF Waits
<1>4. ASSUME Waits(o), "again" \in dos
      PROVE  \E i \in DOMAIN job.steps : job.steps[i].o = o /\ job.steps[i].do \in dos
    BY <1>4 DEF Waits, Below
<1> QED BY <1>1, <1>2, <1>3, <1>4

\* The same of the next state: an object is in a new step or in one that waits.
LEMMA InStepWillBe ==
    ASSUME Core, NEW new, Went(new), NEW o, NEW dos, "add" \notin dos
    PROVE  InStep(o, dos)' <=> (\E s \in new : s.o = o /\ s.do \in dos) \/ (Waits(o) /\ "again" \in dos)
<1>1. InStep(o, dos)' <=> \E i \in DOMAIN job'.steps : job'.steps[i].o = o /\ job'.steps[i].do \in dos
    BY DEF InStep
<1>2. \A s : (\E i \in DOMAIN job'.steps : job'.steps[i] = s) <=> s \in new \/ Below(job.steps, s)
    BY DEF Went
<1>3. \A s : Below(job.steps, s) => s \in Steps /\ s.do \in {"add", "again"}
    BY StepsAre
<1>4. InStep(o, dos)' <=> \E s : (s \in new \/ Below(job.steps, s)) /\ s.o = o /\ s.do \in dos
    BY <1>1, <1>2
<1> QED BY <1>3, <1>4 DEF Waits

\* What waits is a device without a parent, and its hub is in front.
LEMMA WaitsIs ==
    ASSUME Core, job.steps # <<>>, NEW o, Waits(o)
    PROVE  /\ o \in Object /\ objects[o].dev = Device /\ objects[o].parent = 0 /\ Live(o) /\ ~objects[o].attached
           /\ ~Known(Device) /\ Now.dev = Hub /\ Now.do \in {"add", "connect", "arrived"}
           /\ InStep(o, Connecting) /\ Now \in Steps /\ o \notin Range(usbDevs)
<1>1. PICK s \in Steps : Below(job.steps, s) /\ s.do = "again" /\ s.o = o
    BY DEF Waits
<1>2. StepIsTrue(s) /\ Now.dev = Hub /\ Now.do \in {"add", "connect", "arrived"} /\ Now \in Steps
    BY <1>1, StepsAre
<1>3. /\ o \in Object /\ objects[o].dev = Device /\ objects[o].parent = 0 /\ Live(o) /\ ~objects[o].attached
      /\ ~Known(Device)
    BY <1>1, <1>2 DEF StepIsTrue, Connecting, Steps
<1>4. InStep(o, Connecting)
    BY <1>1 DEF InStep, Connecting, Below
<1> QED BY <1>2, <1>3, <1>4 DEF Known, OnList

\* The steps that wait stay true.
LEMMA WentPlaced ==
    ASSUME Core, DevicesTypeOK', NEW new, Went(new), \A s \in new : StepIsTrue(s)',
           \A o : Waits(o) => /\ objects'[o].dev = Device /\ objects'[o].parent = 0
                              /\ Live(o)' /\ ~objects'[o].attached /\ ~Known(Device)'
    PROVE  StepsAreInPlace'
<1>1. ASSUME NEW s, Below(job.steps, s) PROVE StepIsTrue(s)'
    <2>1. s \in Steps /\ ((s.do = "add" /\ s.o = 0) \/ (s.do = "again" /\ StepIsTrue(s)))
        BY <1>1, StepsAre
    <2>2. CASE s.do = "add" /\ s.o = 0
        BY <2>2 DEF StepIsTrue, Connecting
    <2>3. CASE s.do = "again" /\ StepIsTrue(s)
        <3>1. s.dev = Device /\ s.o # 0 /\ Waits(s.o)
            BY <1>1, <2>1, <2>3 DEF StepIsTrue, Waits
        <3> QED BY <2>3, <3>1 DEF StepIsTrue, Connecting
    <2> QED BY <2>1, <2>2, <2>3
<1>2. /\ \A s : (\E i \in DOMAIN job'.steps : job'.steps[i] = s) <=> s \in new \/ Below(job.steps, s)
      /\ job'.by # "none" /\ Placed(job'.steps)
    BY DEF Went
<1>3. ASSUME NEW i \in DOMAIN job'.steps PROVE StepIsTrue(job.steps[i])'
    <2>1. PICK s : s = job'.steps[i]
        OBVIOUS
    <2>2. StepIsTrue(s)'
        BY <1>1, <1>2, <2>1
    <2> QED BY <2>1, <2>2 DEF StepIsTrue
<1> QED BY <1>2, <1>3, StepsContinue

\* The context does not change.
LEMMA WentInOrder ==
    ASSUME Core, NEW new, Went(new), UNCHANGED <<ctx, ready, handles, handler, app>>,
           messages' # <<>> => messages # <<>> \/ ready
    PROVE  ContextIsInOrder' /\ ctx \notin {"init", "exit", "stopped", "gone"} /\ ~Exited /\ ~Exited'
<1>1. ctx \notin {"init", "exit", "stopped", "gone"} /\ job.steps # <<>> /\ job'.by = job.by
    BY JobIs DEF Went
<1> QED BY <1>1 DEF Core, ContextIsInOrder, Exited

\* What a step may do to the list and to who is in a step, with the messages as they are.
LEMMA WentMessages ==
    ASSUME Core, DevicesTypeOK', NEW new, Went(new),
           UNCHANGED <<messages, handler, dropped>>,
           \A o \in Range(usbDevs') : o \in Range(usbDevs) \/ \E i \in DOMAIN job.steps : job.steps[i].o = o,
           \A s \in new : s.o \in Object =>
               \/ s.o \in Range(usbDevs) \/ \E i \in DOMAIN job.steps : job.steps[i].o = s.o
               \/ /\ s.o \notin dropped /\ \A i \in DOMAIN messages : messages[i][2] # s.o
                  /\ \A i \in DOMAIN handler.messages : handler.messages[i][2] # s.o,
           \A o \in Object : o \in Range(usbDevs) \/ InStep(o, {"left"}) => o \in Range(usbDevs') \/ InStep(o, {"left"})',
           \A o \in Object : InStep(o, Connecting)' =>
               \/ InStep(o, Connecting)
               \/ /\ \A i \in DOMAIN messages : messages[i][2] # o
                  /\ \A i \in DOMAIN handler.messages : handler.messages[i][2] # o
    PROVE  LeftOnce' /\ ArrivedIsKept'
<1>1. \A o : (Leaving(o)' <=> Leaving(o)) /\ (LeavingNow(o)' <=> LeavingNow(o))
    BY DEF Leaving, LeavingNow
<1>2. /\ \A i \in DOMAIN messages : messages[i][2] \in Object
      /\ \A i \in DOMAIN handler.messages : handler.messages[i][2] \in Object
    BY Types DEF Core, Changes
<1>3. \A s : (\E i \in DOMAIN job'.steps : job'.steps[i] = s) <=> s \in new \/ Below(job.steps, s)
    BY DEF Went
<1>4. ASSUME NEW o \in Object, Leaving(o) \/ LeavingNow(o) \/ o \in dropped
      PROVE  /\ o \notin Range(usbDevs') /\ \A i \in DOMAIN job'.steps : job'.steps[i].o # o
    <2>1. o \notin Range(usbDevs) /\ \A i \in DOMAIN job.steps : job.steps[i].o # o
        BY <1>4 DEF Core, LeftOnce
    <2>2. \/ o \in dropped
          \/ \E i \in DOMAIN messages : messages[i][2] = o
          \/ \E i \in DOMAIN handler.messages : handler.messages[i][2] = o
        BY <1>4 DEF Leaving, LeavingNow
    <2>3. \A i \in DOMAIN job'.steps : job'.steps[i].o # o
        <3> SUFFICES ASSUME NEW i \in DOMAIN job'.steps, job'.steps[i].o = o PROVE FALSE
            OBVIOUS
        <3>1. job'.steps[i] \in new \/ Below(job.steps, job'.steps[i])
            BY <1>3
        <3>2. CASE job'.steps[i] \in new
            BY <2>1, <2>2, <3>2
        <3>3. CASE Below(job.steps, job'.steps[i])
            BY <2>1, <3>3 DEF Below
        <3> QED BY <3>1, <3>2, <3>3
    <2> QED BY <2>1, <2>3
<1>5. LeftOnce'
    BY <1>1, <1>4 DEF Core, LeftOnce
<1>6. \A o \in Object : Kept(o) => Kept(o)'
    BY <1>1 DEF Kept
<1>7. ArrivedIsKept'
    <2>1. /\ \A i \in DOMAIN messages : Kept(messages[i][2])'
          /\ \A i \in DOMAIN handler.messages : Kept(handler.messages[i][2])' \/ LeavingNow(handler.messages[i][2])'
        BY <1>1, <1>2, <1>6 DEF Core, ArrivedIsKept
    <2>2. ASSUME NEW o \in Object, InStep(o, Connecting)'
          PROVE  /\ \A i \in DOMAIN messages : messages[i][2] # o
                 /\ \A i \in DOMAIN handler.messages : handler.messages[i][2] # o
        BY <2>2 DEF Core, ArrivedIsKept
    <2> QED BY <2>1, <2>2 DEF ArrivedIsKept
<1> QED BY <1>5, <1>7

\* Only the steps change, and no one who is in one.
LEMMA SameSteps ==
    ASSUME Core, DevicesAssumption, NEW new, Went(new),
           UNCHANGED <<world, ctx, objects, usbDevs, ready, messages, cbVars, handler, appVars, dropped>>,
           \A s \in new : StepIsTrue(s)' /\ (s.o \in Object => \E i \in DOMAIN job.steps : job.steps[i].o = s.o),
           \A o \in Object : /\ InStep(o, Connecting)' <=> InStep(o, Connecting)
                             /\ InStep(o, {"unlist"})' <=> InStep(o, {"unlist"})
                             /\ InStep(o, {"left"})' <=> InStep(o, {"left"})
    PROVE  Core'
<1>1. DevicesTypeOK'
    BY DEF Core, DevicesTypeOK, Went, world, cbVars, appVars, Steps, Dos
<1>2. ContextIsInOrder' /\ ctx \notin {"init", "exit", "stopped", "gone"} /\ ~Exited /\ ~Exited'
    BY WentInOrder DEF appVars
<1>3. \A o \in Object : InSteps(o)' = InSteps(o)
    <2>1. \A o : /\ InStep(o, Connecting \cup {"unlist"}) <=> InStep(o, Connecting) \/ InStep(o, {"unlist"})
                 /\ InStep(o, Connecting \cup {"unlist"})' <=> InStep(o, Connecting)' \/ InStep(o, {"unlist"})'
        BY DEF InStep
    <2> QED BY <2>1 DEF InSteps, One
<1>4. Own' = Own
    <2>1. \A o \in Object : InLists(o)' = InLists(o) /\ InMessages(o)' = InMessages(o) /\ InUse(o)' = InUse(o)
        BY ListsSame, MessagesSame, UseSame DEF appVars, Opening
    <2> QED BY <1>1, <1>3, <2>1, OwnSame DEF Core
<1>5. RefsAreHolders'
    <2>1. Counts(objects, Own) /\ Family(objects) /\ \A o \in Range(usbDevs) : Live(o)
        BY RefsAre
    <2>2. Counts(objects', Own') /\ Family(objects') /\ \A o \in Range(usbDevs') : Live(o)'
        BY <1>4, <2>1 DEF Live
    <2> QED BY <1>1, <2>2, RefsWillBe
<1>6. StepsAreInPlace'
    <2>1. \A o : Waits(o) => /\ objects'[o].dev = Device /\ objects'[o].parent = 0
                             /\ Live(o)' /\ ~objects'[o].attached /\ ~Known(Device)'
        BY WaitsIs DEF Live, Known, OnList, Went
    <2> QED BY <1>1, <2>1, WentPlaced
<1>7. ListIsAttached'
    BY <1>2 DEF Core, ListIsAttached, OnList, Live, appVars
<1>8. LeftOnce' /\ ArrivedIsKept'
    <2>1. \A o \in Range(usbDevs') : o \in Range(usbDevs)
        OBVIOUS
    <2>2. \A o \in Object : o \in Range(usbDevs) \/ InStep(o, {"left"}) => o \in Range(usbDevs') \/ InStep(o, {"left"})'
        OBVIOUS
    <2> QED BY <1>1, <2>1, <2>2, WentMessages
<1> QED BY <1>1, <1>2, <1>5, <1>6, <1>7, <1>8 DEF Core

\* linux_enumerate_device() looks at what is known of the device.
LEMMA EnumerateKeeps ==
    ASSUME Core, DevicesAssumption, Enumerate
    PROVE  Core'
<1>1. Went({}) /\ job.steps # <<>> /\ Now.do = "add"
    BY WentOn DEF Enumerate, Does
<1>2. ASSUME NEW o \in Object, NEW dos, "add" \notin dos PROVE InStep(o, dos)' <=> InStep(o, dos)
    BY <1>1, <1>2, InStepIs, InStepWillBe
<1>3. \A o \in Object : /\ InStep(o, Connecting)' <=> InStep(o, Connecting)
                        /\ InStep(o, {"unlist"})' <=> InStep(o, {"unlist"})
                        /\ InStep(o, {"left"})' <=> InStep(o, {"left"})
    BY <1>2 DEF Connecting
<1>4. UNCHANGED <<world, ctx, objects, usbDevs, ready, messages, cbVars, handler, appVars, dropped>>
    BY DEF Enumerate
<1> QED BY <1>1, <1>3, <1>4, SameSteps

\* A new object.
LEMMA AllocCounts ==
    ASSUME DevicesAssumption, NEW objs \in [Object -> Records], NEW h \in [Object -> Nat], Counts(objs, h), Family(objs),
           NEW x \in Object, objs[x].state = "unused", NEW r \in Records,
           r.state = "live" /\ r.refs = 1 /\ r.parent = 0 /\ ~r.attached,
           NEW a, a = [objs EXCEPT ![x] = r]
    PROVE  a \in [Object -> Records] /\ Counts(a, [h EXCEPT ![x] = @ + 1]) /\ Family(a)
<1>1. a \in [Object -> Records] /\ a[x] = r /\ \A o \in Object : o # x => a[o] = objs[o]
    OBVIOUS
<1>2. h[x] = 0 /\ Children(objs, x) = {}
    BY DEF Counts
<1>3. \A o \in Object : Children(a, o) = Children(objs, o)
    <2> SUFFICES ASSUME NEW o \in Object, NEW c \in Object
                 PROVE  a[c].state = "live" /\ a[c].parent = o <=> objs[c].state = "live" /\ objs[c].parent = o
        BY DEF Children
    <2>1. CASE c = x
        BY <1>1, <2>1 DEF Object
    <2>2. CASE c # x
        BY <1>1, <2>2
    <2> QED BY <2>1, <2>2
<1>4. Counts(a, [h EXCEPT ![x] = @ + 1])
    <2> DEFINE more == [h EXCEPT ![x] = @ + 1]
    <2>1. \A o \in Object : more[o] = IF o = x THEN 1 ELSE h[o]
        BY <1>2
    <2>2. Cardinality(Children(a, x)) = 0
        BY <1>2, <1>3, ChildrenAreFinite
    <2> HIDE DEF more
    <2>3. Counts(a, more)
        <3> SUFFICES ASSUME NEW o \in Object
                     PROVE  IF a[o].state = "live"
                            THEN a[o].refs > 0 /\ a[o].refs = more[o] + Cardinality(Children(a, o))
                            ELSE more[o] = 0 /\ Children(a, o) = {}
            BY DEF Counts
        <3>1. CASE o = x
            BY <1>1, <2>1, <2>2, <3>1
        <3>2. CASE o # x
            BY <1>1, <1>3, <2>1, <3>2 DEF Counts
        <3> QED BY <3>1, <3>2
    <2> QED BY <2>3 DEF more
<1>5. Family(a)
    <2>1. ASSUME NEW o \in Object, a[o].state = "live", a[o].parent # 0
          PROVE  a[o].dev = Device /\ a[a[o].parent].dev = Hub
        <3>1. o # x /\ a[o] = objs[o]
            BY <1>1, <2>1
        <3>2. objs[o].dev = Device /\ objs[objs[o].parent].dev = Hub /\ objs[o].parent \in Object
            BY <2>1, <3>1 DEF Family, Records
        <3>3. o \in Children(objs, objs[o].parent)
            BY <2>1, <3>1 DEF Children
        <3>4. objs[o].parent # x
            BY <1>2, <3>3
        <3> QED BY <1>1, <3>1, <3>2, <3>4
    <2> QED BY <2>1 DEF Family
<1> QED BY <1>1, <1>4, <1>5

\* An object that is not there is not in any message.
LEMMA NotThere ==
    ASSUME Core, DevicesAssumption, NEW o \in Object, ~Live(o)
    PROVE  /\ o \notin dropped
           /\ \A i \in DOMAIN messages : messages[i][2] # o
           /\ \A i \in DOMAIN handler.messages : handler.messages[i][2] # o
           /\ o \notin Range(usbDevs) /\ \A dos : dos \subseteq Connecting => ~InStep(o, dos)
<1>1. o \notin dropped /\ ~Leaving(o) /\ ~LeavingNow(o) /\ ~InStep(o, {"left"}) /\ o \notin Range(usbDevs) /\ ~InStep(o, Connecting \cup {"unlist"})
    BY HeldIsThere, RefsAre
<1>2. ~Kept(o)
    BY <1>1 DEF Kept
<1>3. /\ \A i \in DOMAIN messages : messages[i][2] # o
      /\ \A i \in DOMAIN handler.messages : handler.messages[i][2] # o
    BY <1>1, <1>2 DEF Core, ArrivedIsKept
<1> QED BY <1>1, <1>3 DEF InStep

\* usbi_alloc_device(): a new object, kept by the step it is in.
LEMMA AllocDeviceKeeps ==
    ASSUME Core, DevicesAssumption, NEW x \in Object, AllocDevice(x)
    PROVE  Core'
<1>0. PICK d : d = Now.dev
    OBVIOUS
<1>1. /\ job.steps # <<>> /\ Now.do = "add" /\ ~Known(d) /\ objects[x].state = "unused"
      /\ UNCHANGED <<world, ctx, usbDevs, ready, messages, cbVars, handler, appVars, dropped>>
    BY <1>0 DEF AllocDevice, Does
<1>2. d \in Devices /\ objects \in [Object -> Records] /\ Now \in Steps
    BY <1>0, <1>1, StepsAre, Types DEF Steps, Core
<1>3. PICK r : r = [Unused EXCEPT !.dev = d, !.state = "live", !.refs = 1, !.there = TRUE]
    OBVIOUS
<1>4. r = [dev |-> d, state |-> "live", refs |-> 1, attached |-> FALSE, there |-> TRUE, parent |-> 0]
    BY <1>3 DEF Unused
<1>5. r \in Records /\ r.state = "live" /\ r.refs = 1 /\ r.parent = 0 /\ ~r.attached /\ r.dev = d
    BY <1>2, <1>4 DEF Records
<1>6. objects' = [objects EXCEPT ![x] = r]
    BY <1>0, <1>3 DEF AllocDevice
<1>7. objects'[x] = r /\ \A o \in Object : o # x => objects'[o] = objects[o]
    BY <1>2, <1>6
<1>8. PICK s : s = Step(IF d = Hub THEN "connect" ELSE "parent", d, x)
    OBVIOUS
<1>9. s \in Steps /\ s.do = (IF d = Hub THEN "connect" ELSE "parent") /\ s.dev = d /\ s.o = x
    BY <1>2, <1>8 DEF Step, Steps, Dos
<1>10. Went({s})
    <2>1. Continue(<<s>>)
        BY <1>0, <1>8 DEF AllocDevice
    <2> QED BY <1>0, <1>1, <1>9, <2>1, WentTo
<1>11. /\ Counts(objects, Own) /\ Family(objects) /\ Own \in [Object -> Nat]
       /\ \A o \in Range(usbDevs) : o \in Object /\ Live(o)
    BY RefsAre
<1>12. objects' \in [Object -> Records] /\ Counts(objects', [Own EXCEPT ![x] = @ + 1]) /\ Family(objects')
    <2> HIDE DEF Own
    <2> QED BY <1>1, <1>2, <1>5, <1>6, <1>11, AllocCounts
<1>13. /\ ~Live(x) /\ x \notin dropped /\ x \notin Range(usbDevs)
       /\ \A i \in DOMAIN messages : messages[i][2] # x
       /\ \A i \in DOMAIN handler.messages : handler.messages[i][2] # x
    <2>1. ~Live(x)
        BY <1>1 DEF Live
    <2> QED BY <2>1, NotThere
<1>14. DevicesTypeOK'
    BY <1>1, <1>10, <1>12 DEF Core, DevicesTypeOK, Went, world, cbVars, appVars, Steps, Dos, Records
<1>15. ContextIsInOrder' /\ ctx \notin {"init", "exit", "stopped", "gone"} /\ ~Exited /\ ~Exited'
    BY <1>1, <1>10, WentInOrder DEF appVars
<1>16. \A o \in Object : /\ InStep(o, Connecting)' <=> InStep(o, Connecting) \/ o = x
                         /\ InStep(o, {"unlist"})' <=> InStep(o, {"unlist"})
                         /\ InStep(o, {"left"})' <=> InStep(o, {"left"})
                         /\ InStep(o, Connecting \cup {"unlist"})' <=> InStep(o, Connecting \cup {"unlist"}) \/ o = x
    <2>1. \A o, dos : "add" \notin dos => (InStep(o, dos)' <=> (o = x /\ s.do \in dos) \/ InStep(o, dos))
        BY <1>1, <1>9, <1>10, InStepIs, InStepWillBe
    <2>2. s.do \in Connecting /\ s.do # "unlist" /\ s.do # "left" /\ "add" \notin Connecting
        BY <1>9 DEF Connecting
    <2> QED BY <2>1, <2>2
<1>17. ~InStep(x, Connecting) /\ ~InStep(x, Connecting \cup {"unlist"}) /\ ~InStep(x, {"unlist"}) /\ ~InStep(x, {"left"})
    <2>1. ~InStep(x, Connecting \cup {"unlist"}) /\ ~InStep(x, {"left"})
        BY <1>13, HeldIsThere
    <2> QED BY <2>1 DEF InStep
<1>18. Own' = [Own EXCEPT ![x] = @ + 1]
    <2>1. \A o \in Object : InLists(o)' = InLists(o) /\ InMessages(o)' = InMessages(o) /\ InUse(o)' = InUse(o)
        BY <1>1, ListsSame, MessagesSame, UseSame DEF appVars, Opening
    <2>2. \A o \in Object : InSteps(o)' = InSteps(o) + (IF o = x THEN 1 ELSE 0)
        BY <1>16, <1>17 DEF InSteps, One
    <2>3. \A o \in Object : InLists(o) \in Nat /\ InMessages(o) \in Nat /\ InSteps(o) \in Nat /\ InUse(o) \in Nat
        BY HoldersAre DEF Core
    <2>4. \A o \in Object : InLists(o)' + InMessages(o)' + InSteps(o)' + InUse(o)'
                             = InLists(o) + InMessages(o) + InSteps(o) + InUse(o) + (IF o = x THEN 1 ELSE 0)
        BY <2>1, <2>2, <2>3
    <2> QED BY <1>14, <2>4, OwnMore DEF Core
<1>19. RefsAreHolders'
    <2>1. Counts(objects', Own')
        BY <1>12, <1>18
    <2>2. \A o \in Range(usbDevs') : Live(o)'
        BY <1>1, <1>7, <1>11, <1>13 DEF Live
    <2> QED BY <1>12, <1>14, <2>1, <2>2, RefsWillBe
<1>20. \A c \in Devices : OnList(c)' = OnList(c)
    BY <1>1, <1>7, <1>11, <1>13 DEF OnList
<1>21. StepsAreInPlace'
    <2>1. StepIsTrue(s)'
        <3>1. Live(x)' /\ ~objects'[x].attached /\ objects'[x].parent = 0 /\ objects'[x].dev = d /\ ~Known(d)'
            BY <1>1, <1>2, <1>5, <1>7, <1>20 DEF Live, Known
        <3>2. s.do = "parent" => d = Device
            BY <1>2, <1>9 DEF Devices
        <3>3. s.o # 0
            BY <1>9 DEF Object
        <3> QED BY <1>9, <3>1, <3>2, <3>3 DEF StepIsTrue
    <2>2. \A o : Waits(o) => /\ objects'[o].dev = Device /\ objects'[o].parent = 0
                             /\ Live(o)' /\ ~objects'[o].attached /\ ~Known(Device)'
        <3> SUFFICES ASSUME NEW o, Waits(o)
                     PROVE  /\ objects'[o].dev = Device /\ objects'[o].parent = 0
                            /\ Live(o)' /\ ~objects'[o].attached /\ ~Known(Device)'
            OBVIOUS
        <3>1. /\ o \in Object /\ objects[o].dev = Device /\ objects[o].parent = 0 /\ Live(o) /\ ~objects[o].attached
              /\ ~Known(Device)
            BY <1>1, WaitsIs
        <3>2. o # x /\ Device \in Devices
            BY <1>13, <3>1 DEF Devices
        <3> QED BY <1>7, <1>20, <3>1, <3>2 DEF Known, Live
    <2> QED BY <1>10, <1>14, <2>1, <2>2, WentPlaced
<1>22. ListIsAttached'
    <2>1. \A o \in Object : Live(o)' => (o \in Range(usbDevs') <=> objects'[o].attached \/ InStep(o, {"unlist"})')
        <3> SUFFICES ASSUME NEW o \in Object, Live(o)'
                     PROVE  o \in Range(usbDevs') <=> objects'[o].attached \/ InStep(o, {"unlist"})'
            OBVIOUS
        <3>1. CASE o = x
            BY <1>1, <1>5, <1>7, <1>13, <1>16, <1>17, <3>1
        <3>2. CASE o # x
            BY <1>1, <1>7, <1>15, <1>16, <3>2 DEF Core, ListIsAttached, Live
        <3> QED BY <3>1, <3>2
    <2> QED BY <1>1, <1>20, <2>1 DEF Core, ListIsAttached, appVars
<1>23. LeftOnce' /\ ArrivedIsKept'
    <2>1. \A b \in {s} : b.o \in Object =>
               \/ \E i \in DOMAIN job.steps : job.steps[i].o = b.o
               \/ /\ b.o \notin dropped /\ \A i \in DOMAIN messages : messages[i][2] # b.o
                  /\ \A i \in DOMAIN handler.messages : handler.messages[i][2] # b.o
        BY <1>9, <1>13
    <2>2. \A o \in Object : o \in Range(usbDevs) \/ InStep(o, {"left"}) => o \in Range(usbDevs') \/ InStep(o, {"left"})'
        BY <1>1, <1>16
    <2>3. \A o \in Object : InStep(o, Connecting)' =>
               \/ InStep(o, Connecting)
               \/ /\ \A i \in DOMAIN messages : messages[i][2] # o
                  /\ \A i \in DOMAIN handler.messages : handler.messages[i][2] # o
        BY <1>13, <1>16
    <2>4. \A o \in Range(usbDevs') : o \in Range(usbDevs) \/ \E i \in DOMAIN job.steps : job.steps[i].o = o
        BY <1>1
    <2>5. UNCHANGED <<messages, handler, dropped>>
        BY <1>1
    <2> QED BY <1>10, <1>14, <2>1, <2>2, <2>3, <2>4, <2>5, WentMessages
<1> QED BY <1>14, <1>15, <1>19, <1>21, <1>22, <1>23 DEF Core

\* An object with its parent.
LEMMA AdoptCounts ==
    ASSUME DevicesAssumption, NEW objs \in [Object -> Records], NEW h \in [Object -> Nat], Counts(objs, h), Family(objs),
           NEW c \in Object, objs[c].state = "live", objs[c].parent = 0, objs[c].dev = Device,
           NEW p \in Object, objs[p].state = "live", objs[p].dev = Hub, h[p] > 0,
           NEW r, r = [objs EXCEPT ![c].parent = p], NEW less, less = [h EXCEPT ![p] = @ - 1]
    PROVE  /\ r \in [Object -> Records] /\ Counts(r, less) /\ Family(r)
           /\ \A o \in Object : /\ r[o].state = objs[o].state /\ r[o].dev = objs[o].dev
                                /\ r[o].attached = objs[o].attached
                                /\ o # c => r[o].parent = objs[o].parent
<1>1. c # p
    BY DEF DevicesAssumption
<1>2. PICK k : k = [objs[c] EXCEPT !.parent = p]
    OBVIOUS
<1>3. /\ k \in Records /\ k.state = objs[c].state /\ k.dev = Device /\ k.refs = objs[c].refs
      /\ k.attached = objs[c].attached /\ k.parent = p
    BY <1>2 DEF Records
<1>4. r = [objs EXCEPT ![c] = k]
    BY <1>2
<1>5. /\ r \in [Object -> Records]
      /\ \A o \in Object : r[o] = IF o = c THEN k ELSE objs[o]
    BY <1>3, <1>4
<1>6. \A o \in Object : /\ r[o].state = objs[o].state /\ r[o].dev = objs[o].dev
                        /\ r[o].attached = objs[o].attached /\ r[o].refs = objs[o].refs
                        /\ r[o].parent = IF o = c THEN p ELSE objs[o].parent
    BY <1>3, <1>5
<1>7. /\ \A o \in Object : o # p => Children(r, o) = Children(objs, o)
      /\ Children(r, p) = Children(objs, p) \cup {c} /\ c \notin Children(objs, p)
    BY <1>6 DEF Children, Object
<1>8. Cardinality(Children(r, p)) = Cardinality(Children(objs, p)) + 1
    BY <1>7, ChildAdded
<1>9. Counts(r, less)
    <2> SUFFICES ASSUME NEW o \in Object
                 PROVE  IF r[o].state = "live"
                        THEN r[o].refs > 0 /\ r[o].refs = less[o] + Cardinality(Children(r, o))
                        ELSE less[o] = 0 /\ Children(r, o) = {}
        BY DEF Counts
    <2>1. CASE o = p
        <3>1. objs[p].refs > 0 /\ objs[p].refs = h[p] + Cardinality(Children(objs, p)) /\ objs[p].refs \in Nat
            BY DEF Counts, Records
        <3>2. Cardinality(Children(objs, p)) \in Nat /\ h[p] \in Nat /\ less[p] = h[p] - 1
            BY ChildrenAreFinite
        <3>3. r[p].refs = objs[p].refs /\ r[p].state = "live"
            BY <1>6
        <3> QED BY <1>8, <2>1, <3>1, <3>2, <3>3
    <2>2. CASE o # p
        <3>1. /\ r[o].state = objs[o].state /\ r[o].refs = objs[o].refs /\ Children(r, o) = Children(objs, o)
              /\ less[o] = h[o]
            BY <1>6, <1>7, <2>2
        <3> QED BY <3>1 DEF Counts
    <2> QED BY <2>1, <2>2
<1>10. Family(r)
    <2>1. \A o \in Object : objs[o].parent # 0 => objs[o].parent \in Object
        BY DEF Records
    <2> QED BY <1>6, <2>1 DEF Family
<1> QED BY <1>5, <1>6, <1>9, <1>10

\* linux_get_parent_info(): the parent gains a device and a reference, or is enumerated first.
LEMMA GetParentKeeps ==
    ASSUME Core, DevicesAssumption, GetParent
    PROVE  Core'
<1>1. /\ job.steps # <<>> /\ Now.do \in {"parent", "again"}
      /\ UNCHANGED <<world, ctx, usbDevs, ready, messages, cbVars, handler, appVars, dropped>>
    BY DEF GetParent, Does
<1>2. PICK c : c = Now.o
    OBVIOUS
<1>3. /\ c \in Object /\ Now.dev = Device /\ objects[c].parent = 0 /\ objects[c].dev = Device
      /\ Live(c) /\ ~objects[c].attached /\ ~Known(Device) /\ Now \in Steps
      /\ \E i \in DOMAIN job.steps : job.steps[i].o = c
    <2>1. Now \in Steps /\ StepIsTrue(Now) /\ Now = job.steps[1] /\ 1 \in DOMAIN job.steps
        BY <1>1, StepsAre
    <2> QED BY <1>1, <1>2, <2>1 DEF StepIsTrue, Connecting, Steps
<1>4. \A o : ~Waits(o)
    BY <1>1, <1>3, WaitsIs DEF DevicesAssumption
<1>5. PICK s : s = Step("connect", Now.dev, Now.o)
    OBVIOUS
<1>6. s \in Steps /\ s.do = "connect" /\ s.dev = Device /\ s.o = c /\ s.o # 0
    BY <1>2, <1>3, <1>5 DEF Step, Steps, Dos, Devices, Object
<1>7. ASSUME NEW new, Went(new), \E s2 \in new : s2.o = c /\ s2.do \in Connecting,
             \A s2 \in new : (s2.o = c /\ s2.do \in Connecting) \/ (s2.do = "add" /\ s2.o = 0)
      PROVE  /\ \A o \in Object : /\ InStep(o, Connecting)' <=> InStep(o, Connecting)
                                  /\ InStep(o, {"unlist"})' <=> InStep(o, {"unlist"})
                                  /\ InStep(o, {"left"})' <=> InStep(o, {"left"})
    <2>1. \A o, dos : "add" \notin dos =>
              /\ InStep(o, dos) <=> Now.o = o /\ Now.do \in dos
              /\ InStep(o, dos)' <=> \E s2 \in new : s2.o = o /\ s2.do \in dos
        BY <1>1, <1>4, <1>7, InStepIs, InStepWillBe
    <2>2. Now.do \in Connecting /\ Now.do # "unlist" /\ Now.do # "left" /\ "add" \notin Connecting
          /\ \A do \in Connecting : do # "unlist" /\ do # "left"
        BY <1>1 DEF Connecting
    <2>3. \A o \in Object : o # 0
        BY DEF Object
    <2>4. \A o \in Object : InStep(o, Connecting)' <=> InStep(o, Connecting)
        BY <1>2, <1>7, <2>1, <2>2, <2>3
    <2>5. \A o \in Object : ~InStep(o, {"unlist"})' /\ ~InStep(o, {"unlist"}) /\ ~InStep(o, {"left"})' /\ ~InStep(o, {"left"})
        BY <1>7, <2>1, <2>2
    <2> QED BY <2>4, <2>5
<1>8. CASE OnList(Hub) = {}
    <2>1. UNCHANGED <<world, ctx, objects, usbDevs, ready, messages, cbVars, handler, appVars, dropped>>
        BY <1>1, <1>8 DEF GetParent
    <2>2. CASE Now.do = "parent"
        <3>1. PICK a, b : a = Step("add", Hub, 0) /\ b = Step("again", Now.dev, Now.o)
            OBVIOUS
        <3>2. /\ a \in Steps /\ b \in Steps /\ a.do = "add" /\ a.dev = Hub /\ a.o = 0
              /\ b.do = "again" /\ b.dev = Device /\ b.o = c /\ b.o # 0
            BY <1>2, <1>3, <3>1 DEF Step, Steps, Dos, Devices, Object
        <3>3. Went({a, b})
            <4>1. Continue(<<a, b>>)
                BY <1>8, <2>2, <3>1 DEF GetParent, Does
            <4>2. Waiting(a, b) /\ Now.do \notin {"add", "connect", "arrived"}
                BY <2>2, <3>2 DEF Waiting
            <4> QED BY <1>1, <3>2, <4>1, <4>2, WentToBoth
        <3>4. StepIsTrue(a)' /\ StepIsTrue(b)'
            BY <1>3, <2>1, <3>2 DEF StepIsTrue, Connecting, Live, Known, OnList
        <3>5. \A s2 \in {a, b} : StepIsTrue(s2)' /\ (s2.o \in Object => \E i \in DOMAIN job.steps : job.steps[i].o = s2.o)
            BY <1>3, <3>2, <3>4 DEF Object
        <3>6. \A o \in Object : /\ InStep(o, Connecting)' <=> InStep(o, Connecting)
                                /\ InStep(o, {"unlist"})' <=> InStep(o, {"unlist"})
                                /\ InStep(o, {"left"})' <=> InStep(o, {"left"})
            BY <1>7, <3>2, <3>3 DEF Connecting
        <3> QED BY <2>1, <3>3, <3>5, <3>6, SameSteps
    <2>3. CASE Now.do = "again"
        <3>1. Went({s})
            <4>1. Continue(<<s>>)
                BY <1>5, <1>8, <2>3 DEF GetParent, Does
            <4> QED BY <1>1, <1>6, <2>3, <4>1, WentTo
        <3>2. StepIsTrue(s)'
            BY <1>3, <1>6, <2>1 DEF StepIsTrue, Connecting, Live, Known, OnList
        <3>3. \A s2 \in {s} : StepIsTrue(s2)' /\ (s2.o \in Object => \E i \in DOMAIN job.steps : job.steps[i].o = s2.o)
            BY <1>3, <1>6, <3>2
        <3>4. \A o \in Object : /\ InStep(o, Connecting)' <=> InStep(o, Connecting)
                                /\ InStep(o, {"unlist"})' <=> InStep(o, {"unlist"})
                                /\ InStep(o, {"left"})' <=> InStep(o, {"left"})
            BY <1>6, <1>7, <3>1 DEF Connecting
        <3> QED BY <2>1, <3>1, <3>3, <3>4, SameSteps
    <2> QED BY <1>1, <2>2, <2>3
<1>9. CASE OnList(Hub) # {}
    <2>1. PICK p \in OnList(Hub) : objects' = [Ref(objects, p) EXCEPT ![Now.o].parent = p]
        BY <1>9 DEF GetParent
    <2>2. Went({s})
        <3>1. Continue(<<s>>)
            BY <1>5, <1>9 DEF GetParent
        <3> QED BY <1>1, <1>6, <3>1, WentTo
    <2>3. /\ Counts(objects, Own) /\ Family(objects) /\ Own \in [Object -> Nat] /\ objects \in [Object -> Records]
          /\ \A o \in Range(usbDevs) : o \in Object /\ Live(o)
        BY RefsAre, Types DEF Core
    <2>4. p \in Object /\ objects[p].state = "live" /\ objects[p].dev = Hub
        BY <2>3 DEF OnList, Live
    <2>5. /\ objects' \in [Object -> Records] /\ Counts(objects', Own) /\ Family(objects')
          /\ \A o \in Object : /\ objects'[o].state = objects[o].state /\ objects'[o].dev = objects[o].dev
                               /\ objects'[o].attached = objects[o].attached
                               /\ o # c => objects'[o].parent = objects[o].parent
        <3> HIDE DEF Own
        <3>1. PICK b, more, r : b = Ref(objects, p) /\ more = [Own EXCEPT ![p] = @ + 1] /\ r = [b EXCEPT ![c].parent = p]
            OBVIOUS
        <3>2. /\ b \in [Object -> Records] /\ Counts(b, more)
              /\ \A o \in Object : /\ b[o].state = objects[o].state /\ b[o].dev = objects[o].dev
                                   /\ b[o].attached = objects[o].attached
                                   /\ b[o].parent = objects[o].parent
            <4>1. RefTaken(objects, p, b, more)
                BY <2>3, <2>4, <3>1, RefIs
            <4> QED BY <4>1 DEF RefTaken
        <3>3. more \in [Object -> Nat] /\ more[p] > 0 /\ Own = [more EXCEPT ![p] = @ - 1]
            <4>1. more \in [Object -> Nat] /\ more[p] > 0 /\ \A o \in Object : more[o] = IF o = p THEN Own[o] + 1 ELSE Own[o]
                BY <2>3, <2>4, <3>1
            <4>2. PICK l : l = [more EXCEPT ![p] = @ - 1]
                OBVIOUS
            <4>3. l \in [Object -> Nat] /\ \A o \in Object : l[o] = Own[o]
                BY <2>3, <2>4, <4>1, <4>2
            <4>4. l = Own
                BY <2>3, <4>3
            <4> QED BY <4>1, <4>2, <4>4
        <3>4. Family(b)
            BY <2>3, <3>2 DEF Family, Records
        <3>5. b[c].state = "live" /\ b[c].parent = 0 /\ b[c].dev = Device /\ b[p].state = "live" /\ b[p].dev = Hub
            BY <1>3, <2>4, <3>2 DEF Live
        <3>6. /\ r \in [Object -> Records] /\ Counts(r, Own) /\ Family(r)
              /\ \A o \in Object : /\ r[o].state = b[o].state /\ r[o].dev = b[o].dev
                                   /\ r[o].attached = b[o].attached
                                   /\ o # c => r[o].parent = b[o].parent
            BY <1>3, <2>4, <3>1, <3>2, <3>3, <3>4, <3>5, AdoptCounts
        <3>7. objects' = r
            BY <1>2, <2>1, <3>1
        <3> QED BY <3>2, <3>6, <3>7
    <2>6. DevicesTypeOK'
        BY <1>1, <2>2, <2>5 DEF Core, DevicesTypeOK, Went, world, cbVars, appVars, Steps, Dos, Records
    <2>7. ContextIsInOrder' /\ ctx \notin {"init", "exit", "stopped", "gone"} /\ ~Exited /\ ~Exited'
        BY <1>1, <2>2, WentInOrder DEF appVars
    <2>8. \A o \in Object : /\ InStep(o, Connecting)' <=> InStep(o, Connecting)
                            /\ InStep(o, {"unlist"})' <=> InStep(o, {"unlist"})
                            /\ InStep(o, {"left"})' <=> InStep(o, {"left"})
        BY <1>6, <1>7, <2>2 DEF Connecting
    <2>9. Own' = Own
        <3>1. \A o \in Object : InLists(o)' = InLists(o) /\ InMessages(o)' = InMessages(o) /\ InUse(o)' = InUse(o)
            BY <1>1, ListsSame, MessagesSame, UseSame DEF appVars, Opening
        <3>2. \A o \in Object : InSteps(o)' = InSteps(o)
            <4>1. \A o : /\ InStep(o, Connecting \cup {"unlist"}) <=> InStep(o, Connecting) \/ InStep(o, {"unlist"})
                         /\ InStep(o, Connecting \cup {"unlist"})' <=> InStep(o, Connecting)' \/ InStep(o, {"unlist"})'
                BY DEF InStep
            <4> QED BY <2>8, <4>1 DEF InSteps, One
        <3> QED BY <2>6, <3>1, <3>2, OwnSame DEF Core
    <2>10. RefsAreHolders'
        <3>1. \A o \in Range(usbDevs') : Live(o)'
            BY <1>1, <2>3, <2>5 DEF Live
        <3> QED BY <2>5, <2>6, <2>9, <3>1, RefsWillBe
    <2>11. \A d : OnList(d)' = OnList(d)
        BY <1>1, <2>3, <2>5 DEF OnList
    <2>12. StepsAreInPlace'
        <3>1. StepIsTrue(s)'
            <4>1. Live(c)' /\ ~objects'[c].attached /\ objects'[c].dev = Device /\ ~Known(Device)'
                BY <1>3, <2>5, <2>11 DEF Live, Known
            <4> QED BY <1>6, <4>1 DEF StepIsTrue
        <3>2. \A s2 \in {s} : StepIsTrue(s2)'
            BY <3>1
        <3> QED BY <1>4, <2>2, <2>6, <3>2, WentPlaced
    <2>13. ListIsAttached'
        <3>1. \A o \in Object : Live(o)' => (o \in Range(usbDevs') <=> objects'[o].attached \/ InStep(o, {"unlist"})')
            BY <1>1, <2>5, <2>7, <2>8 DEF Core, ListIsAttached, Live
        <3> QED BY <1>1, <2>11, <3>1 DEF Core, ListIsAttached, appVars
    <2>14. LeftOnce' /\ ArrivedIsKept'
        <3>1. \A s2 \in {s} : s2.o \in Object => \E i \in DOMAIN job.steps : job.steps[i].o = s2.o
            BY <1>3, <1>6
        <3>2. \A o \in Object : o \in Range(usbDevs) \/ InStep(o, {"left"}) => o \in Range(usbDevs') \/ InStep(o, {"left"})'
            BY <1>1, <2>8
        <3>3. \A o \in Range(usbDevs') : o \in Range(usbDevs) \/ \E i \in DOMAIN job.steps : job.steps[i].o = o
            BY <1>1
        <3>4. UNCHANGED <<messages, handler, dropped>>
            BY <1>1
        <3> QED BY <2>2, <2>6, <2>8, <3>1, <3>2, <3>3, <3>4, WentMessages
    <2> QED BY <2>6, <2>7, <2>10, <2>12, <2>13, <2>14 DEF Core
<1> QED BY <1>8, <1>9

\* The parts of a step count, by what is in one.
LEMMA InStepsAre ==
    /\ \A o : InSteps(o) = One(InStep(o, Connecting) \/ InStep(o, {"unlist"})) + 2 * One(InStep(o, {"left"}))
    /\ \A o : InSteps(o)' = One(InStep(o, Connecting)' \/ InStep(o, {"unlist"})') + 2 * One(InStep(o, {"left"})')
<1>1. \A o : /\ InStep(o, Connecting \cup {"unlist"}) <=> InStep(o, Connecting) \/ InStep(o, {"unlist"})
             /\ InStep(o, Connecting \cup {"unlist"})' <=> InStep(o, Connecting)' \/ InStep(o, {"unlist"})'
    BY DEF InStep
<1> QED BY <1>1 DEF InSteps, One

\* What the first step is about.
LEMMA FirstIs ==
    ASSUME Core, DevicesAssumption, job.steps # <<>>, NEW c, c = Now.o, Now.do \notin {"add", "remove"}
    PROVE  /\ c \in Object /\ c # 0 /\ objects[c].dev = Now.dev /\ Now.dev \in Devices
           /\ ~Waits(c) /\ (\E i \in DOMAIN job.steps : job.steps[i].o = c)
           /\ c \notin dropped /\ ~Leaving(c) /\ ~LeavingNow(c)
<1>1. /\ Now \in Steps /\ StepIsTrue(Now) /\ Now = job.steps[1] /\ 1 \in DOMAIN job.steps
    BY StepsAre
<1>2. c \in Object /\ c # 0 /\ objects[c].dev = Now.dev /\ Now.dev \in Devices /\ (\E i \in DOMAIN job.steps : job.steps[i].o = c)
    BY <1>1 DEF StepIsTrue, Steps
<1>3. ~Waits(c)
    BY <1>2, WaitsIs DEF DevicesAssumption
<1>4. c \notin dropped /\ ~Leaving(c) /\ ~LeavingNow(c)
    BY <1>2 DEF Core, LeftOnce
<1> QED BY <1>2, <1>3, <1>4

\* Attached or not, the count is the same.
Marked(objs, x, r) == \/ r = [objs EXCEPT ![x].attached = TRUE] /\ r[x].attached
                      \/ r = [objs EXCEPT ![x].attached = FALSE] /\ ~r[x].attached

\* Either way it is marked.
LEMMA MarkedIs ==
    ASSUME NEW objs \in [Object -> Records], NEW x \in Object
    PROVE  /\ [objs EXCEPT ![x].attached = TRUE][x].attached
           /\ ~[objs EXCEPT ![x].attached = FALSE][x].attached
BY DEF Records

\* Marking an object keeps the account, and the others are the same.
LEMMA AttachedIs ==
    ASSUME NEW objs \in [Object -> Records], NEW h, Counts(objs, h), Family(objs),
           NEW x \in Object, NEW r, Marked(objs, x, r)
    PROVE  /\ r \in [Object -> Records] /\ Counts(r, h) /\ Family(r)
           /\ \A o \in Object : /\ r[o].state = objs[o].state /\ r[o].dev = objs[o].dev
                                /\ r[o].parent = objs[o].parent
                                /\ o # x => r[o].attached = objs[o].attached
<1>1. PICK k : /\ r = [objs EXCEPT ![x] = k]
               /\ k = [objs[x] EXCEPT !.attached = TRUE] \/ k = [objs[x] EXCEPT !.attached = FALSE]
    BY DEF Marked
<1>2. objs[x] \in Records
    OBVIOUS
<1>3. /\ k \in Records /\ k.state = objs[x].state /\ k.dev = objs[x].dev /\ k.refs = objs[x].refs
      /\ k.parent = objs[x].parent
    <2>1. CASE k = [objs[x] EXCEPT !.attached = TRUE]
        BY <1>2, <2>1 DEF Records
    <2>2. CASE k = [objs[x] EXCEPT !.attached = FALSE]
        BY <1>2, <2>2 DEF Records
    <2> QED BY <1>1, <2>1, <2>2
<1>4. r \in [Object -> Records] /\ \A o \in Object : r[o] = IF o = x THEN k ELSE objs[o]
    BY <1>1, <1>3
<1>5. \A o \in Object : /\ r[o].state = objs[o].state /\ r[o].refs = objs[o].refs
                        /\ r[o].parent = objs[o].parent
    BY <1>3, <1>4
<1>6. \A o \in Object : r[o].dev = objs[o].dev /\ (o # x => r[o].attached = objs[o].attached)
    BY <1>3, <1>4
<1>7. Counts(r, h)
    <2>1. \A o \in Object : Children(r, o) = Children(objs, o)
        BY <1>5 DEF Children
    <2> QED BY <1>5, <2>1 DEF Counts
<1>8. Family(r)
    <2>1. \A o \in Object : objs[o].parent # 0 => objs[o].parent \in Object
        BY DEF Records
    <2> QED BY <1>5, <1>6, <2>1 DEF Family
<1> QED BY <1>4, <1>5, <1>6, <1>7, <1>8

\* usbi_connect_device(): the reference of the step becomes that of the list.
LEMMA ConnectKeeps ==
    ASSUME Core, DevicesAssumption, Connect
    PROVE  Core'
<1>1. /\ job.steps # <<>> /\ Now.do = "connect"
      /\ UNCHANGED <<world, ctx, ready, messages, cbVars, handler, appVars, dropped>>
    BY DEF Connect, Does
<1>2. PICK c, d : c = Now.o /\ d = Now.dev
    OBVIOUS
<1>3. /\ c \in Object /\ c # 0 /\ objects[c].dev = d /\ d \in Devices /\ ~Waits(c)
      /\ (\E i \in DOMAIN job.steps : job.steps[i].o = c)
      /\ Live(c) /\ ~objects[c].attached /\ ~Known(d)
    <2>1. Now \in Steps /\ StepIsTrue(Now)
        BY <1>1, StepsAre
    <2>2. Live(c) /\ ~objects[c].attached /\ ~Known(d)
        BY <1>1, <1>2, <2>1 DEF StepIsTrue, Connecting
    <2> QED BY <1>1, <1>2, <2>2, FirstIs
<1>4. PICK s : s = Step("arrived", d, c)
    OBVIOUS
<1>5. s \in Steps /\ s.do = "arrived" /\ s.dev = d /\ s.o = c
    BY <1>3, <1>4 DEF Step, Steps, Dos
<1>6. Went({s})
    <2>1. Continue(<<s>>)
        BY <1>2, <1>4 DEF Connect
    <2> QED BY <1>1, <1>2, <1>5, <2>1, WentTo
<1>7. /\ Counts(objects, Own) /\ Family(objects) /\ Own \in [Object -> Nat] /\ objects \in [Object -> Records]
      /\ \A o \in Range(usbDevs) : o \in Object /\ Live(o)
      /\ usbDevs \in Seq(Object) /\ IsInjective(usbDevs)
    BY RefsAre, Types DEF Core, ListIsAttached
<1>8. /\ objects' \in [Object -> Records] /\ Counts(objects', Own) /\ Family(objects')
      /\ \A o \in Object : /\ objects'[o].state = objects[o].state /\ objects'[o].dev = objects[o].dev
                           /\ objects'[o].parent = objects[o].parent
                           /\ o # c => objects'[o].attached = objects[o].attached
      /\ objects'[c].attached
    <2>1. PICK r : r = [objects EXCEPT ![c].attached = TRUE]
        OBVIOUS
    <2>2. Marked(objects, c, r) /\ r[c].attached
        BY <1>3, <1>7, <2>1, MarkedIs DEF Marked
    <2> HIDE DEF Own
    <2>3. /\ r \in [Object -> Records] /\ Counts(r, Own) /\ Family(r)
          /\ \A o \in Object : /\ r[o].state = objects[o].state /\ r[o].dev = objects[o].dev
                               /\ r[o].parent = objects[o].parent
                               /\ o # c => r[o].attached = objects[o].attached
        BY <1>3, <1>7, <2>2, AttachedIs
    <2>4. objects' = r
        BY <1>2, <2>1 DEF Connect
    <2> QED BY <2>2, <2>3, <2>4
<1>9. c \notin Range(usbDevs)
    BY <1>3 DEF Known, OnList
<1>10. /\ usbDevs' \in Seq(Object) /\ IsInjective(usbDevs')
       /\ \A o : o \in Range(usbDevs') <=> o = c \/ o \in Range(usbDevs)
    BY <1>2, <1>3, <1>7, <1>9, ListIs DEF Connect
<1>11. DevicesTypeOK'
    BY <1>1, <1>6, <1>8, <1>10 DEF Core, DevicesTypeOK, Went, world, cbVars, appVars, Steps, Dos, Records
<1>12. ContextIsInOrder' /\ ctx \notin {"init", "exit", "stopped", "gone"} /\ ~Exited /\ ~Exited'
    BY <1>1, <1>6, WentInOrder DEF appVars
<1>13. \A o : /\ InStep(o, Connecting) <=> o = c \/ Waits(o)
              /\ InStep(o, Connecting)' <=> Waits(o)
              /\ ~InStep(o, {"unlist"}) /\ ~InStep(o, {"left"})
              /\ ~InStep(o, {"unlist"})' /\ ~InStep(o, {"left"})'
    <2>1. \A o, dos : "add" \notin dos =>
              /\ InStep(o, dos) <=> (Now.o = o /\ Now.do \in dos) \/ (Waits(o) /\ "again" \in dos)
              /\ InStep(o, dos)' <=> (o = c /\ s.do \in dos) \/ (Waits(o) /\ "again" \in dos)
        BY <1>1, <1>5, <1>6, InStepIs, InStepWillBe
    <2> QED BY <1>1, <1>2, <1>5, <2>1 DEF Connecting
<1>14. Own' = Own
    <2>1. \A o \in Object : InMessages(o)' = InMessages(o) /\ InUse(o)' = InUse(o)
        BY <1>1, MessagesSame, UseSame DEF appVars, Opening
    <2>2. \A o \in Object : InSteps(o) = InSteps(o)' + (IF o = c THEN 1 ELSE 0)
        BY <1>3, <1>13, InStepsAre DEF One
    <2>3. \A o \in Object : InLists(o)' = InLists(o) + (IF o = c THEN 1 ELSE 0)
        BY <1>1, <1>9, <1>10, <1>12 DEF InLists, Listed, Given, One, appVars
    <2>4. \A o \in Object : InLists(o) \in Nat /\ InMessages(o) \in Nat /\ InSteps(o)' \in Nat /\ InUse(o) \in Nat
        BY <1>11, HoldersAre, HoldersWillBe DEF Core
    <2>5. \A o \in Object : InLists(o)' + InMessages(o)' + InSteps(o)' + InUse(o)'
                             = InLists(o) + InMessages(o) + InSteps(o) + InUse(o)
        BY <2>1, <2>2, <2>3, <2>4
    <2> QED BY <1>11, <2>5, OwnSame DEF Core
<1>15. RefsAreHolders'
    <2>1. \A o \in Range(usbDevs') : Live(o)'
        BY <1>3, <1>7, <1>8, <1>10 DEF Live
    <2> QED BY <1>8, <1>11, <1>14, <2>1, RefsWillBe
<1>16. \A e : \A o : o \in OnList(e)' <=> o \in OnList(e) \/ (o = c /\ e = d)
    BY <1>3, <1>7, <1>8, <1>10 DEF OnList
<1>17. StepsAreInPlace'
    <2>1. \A o : Waits(o) => /\ objects'[o].dev = Device /\ objects'[o].parent = 0
                             /\ Live(o)' /\ ~objects'[o].attached /\ ~Known(Device)'
        <3> SUFFICES ASSUME NEW o, Waits(o)
                     PROVE  /\ objects'[o].dev = Device /\ objects'[o].parent = 0
                            /\ Live(o)' /\ ~objects'[o].attached /\ ~Known(Device)'
            OBVIOUS
        <3>1. /\ o \in Object /\ objects[o].dev = Device /\ objects[o].parent = 0 /\ Live(o) /\ ~objects[o].attached
              /\ ~Known(Device) /\ o # c /\ d = Hub
            BY <1>1, <1>2, <1>3, WaitsIs
        <3>2. ~Known(Device)'
            BY <1>16, <3>1 DEF Known, DevicesAssumption
        <3> QED BY <1>8, <3>1, <3>2 DEF Live
    <2>2. \A s2 \in {s} : StepIsTrue(s2)'
        BY <1>3, <1>5, <1>8, <1>10 DEF StepIsTrue, Connecting
    <2> QED BY <1>6, <1>11, <2>1, <2>2, WentPlaced
<1>18. ListIsAttached'
    <2>1. \A e \in Devices : \A o, q \in OnList(e)' : o = q
        BY <1>3, <1>16 DEF Core, ListIsAttached, Known
    <2>2. \A o \in Object : Live(o)' => (o \in Range(usbDevs') <=> objects'[o].attached \/ InStep(o, {"unlist"})')
        BY <1>8, <1>10, <1>12, <1>13 DEF Core, ListIsAttached, Live
    <2> QED BY <1>1, <1>10, <2>1, <2>2 DEF Core, ListIsAttached, appVars
<1>19. LeftOnce' /\ ArrivedIsKept'
    <2>1. \A s2 \in {s} : s2.o \in Object => \E i \in DOMAIN job.steps : job.steps[i].o = s2.o
        BY <1>3, <1>5
    <2>2. \A o \in Object : o \in Range(usbDevs) \/ InStep(o, {"left"}) => o \in Range(usbDevs') \/ InStep(o, {"left"})'
        BY <1>10, <1>13
    <2>3. \A o \in Range(usbDevs') : o \in Range(usbDevs) \/ \E i \in DOMAIN job.steps : job.steps[i].o = o
        BY <1>3, <1>10
    <2>4. UNCHANGED <<messages, handler, dropped>> /\ \A o \in Object : InStep(o, Connecting)' => InStep(o, Connecting)
        BY <1>1, <1>13
    <2> QED BY <1>6, <1>11, <2>1, <2>2, <2>3, <2>4, WentMessages
<1> QED BY <1>11, <1>12, <1>15, <1>17, <1>18, <1>19 DEF Core

\* The messages, by what they are about.
LEMMA MessagesAre ==
    ASSUME Core
    PROVE  /\ messages \in Seq(Changes) /\ handler.messages \in Seq(Changes)
           /\ \A i \in DOMAIN messages : /\ i \in Nat /\ messages[i][2] \in Object
                                         /\ messages[i][1] = "left" => Leaving(messages[i][2])
           /\ \A i \in DOMAIN handler.messages :
                /\ i \in Nat /\ handler.messages[i][2] \in Object
                /\ handler.messages[i][1] = "left" => LeavingNow(handler.messages[i][2])
<1>1. messages \in Seq(Changes) /\ handler.messages \in Seq(Changes)
    BY Types DEF Core
<1>2. ASSUME NEW m \in Changes PROVE m[2] \in Object /\ (m[1] = "left" => m = <<"left", m[2]>>)
    BY DEF Changes
<1>3. ASSUME NEW i \in DOMAIN messages
      PROVE  i \in Nat /\ messages[i][2] \in Object /\ (messages[i][1] = "left" => Leaving(messages[i][2]))
    <2>1. i \in Nat /\ messages[i] \in Changes
        BY <1>1
    <2> QED BY <1>2, <2>1 DEF Leaving
<1>4. ASSUME NEW i \in DOMAIN handler.messages
      PROVE  /\ i \in Nat /\ handler.messages[i][2] \in Object
             /\ handler.messages[i][1] = "left" => LeavingNow(handler.messages[i][2])
    <2>1. i \in Nat /\ handler.messages[i] \in Changes
        BY <1>1
    <2> QED BY <1>2, <2>1 DEF LeavingNow
<1> QED BY <1>1, <1>3, <1>4

\* One more message, behind the others.
Sent(old, new, m) ==
    /\ \A i \in DOMAIN new : i \in DOMAIN old \/ (new[i] = m /\ \A j \in DOMAIN new : j <= i)
    /\ \A i \in DOMAIN old : i \in DOMAIN new /\ new[i] = old[i]
    /\ \E i \in DOMAIN new : new[i] = m

\* Append() does that.
LEMMA SentIs ==
    ASSUME NEW old \in Seq(Changes), NEW m \in Changes, NEW new, new = Append(old, m)
    PROVE  new \in Seq(Changes) /\ Sent(old, new, m)
<1>1. /\ new \in Seq(Changes) /\ DOMAIN old = 1..Len(old) /\ Len(old) \in Nat
      /\ DOMAIN new = 1..(Len(old) + 1)
      /\ \A i \in DOMAIN old : i \in DOMAIN new /\ new[i] = old[i]
      /\ new[Len(old) + 1] = m
    BY QueueAdded
<1>2. \A i \in DOMAIN new : i \in DOMAIN old \/ (new[i] = m /\ \A j \in DOMAIN new : j <= i)
    <2> SUFFICES ASSUME NEW i \in DOMAIN new, i \notin DOMAIN old
                 PROVE  new[i] = m /\ \A j \in DOMAIN new : j <= i
        OBVIOUS
    <2>1. i = Len(old) + 1
        BY <1>1
    <2> QED BY <1>1, <2>1
<1>3. Len(old) + 1 \in DOMAIN new
    BY <1>1
<1> QED BY <1>1, <1>2, <1>3 DEF Sent

\* usbi_hotplug_notification(): an arrival is a message that keeps nothing.
LEMMA ArrivedKeeps ==
    ASSUME Core, DevicesAssumption, Arrived
    PROVE  Core'
<1>1. /\ job.steps # <<>> /\ Now.do = "arrived" /\ Went({})
      /\ UNCHANGED <<world, ctx, objects, usbDevs, ready, cbVars, handler, appVars, dropped>>
    BY WentOn DEF Arrived, Does
<1>2. PICK c : c = Now.o
    OBVIOUS
<1>3. /\ c \in Object /\ ~Waits(c) /\ ~Leaving(c) /\ ~LeavingNow(c) /\ c \in Range(usbDevs)
    <2>1. Now \in Steps /\ StepIsTrue(Now)
        BY <1>1, StepsAre
    <2>2. c \in Range(usbDevs)
        BY <1>1, <1>2, <2>1 DEF StepIsTrue
    <2> QED BY <1>1, <1>2, <2>2, FirstIs
<1>4. \A o \in Object : /\ InStep(o, Connecting)' <=> InStep(o, Connecting)
                        /\ InStep(o, {"unlist"})' <=> InStep(o, {"unlist"})
                        /\ InStep(o, {"left"})' <=> InStep(o, {"left"})
    <2>1. ASSUME NEW o \in Object, NEW dos, "add" \notin dos, "arrived" \notin dos PROVE InStep(o, dos)' <=> InStep(o, dos)
        BY <1>1, <2>1, InStepIs, InStepWillBe
    <2> QED BY <2>1 DEF Connecting
<1>5. CASE ~ready
    <2>1. UNCHANGED <<world, ctx, objects, usbDevs, ready, messages, cbVars, handler, appVars, dropped>>
        BY <1>1, <1>5 DEF Arrived, Notify
    <2> QED BY <1>1, <1>4, <2>1, SameSteps
<1>6. CASE ready
    <2>1. PICK m : m = <<"arrived", c>>
        OBVIOUS
    <2>2. m \in Changes /\ m[1] = "arrived" /\ m[2] = c
        BY <1>3, <2>1 DEF Changes
    <2>3. messages' \in Seq(Changes) /\ Sent(messages, messages', m)
        <3>1. messages' = Append(messages, m)
            BY <1>2, <1>6, <2>1 DEF Arrived, Notify
        <3> QED BY <2>2, <3>1, SentIs, MessagesAre
    <2>4. DevicesTypeOK'
        BY <1>1, <2>3 DEF Core, DevicesTypeOK, Went, world, cbVars, appVars, Steps, Dos
    <2>5. ContextIsInOrder' /\ ctx \notin {"init", "exit", "stopped", "gone"} /\ ~Exited /\ ~Exited'
        BY <1>1, <1>6, WentInOrder DEF appVars
    <2>6. \A o \in Object : (Leaving(o)' <=> Leaving(o)) /\ (LeavingNow(o)' <=> LeavingNow(o))
        <3>1. \A o : <<"left", o>>[1] = "left"
            OBVIOUS
        <3>2. \A o : <<"left", o>> # m
            BY <2>2, <3>1
        <3> QED BY <1>1, <2>3, <3>2 DEF Sent, Leaving, LeavingNow
    <2>7. Own' = Own
        <3>1. \A o \in Object : InLists(o)' = InLists(o) /\ InUse(o)' = InUse(o)
            BY <1>1, ListsSame, UseSame DEF appVars, Opening
        <3>2. \A o \in Object : InSteps(o)' = InSteps(o)
            BY <1>4, InStepsAre DEF One
        <3>3. \A o \in Object : InMessages(o)' = InMessages(o)
            BY <1>1, <2>6 DEF InMessages, One
        <3> QED BY <2>4, <3>1, <3>2, <3>3, OwnSame DEF Core
    <2>8. RefsAreHolders'
        <3>1. Counts(objects, Own) /\ Family(objects) /\ \A o \in Range(usbDevs) : Live(o)
            BY RefsAre
        <3>2. Counts(objects', Own') /\ Family(objects') /\ \A o \in Range(usbDevs') : Live(o)'
            BY <1>1, <2>7, <3>1 DEF Live
        <3> QED BY <2>4, <3>2, RefsWillBe
    <2>9. StepsAreInPlace'
        <3>1. \A o : Waits(o) => /\ objects'[o].dev = Device /\ objects'[o].parent = 0
                                 /\ Live(o)' /\ ~objects'[o].attached /\ ~Known(Device)'
            BY <1>1, WaitsIs DEF Live, Known, OnList
        <3> QED BY <1>1, <2>4, <3>1, WentPlaced
    <2>10. ListIsAttached'
        BY <1>1, <1>4, <2>5 DEF Core, ListIsAttached, OnList, Live, appVars
    <2>11. LeftOnce'
        <3>1. ASSUME NEW o \in Object, (Leaving(o) \/ LeavingNow(o) \/ o \in dropped)'
              PROVE  /\ o \notin Range(usbDevs') /\ \A i \in DOMAIN job'.steps : job'.steps[i].o # o
                     /\ o \in dropped' => ~Leaving(o)' /\ ~LeavingNow(o)'
            <4>1. Leaving(o) \/ LeavingNow(o) \/ o \in dropped
                BY <1>1, <2>6, <3>1
            <4>2. /\ o \notin Range(usbDevs) /\ \A i \in DOMAIN job.steps : job.steps[i].o # o
                  /\ o \in dropped => ~Leaving(o) /\ ~LeavingNow(o)
                BY <4>1 DEF Core, LeftOnce
            <4>3. \A s : (\E i \in DOMAIN job'.steps : job'.steps[i] = s) => \E i \in DOMAIN job.steps : job.steps[i] = s
                BY <1>1 DEF Went, Below
            <4> QED BY <1>1, <2>6, <4>2, <4>3
        <3>2. ASSUME NEW i \in DOMAIN messages', NEW j \in DOMAIN messages', i < j, messages'[i][1] = "left"
              PROVE  messages'[i][2] # messages'[j][2]
            <4>1. i \in DOMAIN messages /\ messages'[i] = messages[i]
                BY <2>2, <2>3, <3>2 DEF Sent
            <4>2. Leaving(messages[i][2])
                BY <3>2, <4>1, MessagesAre
            <4>3. CASE j \in DOMAIN messages
                <5>1. messages'[j] = messages[j]
                    BY <2>3, <4>3 DEF Sent
                <5> QED BY <3>2, <4>1, <4>3, <5>1 DEF Core, LeftOnce
            <4>4. CASE j \notin DOMAIN messages
                <5>1. messages'[j] = m
                    BY <2>3, <4>4 DEF Sent
                <5> QED BY <1>3, <2>2, <4>1, <4>2, <5>1
            <4> QED BY <4>3, <4>4
        <3>3. ASSUME NEW i \in DOMAIN handler'.messages, NEW j \in DOMAIN messages', handler'.messages[i][1] = "left"
              PROVE  handler'.messages[i][2] # messages'[j][2]
            <4>1. i \in DOMAIN handler.messages /\ handler'.messages[i] = handler.messages[i]
                BY <1>1
            <4>2. LeavingNow(handler.messages[i][2])
                BY <3>3, <4>1, MessagesAre
            <4>3. CASE j \in DOMAIN messages
                <5>1. messages'[j] = messages[j]
                    BY <2>3, <4>3 DEF Sent
                <5> QED BY <3>3, <4>1, <4>3, <5>1 DEF Core, LeftOnce
            <4>4. CASE j \notin DOMAIN messages
                <5>1. messages'[j] = m
                    BY <2>3, <4>4 DEF Sent
                <5> QED BY <1>3, <2>2, <4>1, <4>2, <5>1
            <4> QED BY <4>3, <4>4
        <3>4. \A i, j \in DOMAIN handler'.messages :
                 i < j /\ handler'.messages[i][1] = "left" => handler'.messages[i][2] # handler'.messages[j][2]
            BY <1>1 DEF Core, LeftOnce
        <3> QED BY <3>1, <3>2, <3>3, <3>4 DEF LeftOnce
    <2>12. ArrivedIsKept'
        <3>1. \A o \in Object : Kept(o)' <=> Kept(o)
            BY <1>1, <1>4, <2>6 DEF Kept
        <3>2. Kept(c)'
            BY <1>1, <1>3 DEF Kept
        <3>3. ASSUME NEW i \in DOMAIN messages' PROVE Kept(messages[i][2])'
            <4>1. CASE i \in DOMAIN messages
                <5>1. PICK o : o = messages[i][2]
                    OBVIOUS
                <5>2. o \in Object /\ Kept(o) /\ messages'[i][2] = o
                    BY <2>3, <4>1, <5>1, MessagesAre DEF Core, ArrivedIsKept, Sent
                <5>3. Kept(o)'
                    BY <3>1, <5>2
                <5> QED BY <5>2, <5>3 DEF Kept
            <4>2. CASE i \notin DOMAIN messages
                <5>1. messages'[i][2] = c
                    BY <2>2, <2>3, <4>2 DEF Sent
                <5> QED BY <3>2, <5>1 DEF Kept
            <4> QED BY <4>1, <4>2
        <3>4. \A i \in DOMAIN handler'.messages : Kept(handler.messages[i][2])' \/ LeavingNow(handler.messages[i][2])'
            <4>1. \A i \in DOMAIN handler.messages : handler.messages[i][2] \in Object
                BY MessagesAre
            <4> QED BY <1>1, <2>6, <3>1, <4>1 DEF Core, ArrivedIsKept
        <3>5. ASSUME NEW o \in Object, InStep(o, Connecting)'
              PROVE  /\ \A i \in DOMAIN messages' : messages'[i][2] # o
                     /\ \A i \in DOMAIN handler'.messages : handler'.messages[i][2] # o
            <4>1. InStep(o, Connecting)
                BY <1>4, <3>5
            <4>2. Waits(o)
                BY <1>1, <4>1, InStepIs DEF Connecting
            <4>3. o # c
                BY <1>3, <4>2
            <4>4. /\ \A i \in DOMAIN messages : messages[i][2] # o
                  /\ \A i \in DOMAIN handler.messages : handler.messages[i][2] # o
                BY <4>1 DEF Core, ArrivedIsKept
            <4> QED BY <1>1, <2>2, <2>3, <4>3, <4>4 DEF Sent
        <3> QED BY <3>3, <3>4, <3>5 DEF ArrivedIsKept
    <2> QED BY <2>4, <2>5, <2>8, <2>9, <2>10, <2>11, <2>12 DEF Core
<1> QED BY <1>5, <1>6

\* linux_device_disconnected(): a reference is taken of an object on the list.
LEMMA DisconnectKeeps ==
    ASSUME Core, DevicesAssumption, Disconnect
    PROVE  Core'
<1>1. /\ job.steps # <<>> /\ Now.do = "remove"
      /\ UNCHANGED <<world, ctx, usbDevs, ready, messages, cbVars, handler, appVars, dropped>>
    BY DEF Disconnect, Does
<1>2. Now \in Steps /\ Now.o = 0 /\ Now.dev \in Devices
    <2>1. Now \in Steps /\ StepIsTrue(Now)
        BY <1>1, StepsAre
    <2> QED BY <1>1, <2>1 DEF StepIsTrue, Steps
<1>3. \A o : ~Waits(o)
    BY <1>1, WaitsIs
<1>4. \A o \in Object : o # 0
    BY DEF Object
<1>5. CASE ~Known(Now.dev)
    <2>1. UNCHANGED <<world, ctx, objects, usbDevs, ready, messages, cbVars, handler, appVars, dropped>>
        BY <1>1, <1>5 DEF Disconnect
    <2>2. Went({})
        BY <1>1, <1>5, WentOn DEF Disconnect
    <2>3. ASSUME NEW o \in Object, NEW dos, "add" \notin dos PROVE InStep(o, dos)' <=> InStep(o, dos)
        BY <1>1, <1>2, <1>3, <1>4, <2>2, <2>3, InStepIs, InStepWillBe
    <2>4. \A o \in Object : /\ InStep(o, Connecting)' <=> InStep(o, Connecting)
                            /\ InStep(o, {"unlist"})' <=> InStep(o, {"unlist"})
                            /\ InStep(o, {"left"})' <=> InStep(o, {"left"})
        BY <2>3 DEF Connecting
    <2> QED BY <2>1, <2>2, <2>4, SameSteps
<1>6. CASE Known(Now.dev)
    <2>1. PICK c, d, s : /\ d = Now.dev /\ s = Step("unlist", d, c)
                         /\ c \in OnList(d)
                         /\ objects' = [Ref(objects, c) EXCEPT ![c].attached = FALSE]
                         /\ Continue(<<s>>)
        <3>1. PICK c : c = CHOOSE o \in OnList(Now.dev) : TRUE
            OBVIOUS
        <3>2. c \in OnList(Now.dev)
            BY <1>6, <3>1 DEF Known
        <3>3. objects' = [Ref(objects, c) EXCEPT ![c].attached = FALSE] /\ Continue(<<Step("unlist", Now.dev, c)>>)
            BY <1>6, <3>1 DEF Disconnect
        <3> QED BY <3>2, <3>3
    <2>2. /\ Counts(objects, Own) /\ Family(objects) /\ Own \in [Object -> Nat] /\ objects \in [Object -> Records]
          /\ \A o \in Range(usbDevs) : o \in Object /\ Live(o)
        BY RefsAre, Types DEF Core
    <2>3. c \in Object /\ c # 0 /\ objects[c].state = "live" /\ objects[c].dev = d /\ d \in Devices /\ c \in Range(usbDevs)
        BY <1>2, <1>4, <2>1, <2>2 DEF OnList, Live
    <2>4. s \in Steps /\ s.do = "unlist" /\ s.dev = d /\ s.o = c /\ s.o # 0
        BY <2>1, <2>3 DEF Step, Steps, Dos
    <2>5. Went({s})
        BY <1>1, <2>1, <2>4, WentTo
    <2>6. PICK more : more = [Own EXCEPT ![c] = @ + 1]
        OBVIOUS
    <2>7. /\ objects' \in [Object -> Records] /\ Counts(objects', more) /\ Family(objects')
          /\ \A o \in Object : /\ objects'[o].state = objects[o].state /\ objects'[o].dev = objects[o].dev
                               /\ objects'[o].parent = objects[o].parent
                               /\ o # c => objects'[o].attached = objects[o].attached
          /\ ~objects'[c].attached
        <3> HIDE DEF Own
        <3>1. PICK b, r : b = Ref(objects, c) /\ r = [b EXCEPT ![c].attached = FALSE]
            OBVIOUS
        <3>2. /\ b \in [Object -> Records] /\ Counts(b, more)
              /\ \A o \in Object : /\ b[o].state = objects[o].state /\ b[o].dev = objects[o].dev
                                   /\ b[o].attached = objects[o].attached
                                   /\ b[o].parent = objects[o].parent
            <4>1. RefTaken(objects, c, b, more)
                BY <2>2, <2>3, <2>6, <3>1, RefIs
            <4> QED BY <4>1 DEF RefTaken
        <3>3. Family(b)
            BY <2>2, <3>2 DEF Family, Records
        <3>4. Marked(b, c, r) /\ ~r[c].attached
            BY <2>3, <3>1, <3>2, MarkedIs DEF Marked
        <3>5. /\ r \in [Object -> Records] /\ Counts(r, more) /\ Family(r)
              /\ \A o \in Object : /\ r[o].state = b[o].state /\ r[o].dev = b[o].dev
                                   /\ r[o].parent = b[o].parent
                                   /\ o # c => r[o].attached = b[o].attached
            BY <2>3, <3>2, <3>3, <3>4, AttachedIs
        <3>6. objects' = r
            BY <2>1, <3>1
        <3> QED BY <3>2, <3>4, <3>5, <3>6
    <2>8. DevicesTypeOK'
        BY <1>1, <2>5, <2>7 DEF Core, DevicesTypeOK, Went, world, cbVars, appVars, Steps, Dos, Records
    <2>9. ContextIsInOrder' /\ ctx \notin {"init", "exit", "stopped", "gone"} /\ ~Exited /\ ~Exited'
        BY <1>1, <2>5, WentInOrder DEF appVars
    <2>10. \A o \in Object : /\ ~InStep(o, Connecting) /\ ~InStep(o, {"unlist"}) /\ ~InStep(o, {"left"})
                             /\ ~InStep(o, Connecting)' /\ ~InStep(o, {"left"})'
                             /\ InStep(o, {"unlist"})' <=> o = c
        <3>1. \A o, dos : "add" \notin dos =>
                  /\ InStep(o, dos) <=> Now.o = o /\ Now.do \in dos
                  /\ InStep(o, dos)' <=> o = c /\ s.do \in dos
            BY <1>1, <1>3, <2>4, <2>5, InStepIs, InStepWillBe
        <3> QED BY <1>2, <1>4, <2>4, <3>1 DEF Connecting
    <2>11. Own' = more
        <3>1. \A o \in Object : InLists(o)' = InLists(o) /\ InMessages(o)' = InMessages(o) /\ InUse(o)' = InUse(o)
            BY <1>1, ListsSame, MessagesSame, UseSame DEF appVars, Opening
        <3>2. \A o \in Object : InSteps(o)' = InSteps(o) + (IF o = c THEN 1 ELSE 0)
            BY <2>10, InStepsAre DEF One
        <3>3. \A o \in Object : InLists(o) \in Nat /\ InMessages(o) \in Nat /\ InSteps(o) \in Nat /\ InUse(o) \in Nat
            BY HoldersAre DEF Core
        <3>4. \A o \in Object : InLists(o)' + InMessages(o)' + InSteps(o)' + InUse(o)'
                             = InLists(o) + InMessages(o) + InSteps(o) + InUse(o) + (IF o = c THEN 1 ELSE 0)
            BY <3>1, <3>2, <3>3
        <3> QED BY <2>3, <2>6, <2>8, <3>4, OwnMore DEF Core
    <2>12. RefsAreHolders'
        <3>1. \A o \in Range(usbDevs') : Live(o)'
            BY <1>1, <2>2, <2>7 DEF Live
        <3> QED BY <2>7, <2>8, <2>11, <3>1, RefsWillBe
    <2>13. StepsAreInPlace'
        <3>1. StepIsTrue(s)'
            BY <1>1, <2>3, <2>4, <2>7 DEF StepIsTrue, Connecting
        <3>2. \A s2 \in {s} : StepIsTrue(s2)'
            BY <3>1
        <3> QED BY <1>3, <2>5, <2>8, <3>2, WentPlaced
    <2>14. ListIsAttached'
        <3>1. \A e : OnList(e)' = OnList(e)
            BY <1>1, <2>2, <2>7 DEF OnList
        <3>2. \A o \in Object : Live(o)' => (o \in Range(usbDevs') <=> objects'[o].attached \/ InStep(o, {"unlist"})')
            BY <1>1, <2>3, <2>7, <2>9, <2>10 DEF Core, ListIsAttached, Live
        <3> QED BY <1>1, <3>1, <3>2 DEF Core, ListIsAttached, appVars
    <2>15. LeftOnce' /\ ArrivedIsKept'
        <3>1. \A s2 \in {s} : s2.o \in Object => s2.o \in Range(usbDevs) \/ \E i \in DOMAIN job.steps : job.steps[i].o = s2.o
            BY <2>3, <2>4
        <3>2. \A o \in Object : o \in Range(usbDevs) \/ InStep(o, {"left"}) => o \in Range(usbDevs') \/ InStep(o, {"left"})'
            BY <1>1, <2>10
        <3>3. \A o \in Range(usbDevs') : o \in Range(usbDevs) \/ \E i \in DOMAIN job.steps : job.steps[i].o = o
            BY <1>1
        <3>4. UNCHANGED <<messages, handler, dropped>> /\ \A o \in Object : InStep(o, Connecting)' => InStep(o, Connecting)
            BY <1>1, <2>10
        <3> QED BY <2>5, <2>8, <3>1, <3>2, <3>3, <3>4, WentMessages
    <2> QED BY <2>8, <2>9, <2>12, <2>13, <2>14, <2>15 DEF Core
<1> QED BY <1>5, <1>6

\* usbi_disconnect_device(): the references of list and step are one step's now.
LEMMA UnlistKeeps ==
    ASSUME Core, DevicesAssumption, Unlist
    PROVE  Core'
<1>1. /\ job.steps # <<>> /\ Now.do = "unlist"
      /\ UNCHANGED <<world, ctx, objects, ready, messages, cbVars, handler, appVars, dropped>>
    BY DEF Unlist, Does
<1>2. PICK c, d, s : c = Now.o /\ d = Now.dev /\ s = Step("left", d, c)
    OBVIOUS
<1>3. /\ c \in Object /\ c # 0 /\ objects[c].dev = d /\ d \in Devices /\ Now \in Steps
      /\ (\E i \in DOMAIN job.steps : job.steps[i].o = c)
      /\ c \in Range(usbDevs) /\ ~objects[c].attached
    <2>1. Now \in Steps /\ StepIsTrue(Now)
        BY <1>1, StepsAre
    <2>2. c \in Range(usbDevs) /\ ~objects[c].attached
        BY <1>1, <1>2, <2>1 DEF StepIsTrue
    <2> QED BY <1>1, <1>2, <2>1, <2>2, FirstIs
<1>4. \A o : ~Waits(o)
    BY <1>1, WaitsIs
<1>5. s \in Steps /\ s.do = "left" /\ s.dev = d /\ s.o = c
    BY <1>2, <1>3 DEF Step, Steps, Dos
<1>6. Went({s})
    <2>1. Continue(<<s>>)
        BY <1>2 DEF Unlist
    <2> QED BY <1>1, <1>5, <2>1, WentTo
<1>7. /\ Counts(objects, Own) /\ Family(objects)
      /\ \A o \in Range(usbDevs) : o \in Object /\ Live(o)
      /\ usbDevs \in Seq(Object) /\ IsInjective(usbDevs)
    BY RefsAre, Types DEF Core, ListIsAttached
<1>8. /\ usbDevs' \in Seq(Object) /\ IsInjective(usbDevs')
      /\ \A o : o \in Range(usbDevs') <=> o \in Range(usbDevs) /\ o # c
    BY <1>2, <1>7, RemovedIs DEF Unlist
<1>9. DevicesTypeOK'
    BY <1>1, <1>6, <1>8 DEF Core, DevicesTypeOK, Went, world, cbVars, appVars, Steps, Dos
<1>10. ContextIsInOrder' /\ ctx \notin {"init", "exit", "stopped", "gone"} /\ ~Exited /\ ~Exited'
    BY <1>1, <1>6, WentInOrder DEF appVars
<1>11. \A o : /\ ~InStep(o, Connecting) /\ ~InStep(o, Connecting)'
              /\ ~InStep(o, {"left"}) /\ ~InStep(o, {"unlist"})'
              /\ (InStep(o, {"unlist"}) <=> o = c) /\ (InStep(o, {"left"})' <=> o = c)
    <2>1. \A o, dos : "add" \notin dos =>
              /\ InStep(o, dos) <=> Now.o = o /\ Now.do \in dos
              /\ InStep(o, dos)' <=> o = c /\ s.do \in dos
        BY <1>1, <1>4, <1>5, <1>6, InStepIs, InStepWillBe
    <2> QED BY <1>1, <1>2, <1>5, <2>1 DEF Connecting
<1>12. Own' = Own
    <2>1. \A o \in Object : InMessages(o)' = InMessages(o) /\ InUse(o)' = InUse(o)
        BY <1>1, MessagesSame, UseSame DEF appVars, Opening
    <2>2. \A o \in Object : InSteps(o)' = InSteps(o) + (IF o = c THEN 1 ELSE 0)
        BY <1>11, InStepsAre DEF One
    <2>3. \A o \in Object : InLists(o) = InLists(o)' + (IF o = c THEN 1 ELSE 0)
        BY <1>1, <1>3, <1>8, <1>10 DEF InLists, Listed, Given, One, appVars
    <2>4. \A o \in Object : InLists(o)' \in Nat /\ InMessages(o) \in Nat /\ InSteps(o) \in Nat /\ InUse(o) \in Nat
        BY <1>9, HoldersAre, HoldersWillBe DEF Core
    <2>5. \A o \in Object : InLists(o)' + InMessages(o)' + InSteps(o)' + InUse(o)'
                             = InLists(o) + InMessages(o) + InSteps(o) + InUse(o)
        BY <2>1, <2>2, <2>3, <2>4
    <2> QED BY <1>9, <2>5, OwnSame DEF Core
<1>13. RefsAreHolders'
    <2>1. Counts(objects', Own') /\ Family(objects') /\ \A o \in Range(usbDevs') : Live(o)'
        BY <1>1, <1>7, <1>8, <1>12 DEF Live
    <2> QED BY <1>9, <2>1, RefsWillBe
<1>14. StepsAreInPlace'
    <2>1. \A s2 \in {s} : StepIsTrue(s2)'
        BY <1>1, <1>3, <1>5, <1>8 DEF StepIsTrue, Connecting
    <2> QED BY <1>4, <1>6, <1>9, <2>1, WentPlaced
<1>15. ListIsAttached'
    <2>1. \A e \in Devices : \A o, q \in OnList(e)' : o = q
        <3>1. \A e : OnList(e)' \subseteq OnList(e)
            BY <1>1, <1>8 DEF OnList
        <3> QED BY <3>1 DEF Core, ListIsAttached
    <2>2. \A o \in Object : Live(o)' => (o \in Range(usbDevs') <=> objects'[o].attached \/ InStep(o, {"unlist"})')
        BY <1>1, <1>3, <1>8, <1>10, <1>11 DEF Core, ListIsAttached, Live
    <2> QED BY <1>1, <1>8, <2>1, <2>2 DEF Core, ListIsAttached, appVars
<1>16. LeftOnce' /\ ArrivedIsKept'
    <2>1. \A s2 \in {s} : s2.o \in Object => s2.o \in Range(usbDevs) \/ \E i \in DOMAIN job.steps : job.steps[i].o = s2.o
        BY <1>3, <1>5
    <2>2. \A o \in Object : o \in Range(usbDevs) \/ InStep(o, {"left"}) => o \in Range(usbDevs') \/ InStep(o, {"left"})'
        BY <1>8, <1>11
    <2>3. \A o \in Range(usbDevs') : o \in Range(usbDevs) \/ \E i \in DOMAIN job.steps : job.steps[i].o = o
        BY <1>8
    <2>4. UNCHANGED <<messages, handler, dropped>> /\ \A o \in Object : InStep(o, Connecting)' => InStep(o, Connecting)
        BY <1>1, <1>11
    <2> QED BY <1>6, <1>9, <2>1, <2>2, <2>3, <2>4, WentMessages
<1> QED BY <1>9, <1>10, <1>13, <1>14, <1>15, <1>16 DEF Core

\* libusb_unref_device() of the object of a step, as the account sees it.
LEMMA UnrefIs ==
    ASSUME Core, DevicesAssumption, NEW x \in Object, Own[x] > 0, objects' = Unref(objects, x)
    PROVE  Unreffed(objects, x, objects') /\ Counts(objects', [Own EXCEPT ![x] = @ - 1])
<1>1. Counts(objects, Own) /\ Family(objects) /\ Own \in [Object -> Nat] /\ objects \in [Object -> Records]
    BY RefsAre, Types DEF Core
<1>2. PICK u, less : u = Unref(objects, x) /\ less = [Own EXCEPT ![x] = @ - 1]
    OBVIOUS
<1> HIDE DEF Own
<1>3. Unreffed(objects, x, u) /\ Counts(u, less)
    BY <1>1, <1>2, UnrefCounts
<1> QED BY <1>2, <1>3

\* usbi_disconnect_device(): one reference goes, the other is the message's.
LEMMA LeftKeeps ==
    ASSUME Core, DevicesAssumption, Left
    PROVE  Core'
<1>1. /\ job.steps # <<>> /\ Now.do = "left" /\ Went({})
      /\ UNCHANGED <<world, ctx, usbDevs, ready, cbVars, handler, appVars>>
    BY WentOn DEF Left, Does
<1>2. PICK c : c = Now.o
    OBVIOUS
<1>3. /\ c \in Object /\ c # 0 /\ Now \in Steps
      /\ c \notin dropped /\ ~Leaving(c) /\ ~LeavingNow(c)
      /\ c \notin Range(usbDevs) /\ ~objects[c].attached
    <2>1. Now \in Steps /\ StepIsTrue(Now)
        BY <1>1, StepsAre
    <2>2. c \notin Range(usbDevs) /\ ~objects[c].attached
        BY <1>1, <1>2, <2>1 DEF StepIsTrue
    <2> QED BY <1>1, <1>2, <2>1, <2>2, FirstIs
<1>4. \A o : ~Waits(o)
    BY <1>1, WaitsIs
<1>5. /\ Counts(objects, Own) /\ Family(objects) /\ Own \in [Object -> Nat] /\ objects \in [Object -> Records]
      /\ \A o \in Range(usbDevs) : o \in Object /\ Live(o)
    BY RefsAre, Types DEF Core
<1>6. PICK m : m = <<"left", c>>
    OBVIOUS
<1>7. m \in Changes /\ m[1] = "left" /\ m[2] = c
    BY <1>3, <1>6 DEF Changes
<1>8. /\ messages' \in Seq(Changes) /\ (ready => Sent(messages, messages', m))
      /\ ~ready => messages' = <<>> /\ messages = <<>> /\ handler.messages = <<>>
    <2>1. CASE ready
        <3>1. messages' = Append(messages, m)
            BY <1>2, <1>6, <2>1 DEF Left, Notify
        <3> QED BY <1>7, <2>1, <3>1, SentIs, MessagesAre
    <2>2. CASE ~ready
        <3>1. messages' = messages
            BY <2>2 DEF Left, Notify
        <3>2. messages = <<>> /\ handler.messages = <<>>
            BY <2>2 DEF Core, ContextIsInOrder
        <3> QED BY <2>2, <3>1, <3>2
    <2> QED BY <2>1, <2>2
<1>9. \A o : /\ Leaving(o)' <=> Leaving(o) \/ (ready /\ o = c)
             /\ LeavingNow(o)' <=> LeavingNow(o)
             /\ o \in dropped' <=> o \in dropped \/ (~ready /\ o = c)
    <2>1. \A o : LeavingNow(o)' <=> LeavingNow(o)
        BY <1>1 DEF LeavingNow
    <2>2. \A o : o \in dropped' <=> o \in dropped \/ (~ready /\ o = c)
        BY <1>2 DEF Left
    <2>3. \A o : Leaving(o)' <=> Leaving(o) \/ (ready /\ o = c)
        <3>1. CASE ready
            <4>1. \A o : <<"left", o>>[2] = o
                OBVIOUS
            <4>2. \A o : <<"left", o>> = m <=> o = c
                BY <1>6, <1>7, <4>1
            <4> QED BY <1>8, <3>1, <4>2 DEF Sent, Leaving
        <3>2. CASE ~ready
            BY <1>8, <3>2 DEF Leaving
        <3> QED BY <3>1, <3>2
    <2> QED BY <2>1, <2>2, <2>3
<1>10. PICK u : u = Unref(objects, c)
    OBVIOUS
<1>11. objects' = u
    BY <1>2, <1>10 DEF Left
<1>12. \A o \in Object : /\ ~InStep(o, Connecting) /\ ~InStep(o, {"unlist"}) /\ (InStep(o, {"left"}) <=> o = c)
                         /\ ~InStep(o, Connecting)' /\ ~InStep(o, {"unlist"})' /\ ~InStep(o, {"left"})'
    <2>1. \A o, dos : "add" \notin dos =>
              /\ InStep(o, dos) <=> Now.o = o /\ Now.do \in dos
              /\ ~InStep(o, dos)'
        BY <1>1, <1>4, InStepIs, InStepWillBe
    <2> QED BY <1>1, <1>2, <2>1 DEF Connecting
<1>13. PICK less : less = [Own EXCEPT ![c] = @ - 1]
    OBVIOUS
<1>14. Own[c] > 0
    BY <1>3, <1>12, HeldIsThere
<1>15. /\ objects' \in [Object -> Records] /\ Counts(objects', less) /\ Family(objects')
       /\ \A o \in Object : /\ objects'[o].dev = objects[o].dev /\ objects'[o].attached = objects[o].attached
                            /\ objects'[o].parent = objects[o].parent
                            /\ objects'[o].state = "live" => objects[o].state = "live"
    <2>1. Unreffed(objects, c, objects') /\ Counts(objects', less)
        BY <1>3, <1>10, <1>11, <1>13, <1>14, UnrefIs
    <2> QED BY <2>1 DEF Unreffed
<1>16. DevicesTypeOK'
    <2>1. dropped' \subseteq Object
        BY <1>3, <1>9, Types DEF Core
    <2> QED BY <1>1, <1>8, <1>15, <2>1 DEF Core, DevicesTypeOK, Went, world, cbVars, appVars, Steps, Dos, Records
<1>17. ContextIsInOrder' /\ ctx \notin {"init", "exit", "stopped", "gone"} /\ ~Exited /\ ~Exited'
    <2>1. messages' # <<>> => messages # <<>> \/ ready
        BY <1>8
    <2> QED BY <1>1, <2>1, WentInOrder DEF appVars
<1>18. Own' = less
    <2>1. \A o \in Object : InLists(o)' = InLists(o) /\ InUse(o)' = InUse(o)
        BY <1>1, ListsSame, UseSame DEF appVars, Opening
    <2>2. \A o \in Object : InSteps(o) = InSteps(o)' + (IF o = c THEN 2 ELSE 0)
        BY <1>12, InStepsAre DEF One
    <2>3. \A o \in Object : InMessages(o)' = InMessages(o) + (IF o = c THEN 1 ELSE 0)
        BY <1>3, <1>9 DEF InMessages, One
    <2>4. \A o \in Object : InLists(o) \in Nat /\ InMessages(o) \in Nat /\ InSteps(o)' \in Nat /\ InUse(o) \in Nat
        BY <1>16, HoldersAre, HoldersWillBe DEF Core
    <2>5. \A o \in Object : InLists(o)' + InMessages(o)' + InSteps(o)' + InUse(o)'
                             = InLists(o) + InMessages(o) + InSteps(o) + InUse(o) - (IF o = c THEN 1 ELSE 0)
        BY <2>1, <2>2, <2>3, <2>4
    <2> QED BY <1>3, <1>13, <1>16, <2>5, OwnLess DEF Core
<1>19. RefsAreHolders'
    <2>1. Counts(objects', Own')
        BY <1>15, <1>18
    <2>2. \A o \in Range(usbDevs') : Live(o)'
        <3> SUFFICES ASSUME NEW o \in Range(usbDevs') PROVE Live(o)'
            OBVIOUS
        <3>1. o \in Object /\ Listed(o)'
            BY <1>1, <1>5, <1>17 DEF Listed
        <3> QED BY <1>16, <2>1, <3>1, HeldWillBe
    <2> QED BY <1>15, <1>16, <2>1, <2>2, RefsWillBe
<1>20. StepsAreInPlace'
    BY <1>1, <1>4, <1>16, WentPlaced
<1>21. ListIsAttached'
    <2>1. \A e : OnList(e)' = OnList(e)
        BY <1>1, <1>5, <1>15 DEF OnList
    <2>2. \A o \in Object : Live(o)' => (o \in Range(usbDevs') <=> objects'[o].attached \/ InStep(o, {"unlist"})')
        BY <1>1, <1>12, <1>15, <1>17 DEF Core, ListIsAttached, Live
    <2> QED BY <1>1, <2>1, <2>2 DEF Core, ListIsAttached, appVars
<1>22. LeftOnce'
    <2>1. ASSUME NEW o \in Object, (Leaving(o) \/ LeavingNow(o) \/ o \in dropped)'
          PROVE  /\ o \notin Range(usbDevs') /\ \A i \in DOMAIN job'.steps : job'.steps[i].o # o
                 /\ o \in dropped' => ~Leaving(o)' /\ ~LeavingNow(o)'
        <3>1. \A i \in DOMAIN job'.steps : job'.steps[i].o = 0 /\ o # 0
            <4>1. ASSUME NEW i \in DOMAIN job'.steps PROVE job'.steps[i].o = 0
                <5>1. PICK s : s = job'.steps[i]
                    OBVIOUS
                <5>2. Below(job.steps, s)
                    BY <1>1, <5>1 DEF Went
                <5>3. s.do = "add" /\ s.o = 0
                    BY <1>1, <5>2, StepsAre
                <5> QED BY <5>1, <5>3
            <4> QED BY <4>1 DEF Object
        <3>2. CASE o = c
            BY <1>1, <1>3, <1>9, <3>1, <3>2
        <3>3. CASE o # c
            <4>1. Leaving(o) \/ LeavingNow(o) \/ o \in dropped
                BY <1>9, <2>1, <3>3
            <4>2. o \notin Range(usbDevs) /\ (o \in dropped => ~Leaving(o) /\ ~LeavingNow(o))
                BY <4>1 DEF Core, LeftOnce
            <4> QED BY <1>1, <1>9, <3>1, <3>3, <4>2
        <3> QED BY <3>2, <3>3
    <2>2. ASSUME NEW i \in DOMAIN messages', NEW j \in DOMAIN messages', i < j, messages'[i][1] = "left"
          PROVE  messages'[i][2] # messages'[j][2]
        <3>0. Sent(messages, messages', m)
            BY <1>8, <2>2
        <3>1. i \in DOMAIN messages /\ messages'[i] = messages[i]
            <4>1. i \in DOMAIN messages
                <5>1. i \in Nat /\ j \in Nat
                    BY <1>8
                <5>2. i \notin DOMAIN messages => j <= i
                    BY <3>0 DEF Sent
                <5> QED BY <2>2, <5>1, <5>2
            <4> QED BY <3>0, <4>1 DEF Sent
        <3>2. Leaving(messages[i][2])
            BY <2>2, <3>1, MessagesAre
        <3>3. CASE j \in DOMAIN messages
            <4>1. messages'[j] = messages[j]
                BY <3>0, <3>3 DEF Sent
            <4> QED BY <2>2, <3>1, <3>3, <4>1 DEF Core, LeftOnce
        <3>4. CASE j \notin DOMAIN messages
            <4>1. messages'[j] = m
                BY <3>0, <3>4 DEF Sent
            <4> QED BY <1>3, <1>7, <3>1, <3>2, <4>1
        <3> QED BY <3>3, <3>4
    <2>3. ASSUME NEW i \in DOMAIN handler'.messages, NEW j \in DOMAIN messages', handler'.messages[i][1] = "left"
          PROVE  handler'.messages[i][2] # messages'[j][2]
        <3>0. Sent(messages, messages', m)
            BY <1>8, <2>3
        <3>1. i \in DOMAIN handler.messages /\ handler'.messages[i] = handler.messages[i]
            BY <1>1
        <3>2. LeavingNow(handler.messages[i][2])
            BY <2>3, <3>1, MessagesAre
        <3>3. CASE j \in DOMAIN messages
            <4>1. messages'[j] = messages[j]
                BY <3>0, <3>3 DEF Sent
            <4> QED BY <2>3, <3>1, <3>3, <4>1 DEF Core, LeftOnce
        <3>4. CASE j \notin DOMAIN messages
            <4>1. messages'[j] = m
                BY <3>0, <3>4 DEF Sent
            <4> QED BY <1>3, <1>7, <3>1, <3>2, <4>1
        <3> QED BY <3>3, <3>4
    <2>4. \A i, j \in DOMAIN handler'.messages :
             i < j /\ handler'.messages[i][1] = "left" => handler'.messages[i][2] # handler'.messages[j][2]
        BY <1>1 DEF Core, LeftOnce
    <2> QED BY <2>1, <2>2, <2>3, <2>4 DEF LeftOnce
<1>23. ArrivedIsKept'
    <2>1. CASE ~ready
        BY <1>1, <1>8, <1>12, <2>1 DEF ArrivedIsKept
    <2>2. CASE ready
        <3>0. Sent(messages, messages', m)
            BY <1>8, <2>2
        <3>1. \A o \in Object : Kept(o) => Kept(o)'
            BY <1>1, <1>9, <1>12, <2>2 DEF Kept
        <3>2. Kept(c)'
            BY <1>9, <2>2 DEF Kept
        <3>3. ASSUME NEW i \in DOMAIN messages' PROVE Kept(messages[i][2])'
            <4>1. CASE i \in DOMAIN messages
                <5>1. PICK o : o = messages[i][2]
                    OBVIOUS
                <5>2. o \in Object /\ Kept(o) /\ messages'[i][2] = o
                    BY <3>0, <4>1, <5>1, MessagesAre DEF Core, ArrivedIsKept, Sent
                <5>3. Kept(o)'
                    BY <3>1, <5>2
                <5> QED BY <5>2, <5>3 DEF Kept
            <4>2. CASE i \notin DOMAIN messages
                <5>1. messages'[i][2] = c
                    BY <1>7, <3>0, <4>2 DEF Sent
                <5> QED BY <3>2, <5>1 DEF Kept
            <4> QED BY <4>1, <4>2
        <3>4. \A i \in DOMAIN handler'.messages : Kept(handler.messages[i][2])' \/ LeavingNow(handler.messages[i][2])'
            <4>1. \A i \in DOMAIN handler.messages : handler.messages[i][2] \in Object
                BY MessagesAre
            <4> QED BY <1>1, <1>9, <3>1, <4>1 DEF Core, ArrivedIsKept
        <3> QED BY <1>12, <3>3, <3>4 DEF ArrivedIsKept
    <2> QED BY <2>1, <2>2
<1> QED BY <1>16, <1>17, <1>19, <1>20, <1>21, <1>22, <1>23 DEF Core

-----------------------------------------------------------------------------
(* References that are given up *)

\* One holder less, and a reference.
LEMMA UnrefKeeps ==
    ASSUME Core, DevicesAssumption, DevicesTypeOK', ContextIsInOrder', LeftOnce', ArrivedIsKept',
           NEW x \in Object, Own[x] > 0, objects' = Unref(objects, x),
           \A o \in Object : InLists(o)' + InMessages(o)' + InSteps(o)' + InUse(o)'
                             = InLists(o) + InMessages(o) + InSteps(o) + InUse(o) - (IF o = x THEN 1 ELSE 0),
           usbDevs' = usbDevs, job'.steps = job.steps, job'.by = "none" => job.steps = <<>>,
           \A o \in Range(usbDevs) : Listed(o)',
           IsInjective(app'.list),
           ~Exited' /\ ctx' \notin {"exit", "gone"} => ~Exited /\ ctx \notin {"exit", "gone"}
    PROVE  Core'
<1>1. Unreffed(objects, x, objects') /\ Counts(objects', [Own EXCEPT ![x] = @ - 1])
    BY UnrefIs
<1>2. /\ objects' \in [Object -> Records] /\ Family(objects')
      /\ \A o \in Object : /\ objects'[o].dev = objects[o].dev /\ objects'[o].attached = objects[o].attached
                           /\ objects'[o].parent = objects[o].parent
                           /\ objects'[o].state = "live" => objects[o].state = "live"
    BY <1>1 DEF Unreffed
<1>3. Quiet(objects, objects')
    BY <1>2 DEF Quiet
<1>4. Counts(objects', Own')
    <2>1. Own' = [Own EXCEPT ![x] = @ - 1]
        BY OwnLess DEF Core
    <2> QED BY <1>1, <2>1
<1>5. RefsAreHolders'
    <2>1. \A o \in Range(usbDevs') : Live(o)'
        <3> SUFFICES ASSUME NEW o \in Range(usbDevs') PROVE Live(o)'
            OBVIOUS
        <3>1. o \in Object /\ Listed(o)'
            BY RefsAre
        <3> QED BY <1>4, <3>1, HeldWillBe
    <2> QED BY <1>2, <1>4, <2>1, RefsWillBe
<1>6. StepsAreInPlace'
    <2>1. ASSUME NEW o \in Object, InStep(o, Connecting) PROVE Live(o)'
        <3>1. InStep(o, Connecting)'
            BY <2>1 DEF InStep
        <3> QED BY <1>4, <3>1, HeldWillBe
    <2> QED BY <1>3, <2>1, StepsKeep
<1>7. ListIsAttached'
    BY <1>3, ListKeep
<1> QED BY <1>5, <1>6, <1>7 DEF Core

\* libusb_unref_device() by the application.
LEMMA UnrefDeviceKeeps ==
    ASSUME Core, DevicesAssumption, NEW x \in Object, UnrefDevice(x)
    PROVE  Core'
<1>1. /\ ctx \in {"open", "gone"} /\ references[x] > 0
      /\ references' = [references EXCEPT ![x] = @ - 1] /\ objects' = Unref(objects, x)
      /\ UNCHANGED <<world, ctx, usbDevs, ready, messages, cbVars, job, handler, app, taken, handles, dropped>>
    BY DEF UnrefDevice
<1>2. Own[x] > 0
    BY <1>1, HeldIsThere
<1>3. objects' \in [Object -> Records]
    BY <1>1, <1>2, UnrefIs DEF Unreffed
<1>4. references \in [Object -> Nat]
    BY Types DEF Core
<1>5. references' \in [Object -> Nat] /\ \A o \in Object : references'[o] = references[o] - (IF o = x THEN 1 ELSE 0)
    BY <1>1, <1>4
<1>6. DevicesTypeOK'
    BY <1>1, <1>3, <1>5 DEF Core, DevicesTypeOK, world, cbVars, Records
<1>7. ContextIsInOrder'
    BY <1>1 DEF Core, ContextIsInOrder
<1>8. LeftOnce' /\ ArrivedIsKept'
    BY <1>1, MessagesKeep
<1>9. \A o \in Object : InLists(o)' + InMessages(o)' + InSteps(o)' + InUse(o)'
                        = InLists(o) + InMessages(o) + InSteps(o) + InUse(o) - (IF o = x THEN 1 ELSE 0)
    <2>1. \A o \in Object : InLists(o)' = InLists(o) /\ InMessages(o)' = InMessages(o) /\ InSteps(o)' = InSteps(o)
        BY <1>1, ListsSame, MessagesSame, StepsSame
    <2>2. \A o \in Object : InUse(o)' = InUse(o) - (IF o = x THEN 1 ELSE 0)
        BY <1>1, <1>4, <1>5 DEF InUse, Opening, One
    <2>3. \A o \in Object : InLists(o) \in Nat /\ InMessages(o) \in Nat /\ InSteps(o) \in Nat /\ InUse(o) \in Nat
        BY HoldersAre DEF Core
    <2> QED BY <2>1, <2>2, <2>3
<1>10. \A o \in Range(usbDevs) : Listed(o)'
    <2>1. CASE ctx = "open"
        BY <1>1, <2>1 DEF Listed, Exited
    <2>2. CASE ctx = "gone"
        BY <2>2 DEF Core, ContextIsInOrder, Range
    <2> QED BY <1>1, <2>1, <2>2
<1>11. /\ IsInjective(app'.list) /\ (job'.by = "none" => job.steps = <<>>)
       /\ ~Exited' /\ ctx' \notin {"exit", "gone"} => ~Exited /\ ctx \notin {"exit", "gone"}
    BY <1>1 DEF Core, ListIsAttached, StepsAreInPlace, Exited
<1> QED BY <1>1, <1>2, <1>6, <1>7, <1>8, <1>9, <1>10, <1>11, UnrefKeeps

\* libusb_close().
LEMMA CloseKeeps ==
    ASSUME Core, DevicesAssumption, NEW x \in Object, Close(x)
    PROVE  Core'
<1>1. /\ ctx = "open" /\ x \in handles
      /\ handles' = handles \ {x} /\ objects' = Unref(objects, x)
      /\ UNCHANGED <<world, ctx, usbDevs, ready, messages, cbVars, job, handler, app, references, taken, dropped>>
    BY DEF Close, AppAt
<1>2. Own[x] > 0
    BY <1>1, HeldIsThere
<1>3. objects' \in [Object -> Records]
    BY <1>1, <1>2, UnrefIs DEF Unreffed
<1>4. references \in [Object -> Nat]
    BY Types DEF Core
<1>6. DevicesTypeOK'
    BY <1>1, <1>3 DEF Core, DevicesTypeOK, world, cbVars, Records
<1>7. ContextIsInOrder'
    BY <1>1 DEF Core, ContextIsInOrder
<1>8. LeftOnce' /\ ArrivedIsKept'
    BY <1>1, MessagesKeep
<1>9. \A o \in Object : InLists(o)' + InMessages(o)' + InSteps(o)' + InUse(o)'
                        = InLists(o) + InMessages(o) + InSteps(o) + InUse(o) - (IF o = x THEN 1 ELSE 0)
    <2>1. \A o \in Object : InLists(o)' = InLists(o) /\ InMessages(o)' = InMessages(o) /\ InSteps(o)' = InSteps(o)
        BY <1>1, ListsSame, MessagesSame, StepsSame
    <2>2. \A o \in Object : InUse(o)' = InUse(o) - (IF o = x THEN 1 ELSE 0)
        BY <1>1, <1>4 DEF InUse, Opening, One
    <2>3. \A o \in Object : InLists(o) \in Nat /\ InMessages(o) \in Nat /\ InSteps(o) \in Nat /\ InUse(o) \in Nat
        BY HoldersAre DEF Core
    <2> QED BY <2>1, <2>2, <2>3
<1>10. \A o \in Range(usbDevs) : Listed(o)'
    BY <1>1 DEF Listed, Exited
<1>11. /\ IsInjective(app'.list) /\ (job'.by = "none" => job.steps = <<>>)
       /\ ~Exited' /\ ctx' \notin {"exit", "gone"} => ~Exited /\ ctx \notin {"exit", "gone"}
    BY <1>1 DEF Core, ListIsAttached, StepsAreInPlace, Exited
<1> QED BY <1>1, <1>2, <1>6, <1>7, <1>8, <1>9, <1>10, <1>11, UnrefKeeps

\* libusb_open() that fails.
LEMMA OpenFailsKeeps ==
    ASSUME Core, DevicesAssumption, OpenFails
    PROVE  Core'
<1>1. PICK x : x = app.o
    OBVIOUS
<1>2. /\ ctx = "open" /\ app.at = "open" /\ app.list = <<>> /\ x \in Object /\ job.steps = <<>> /\ job.by = "open"
      /\ job' = NoJob /\ app' = IdleApp /\ objects' = Unref(objects, x)
      /\ UNCHANGED <<world, ctx, usbDevs, ready, messages, cbVars, handler, references, taken, handles, dropped>>
    BY <1>1 DEF OpenFails, Core, ContextIsInOrder
<1>3. job'.steps = <<>> /\ job'.by = "none" /\ app'.at = "idle" /\ app'.list = <<>> /\ app'.cb = 0 /\ app'.o = 0
    BY <1>2 DEF NoJob, IdleApp
<1>4. Own[x] > 0
    BY <1>1, <1>2, HeldIsThere DEF Opening
<1>5. objects' \in [Object -> Records]
    BY <1>2, <1>4, UnrefIs DEF Unreffed
<1>6. DevicesTypeOK'
    BY <1>2, <1>5 DEF Core, DevicesTypeOK, world, cbVars, Records, NoJob, IdleApp
<1>7. ContextIsInOrder'
    BY <1>2, <1>3 DEF Core, ContextIsInOrder
<1>8. LeftOnce' /\ ArrivedIsKept'
    BY <1>2, <1>3, MessagesKeep
<1>9. \A o \in Object : InLists(o)' + InMessages(o)' + InSteps(o)' + InUse(o)'
                        = InLists(o) + InMessages(o) + InSteps(o) + InUse(o) - (IF o = x THEN 1 ELSE 0)
    <2>1. \A o \in Object : InLists(o)' = InLists(o) /\ InMessages(o)' = InMessages(o) /\ InSteps(o)' = InSteps(o)
        BY <1>2, <1>3, ListsSame, MessagesSame, StepsSame
    <2>2. \A o \in Object : InUse(o)' = InUse(o) - (IF o = x THEN 1 ELSE 0)
        <3>1. \A o \in Object : ~Opening(o)' /\ (Opening(o) <=> o = x) /\ references[o] \in Nat
            BY <1>1, <1>2, <1>3, Types DEF Opening, Core
        <3> QED BY <1>2, <3>1 DEF InUse, One
    <2>3. \A o \in Object : InLists(o) \in Nat /\ InMessages(o) \in Nat /\ InSteps(o) \in Nat /\ InUse(o) \in Nat
        BY HoldersAre DEF Core
    <2> QED BY <2>1, <2>2, <2>3
<1>10. \A o \in Range(usbDevs) : Listed(o)'
    BY <1>2 DEF Listed, Exited
<1>11. /\ IsInjective(app'.list)
       /\ ~Exited' /\ ctx' \notin {"exit", "gone"} => ~Exited /\ ctx \notin {"exit", "gone"}
    BY <1>2, <1>3 DEF IsInjective, Exited
<1> QED BY <1>2, <1>3, <1>4, <1>6, <1>7, <1>8, <1>9, <1>10, <1>11, UnrefKeeps

\* libusb_free_device_list(), one object at a time.
LEMMA FreeDeviceListKeeps ==
    ASSUME Core, DevicesAssumption, FreeDeviceList
    PROVE  Core'
<1>1. /\ ctx = "open" /\ app.at = "enumerate" /\ app.list \in Seq(Object) /\ IsInjective(app.list)
      /\ UNCHANGED <<world, ctx, usbDevs, ready, messages, cbVars, job, handler, references, taken, handles, dropped>>
    BY Types DEF FreeDeviceList, AppAt, Core, ListIsAttached
<1>2. CASE app.list = <<>>
    <2>1. objects' = objects /\ app' = IdleApp /\ app'.list = <<>> /\ app'.at = "idle"
        BY <1>2 DEF FreeDeviceList, IdleApp
    <2>2. DevicesTypeOK' /\ ContextIsInOrder'
        BY <1>1, <2>1 DEF Core, DevicesTypeOK, ContextIsInOrder, world, cbVars, IdleApp
    <2>3. \A o \in Object : InLists(o)' = InLists(o)
        BY <1>1, <1>2, <2>1, ListsSame
    <2>4. /\ Quiet(objects, objects') /\ \A o \in Object : Opening(o)' <=> Opening(o)
        BY <1>1, <2>1 DEF Quiet, Opening
    <2>5. /\ IsInjective(app'.list) /\ (job'.by = "none" => job.steps = <<>>)
          /\ ~Exited' /\ ctx' \notin {"exit", "gone"} => ~Exited /\ ctx \notin {"exit", "gone"}
        BY <1>1, <2>1 DEF Core, StepsAreInPlace, Exited, IsInjective
    <2> QED BY <1>1, <2>1, <2>2, <2>3, <2>4, <2>5, Still
<1>3. CASE app.list # <<>>
    <2>1. PICK x, rest : x = Head(app.list) /\ rest = Tail(app.list)
        OBVIOUS
    <2>2. /\ x \in Object /\ x \in Range(app.list) /\ rest \in Seq(Object) /\ IsInjective(rest)
          /\ \A q : q \in Range(rest) <=> q \in Range(app.list) /\ q # x
        <3>1. \A o \in Object : /\ Tail(app.list) \in Seq(Object) /\ IsInjective(Tail(app.list))
                             /\ Head(app.list) \in Object /\ Head(app.list) \in Range(app.list)
                             /\ \A q : q \in Range(Tail(app.list)) <=> q \in Range(app.list) /\ q # Head(app.list)
            BY <1>1, <1>3, ListIs
        <3>2. Head(app.list) \in Object
            BY <1>1, <1>3
        <3> QED BY <2>1, <3>1, <3>2
    <2>3. app' = [app EXCEPT !.list = rest] /\ objects' = Unref(objects, x)
        BY <1>3, <2>1 DEF FreeDeviceList
    <2>4. app'.list = rest /\ app'.at = app.at /\ app'.o = app.o
        <3>1. DOMAIN app = {"at", "cb", "list", "o"}
            BY DEF Core, DevicesTypeOK
        <3> QED BY <2>3, <3>1 DEF Core, DevicesTypeOK
    <2>5. Own[x] > 0
        BY <1>1, <2>2, HeldIsThere DEF Given
    <2>6. objects' \in [Object -> Records]
        BY <2>2, <2>3, <2>5, UnrefIs DEF Unreffed
    <2>7. DevicesTypeOK'
        BY <1>1, <2>2, <2>3, <2>6 DEF Core, DevicesTypeOK, world, cbVars, Records
    <2>8. ContextIsInOrder'
        BY <1>1, <2>4 DEF Core, ContextIsInOrder
    <2>9. LeftOnce' /\ ArrivedIsKept'
        BY <1>1, MessagesKeep
    <2>10. \A o \in Object : InLists(o)' + InMessages(o)' + InSteps(o)' + InUse(o)'
                            = InLists(o) + InMessages(o) + InSteps(o) + InUse(o) - (IF o = x THEN 1 ELSE 0)
        <3>1. \A o \in Object : InMessages(o)' = InMessages(o) /\ InSteps(o)' = InSteps(o) /\ InUse(o)' = InUse(o)
            BY <1>1, <2>4, MessagesSame, StepsSame, UseSame DEF Opening
        <3>2. \A o \in Object : InLists(o)' = InLists(o) - (IF o = x THEN 1 ELSE 0)
            BY <1>1, <2>2, <2>4 DEF InLists, Listed, Given, Exited, One
        <3>3. \A o \in Object : InLists(o) \in Nat /\ InMessages(o) \in Nat /\ InSteps(o) \in Nat /\ InUse(o) \in Nat
            BY HoldersAre DEF Core
        <3> QED BY <3>1, <3>2, <3>3
    <2>11. \A o \in Range(usbDevs) : Listed(o)'
        BY <1>1 DEF Listed, Exited
    <2>12. /\ IsInjective(app'.list) /\ (job'.by = "none" => job.steps = <<>>)
           /\ ~Exited' /\ ctx' \notin {"exit", "gone"} => ~Exited /\ ctx \notin {"exit", "gone"}
        BY <1>1, <2>2, <2>4 DEF Core, StepsAreInPlace, Exited
    <2> QED BY <1>1, <2>2, <2>3, <2>5, <2>7, <2>8, <2>9, <2>10, <2>11, <2>12, UnrefKeeps
<1> QED BY <1>2, <1>3

\* The first message is taken off.
LeavesOnce(q) == \A i, j \in DOMAIN q : i < j /\ q[i][1] = "left" => q[i][2] # q[j][2]
Fewer(old, new) ==
    /\ new \in Seq(Changes) /\ LeavesOnce(new)
    /\ 1 \in DOMAIN old /\ old[1] \in Changes
    /\ \A i \in DOMAIN new : \E j \in DOMAIN old : new[i] = old[j] /\ (old[1][1] = "left" => old[j][2] # old[1][2])
    /\ \A o : (\E i \in DOMAIN new : new[i] = <<"left", o>>)
                <=> (\E i \in DOMAIN old : old[i] = <<"left", o>>) /\ ~(old[1][1] = "left" /\ old[1][2] = o)

\* The message in front is the only one that its object has left.
LEMMA FewerAre ==
    ASSUME NEW old \in Seq(Changes), old # <<>>, LeavesOnce(old)
    PROVE  Head(old) = old[1] /\ Fewer(old, Tail(old))
<1>1. PICK new : new = Tail(old)
    OBVIOUS
<1>2. /\ Head(old) = old[1] /\ old[1] \in Changes /\ 1 \in DOMAIN old /\ new \in Seq(Changes)
      /\ \A i \in DOMAIN new : i \in Nat /\ i + 1 \in DOMAIN old /\ new[i] = old[i + 1] /\ 1 < i + 1
      /\ \A i \in DOMAIN old : i \in Nat /\ (i # 1 => i - 1 \in DOMAIN new /\ new[i - 1] = old[i])
    BY <1>1, QueueFirst
<1>3. LeavesOnce(new)
    <2> SUFFICES ASSUME NEW i \in DOMAIN new, NEW j \in DOMAIN new, i < j, new[i][1] = "left"
                 PROVE  new[i][2] # new[j][2]
        BY DEF LeavesOnce
    <2>1. /\ i + 1 \in DOMAIN old /\ j + 1 \in DOMAIN old /\ i + 1 < j + 1
          /\ new[i] = old[i + 1] /\ new[j] = old[j + 1]
        BY <1>2
    <2> QED BY <2>1 DEF LeavesOnce
<1>4. \A i \in DOMAIN new : \E j \in DOMAIN old : new[i] = old[j] /\ (old[1][1] = "left" => old[j][2] # old[1][2])
    <2> SUFFICES ASSUME NEW i \in DOMAIN new
                 PROVE  \E j \in DOMAIN old : new[i] = old[j] /\ (old[1][1] = "left" => old[j][2] # old[1][2])
        OBVIOUS
    <2>1. i + 1 \in DOMAIN old /\ new[i] = old[i + 1] /\ 1 < i + 1
        BY <1>2
    <2>2. old[1][1] = "left" => old[i + 1][2] # old[1][2]
        BY <1>2, <2>1 DEF LeavesOnce
    <2> QED BY <2>1, <2>2
<1>5. ASSUME NEW o
      PROVE  (\E i \in DOMAIN new : new[i] = <<"left", o>>)
                <=> (\E i \in DOMAIN old : old[i] = <<"left", o>>) /\ ~(old[1][1] = "left" /\ old[1][2] = o)
    <2>1. \A m \in Changes : m = <<"left", o>> <=> m[1] = "left" /\ m[2] = o
        BY DEF Changes
    <2>2. ASSUME NEW i \in DOMAIN new, new[i] = <<"left", o>>
          PROVE  (\E k \in DOMAIN old : old[k] = <<"left", o>>) /\ ~(old[1][1] = "left" /\ old[1][2] = o)
        <3>1. PICK j \in DOMAIN old : new[i] = old[j] /\ (old[1][1] = "left" => old[j][2] # old[1][2])
            BY <1>4
        <3>2. old[j] \in Changes
            BY <3>1
        <3> QED BY <2>1, <2>2, <3>1, <3>2
    <2>3. ASSUME NEW i \in DOMAIN old, old[i] = <<"left", o>>, ~(old[1][1] = "left" /\ old[1][2] = o)
          PROVE  \E k \in DOMAIN new : new[k] = <<"left", o>>
        <3>1. i # 1
            BY <1>2, <2>1, <2>3
        <3> QED BY <1>2, <2>3, <3>1
    <2> QED BY <2>2, <2>3
<1> QED BY <1>1, <1>2, <1>3, <1>4, <1>5 DEF Fewer

\* The holders are the same, and the objects.
LEMMA SameKeeps ==
    ASSUME Core, DevicesAssumption, DevicesTypeOK', ContextIsInOrder', LeftOnce', ArrivedIsKept',
           objects' = objects,
           \A o \in Object : InLists(o)' + InMessages(o)' + InSteps(o)' + InUse(o)'
                             = InLists(o) + InMessages(o) + InSteps(o) + InUse(o),
           usbDevs' = usbDevs, job'.steps = job.steps, job'.by = "none" => job.steps = <<>>,
           IsInjective(app'.list),
           ~Exited' /\ ctx' \notin {"exit", "gone"} => ~Exited /\ ctx \notin {"exit", "gone"}
    PROVE  Core'
<1>1. Quiet(objects, objects')
    BY DEF Quiet
<1>2. Own' = Own
    BY OwnSame DEF Core
<1>3. RefsAreHolders'
    <2>1. Counts(objects', Own') /\ Family(objects') /\ \A o \in Range(usbDevs') : Live(o)'
        BY <1>2, RefsAre DEF Live
    <2> QED BY <2>1, RefsWillBe
<1>4. StepsAreInPlace'
    <2>1. ASSUME NEW o \in Object, InStep(o, Connecting) PROVE Live(o)'
        <3>1. InStep(o, Connecting \cup {"unlist"})
            BY <2>1 DEF InStep
        <3>2. Live(o)
            BY <3>1, HeldIsThere
        <3> QED BY <3>2 DEF Live
    <2> QED BY <1>1, <2>1, StepsKeep
<1>5. ListIsAttached'
    BY <1>1, ListKeep
<1> QED BY <1>3, <1>4, <1>5 DEF Core

\* usbi_hotplug_exit() frees a message that nobody was told.
LEMMA FreeMessageKeeps ==
    ASSUME Core, DevicesAssumption, FreeMessage
    PROVE  Core'
<1>1. PICK m : m = messages[1]
    OBVIOUS
<1>2. LeavesOnce(messages)
    BY DEF LeavesOnce, Core, LeftOnce
<1>3. /\ Fewer(messages, messages') /\ m = Head(messages)
    BY <1>1, <1>2, FewerAre, MessagesAre DEF FreeMessage
<1>4. /\ ctx = "exit" /\ messages # <<>> /\ app.list = usbDevs /\ app.at = "exit" /\ handler.messages = <<>>
      /\ job.steps = <<>> /\ ready
      /\ UNCHANGED <<world, ctx, usbDevs, ready, cbVars, job, handler, appVars, dropped>>
    BY DEF FreeMessage, Core, ContextIsInOrder
<1>5. /\ m \in Changes /\ messages' \in Seq(Changes)
      /\ \A o : Leaving(o)' <=> Leaving(o) /\ ~(m[1] = "left" /\ m[2] = o)
      /\ \A i \in DOMAIN messages' : \E j \in DOMAIN messages : messages'[i] = messages[j] /\ (m[1] = "left" => messages[j][2] # m[2])
      /\ m[1] = "left" => Leaving(m[2])
    <2>1. 1 \in DOMAIN messages /\ m \in Changes
        BY <1>1, <1>3 DEF Fewer
    <2>2. m[1] = "left" => Leaving(m[2])
        BY <1>1, <2>1, MessagesAre
    <2> QED BY <1>1, <1>3, <2>1, <2>2 DEF Fewer, Leaving
<1>6. \A o : /\ ~InStep(o, {"left"}) /\ ~InStep(o, {"left"})' /\ ~InStep(o, Connecting)'
             /\ (LeavingNow(o)' <=> LeavingNow(o)) /\ ~LeavingNow(o)
    BY <1>4 DEF InStep, LeavingNow
<1>7. LeftOnce'
    <2>1. ASSUME NEW o \in Object, (Leaving(o) \/ LeavingNow(o) \/ o \in dropped)'
          PROVE  /\ o \notin Range(usbDevs') /\ \A i \in DOMAIN job'.steps : job'.steps[i].o # o
                 /\ o \in dropped' => ~Leaving(o)' /\ ~LeavingNow(o)'
        <3>1. Leaving(o) \/ LeavingNow(o) \/ o \in dropped
            BY <1>4, <1>5, <1>6, <2>1
        <3>2. /\ o \notin Range(usbDevs) /\ \A i \in DOMAIN job.steps : job.steps[i].o # o
              /\ o \in dropped => ~Leaving(o) /\ ~LeavingNow(o)
            BY <3>1 DEF Core, LeftOnce
        <3> QED BY <1>4, <1>5, <1>6, <3>2
    <2>2. \A i, j \in DOMAIN messages' : i < j /\ messages'[i][1] = "left" => messages'[i][2] # messages'[j][2]
        BY <1>3 DEF Fewer, LeavesOnce
    <2> QED BY <1>4, <2>1, <2>2 DEF LeftOnce
<1>8. ArrivedIsKept'
    <2>1. ASSUME NEW i \in DOMAIN messages' PROVE Kept(messages[i][2])'
        <3>1. PICK j \in DOMAIN messages : messages'[i] = messages[j] /\ (m[1] = "left" => messages[j][2] # m[2])
            BY <1>5
        <3>2. PICK o : o = messages[j][2]
            OBVIOUS
        <3>3. Kept(o) /\ (m[1] = "left" => o # m[2])
            BY <3>1, <3>2 DEF Core, ArrivedIsKept
        <3>4. Kept(o)'
            BY <1>4, <1>5, <1>6, <3>3 DEF Kept
        <3> QED BY <3>1, <3>2, <3>4 DEF Kept
    <2> QED BY <1>4, <1>6, <2>1 DEF ArrivedIsKept
<1>9. ContextIsInOrder'
    BY <1>4 DEF Core, ContextIsInOrder, appVars
<1>10. /\ IsInjective(app'.list) /\ (job'.by = "none" => job.steps = <<>>)
       /\ ~Exited' /\ ctx' \notin {"exit", "gone"} => ~Exited /\ ctx \notin {"exit", "gone"}
       /\ \A o \in Range(usbDevs) : Listed(o)'
    BY <1>4 DEF Core, ListIsAttached, Exited, Listed, appVars
<1>11. \A o \in Object : InLists(o)' = InLists(o) /\ InSteps(o)' = InSteps(o) /\ InUse(o)' = InUse(o)
    BY <1>4, ListsSame, StepsSame, UseSame DEF Opening, appVars
<1>12. \A o \in Object : InLists(o) \in Nat /\ InMessages(o) \in Nat /\ InSteps(o) \in Nat /\ InUse(o) \in Nat
    BY HoldersAre DEF Core
<1>13. CASE m[1] = "left"
    <2>1. PICK x : x = m[2]
        OBVIOUS
    <2>2. x \in Object /\ Leaving(x)
        BY <1>5, <1>13, <2>1 DEF Changes
    <2>3. objects' = Unref(objects, x)
        BY <1>3, <1>13, <2>1 DEF FreeMessage
    <2>4. Own[x] > 0
        BY <2>2, HeldIsThere
    <2>5. objects' \in [Object -> Records]
        BY <2>2, <2>3, <2>4, UnrefIs DEF Unreffed
    <2>6. DevicesTypeOK'
        BY <1>4, <1>5, <2>5 DEF Core, DevicesTypeOK, world, cbVars, appVars, Records
    <2>7. \A o \in Object : InLists(o)' + InMessages(o)' + InSteps(o)' + InUse(o)'
                            = InLists(o) + InMessages(o) + InSteps(o) + InUse(o) - (IF o = x THEN 1 ELSE 0)
        <3>1. \A o \in Object : InMessages(o)' = InMessages(o) - (IF o = x THEN 1 ELSE 0)
            BY <1>4, <1>5, <1>6, <1>13, <2>1, <2>2 DEF InMessages, One
        <3> QED BY <1>11, <1>12, <3>1
    <2> QED BY <1>4, <1>7, <1>8, <1>9, <1>10, <2>2, <2>3, <2>4, <2>6, <2>7, UnrefKeeps
<1>14. CASE m[1] # "left"
    <2>1. objects' = objects
        BY <1>3, <1>14 DEF FreeMessage
    <2>2. DevicesTypeOK'
        BY <1>4, <1>5, <2>1 DEF Core, DevicesTypeOK, world, cbVars, appVars
    <2>3. \A o \in Object : InMessages(o)' = InMessages(o)
        BY <1>4, <1>5, <1>6, <1>14 DEF InMessages, One
    <2>4. \A o \in Object : InLists(o)' + InMessages(o)' + InSteps(o)' + InUse(o)'
                            = InLists(o) + InMessages(o) + InSteps(o) + InUse(o)
        BY <1>11, <1>12, <2>3
    <2> QED BY <1>4, <1>7, <1>8, <1>9, <1>10, <2>1, <2>2, <2>4, SameKeeps
<1> QED BY <1>13, <1>14

\* usbi_hotplug_process() has told all callbacks and lets go of what has left.
LEMMA ProcessedKeeps ==
    ASSUME Core, DevicesAssumption, MessageDone
    PROVE  Core'
<1>1. PICK m, rest : m = handler.messages[1] /\ rest = Tail(handler.messages)
    OBVIOUS
<1>2. LeavesOnce(handler.messages)
    BY DEF LeavesOnce, Core, LeftOnce
<1>3. /\ Fewer(handler.messages, rest) /\ m = Head(handler.messages) /\ handler.messages # <<>>
    BY <1>1, <1>2, FewerAre, MessagesAre DEF MessageDone
<1>4. /\ ctx = "open"
      /\ UNCHANGED <<world, ctx, usbDevs, ready, messages, needsFree, registered, left, job, appVars, dropped>>
    BY <1>3 DEF MessageDone, Core, ContextIsInOrder
<1>5. /\ handler'.messages = rest /\ handler' \in [messages : Seq(Changes), todo : SUBSET Nat] /\ callbacks' \subseteq Nat
      /\ handler'.todo # {} => rest # <<>>
    <2>1. rest \in Seq(Changes) /\ callbacks \subseteq Nat
        BY <1>3 DEF Fewer, Core, DevicesTypeOK
    <2>2. CASE rest = <<>>
        BY <1>1, <2>1, <2>2 DEF MessageDone, IdleHandler
    <2>3. CASE rest # <<>>
        BY <1>1, <2>1, <2>3 DEF MessageDone
    <2> QED BY <2>2, <2>3
<1>6. /\ m \in Changes
      /\ \A o : LeavingNow(o)' <=> LeavingNow(o) /\ ~(m[1] = "left" /\ m[2] = o)
      /\ \A i \in DOMAIN rest : \E j \in DOMAIN handler.messages :
            rest[i] = handler.messages[j] /\ (m[1] = "left" => handler.messages[j][2] # m[2])
      /\ m[1] = "left" => LeavingNow(m[2])
    <2>1. 1 \in DOMAIN handler.messages /\ m \in Changes
        BY <1>1, <1>3 DEF Fewer
    <2>2. m[1] = "left" => LeavingNow(m[2])
        BY <1>1, <2>1, MessagesAre
    <2>3. /\ handler'.messages = rest /\ m = handler.messages[1]
          /\ \A o : (\E i \in DOMAIN rest : rest[i] = <<"left", o>>)
                     <=> (\E i \in DOMAIN handler.messages : handler.messages[i] = <<"left", o>>)
                         /\ ~(m[1] = "left" /\ m[2] = o)
        BY <1>1, <1>3, <1>5 DEF Fewer
    <2>4. \A o : LeavingNow(o)' <=> LeavingNow(o) /\ ~(m[1] = "left" /\ m[2] = o)
        BY <2>3 DEF LeavingNow
    <2>5. \A i \in DOMAIN rest : \E j \in DOMAIN handler.messages :
              rest[i] = handler.messages[j] /\ (m[1] = "left" => handler.messages[j][2] # m[2])
        BY <1>1, <1>3 DEF Fewer
    <2> QED BY <2>1, <2>2, <2>4, <2>5
<1>7. /\ \A o, dos : InStep(o, dos)' <=> InStep(o, dos)
      /\ \A o : (Leaving(o)' <=> Leaving(o)) /\ (Kept(o)' <=> Kept(o))
    BY <1>4 DEF InStep, Leaving, Kept
<1>8. LeftOnce'
    <2>1. ASSUME NEW o \in Object, (Leaving(o) \/ LeavingNow(o) \/ o \in dropped)'
          PROVE  /\ o \notin Range(usbDevs') /\ \A i \in DOMAIN job'.steps : job'.steps[i].o # o
                 /\ o \in dropped' => ~Leaving(o)' /\ ~LeavingNow(o)'
        <3>1. Leaving(o) \/ LeavingNow(o) \/ o \in dropped
            BY <1>4, <1>6, <1>7, <2>1
        <3>2. /\ o \notin Range(usbDevs) /\ \A i \in DOMAIN job.steps : job.steps[i].o # o
              /\ o \in dropped => ~Leaving(o) /\ ~LeavingNow(o)
            BY <3>1 DEF Core, LeftOnce
        <3> QED BY <1>4, <1>6, <1>7, <3>2
    <2>2. \A i, j \in DOMAIN handler'.messages :
             i < j /\ handler'.messages[i][1] = "left" => handler'.messages[i][2] # handler'.messages[j][2]
        BY <1>3, <1>5 DEF Fewer, LeavesOnce
    <2>3. ASSUME NEW i \in DOMAIN handler'.messages, NEW j \in DOMAIN messages', handler'.messages[i][1] = "left"
          PROVE  handler'.messages[i][2] # messages'[j][2]
        <3>1. PICK k \in DOMAIN handler.messages : handler'.messages[i] = handler.messages[k]
            BY <1>5, <1>6
        <3> QED BY <1>4, <2>3, <3>1 DEF Core, LeftOnce
    <2>4. \A i, j \in DOMAIN messages' : i < j /\ messages'[i][1] = "left" => messages'[i][2] # messages'[j][2]
        BY <1>4 DEF Core, LeftOnce
    <2> QED BY <2>1, <2>2, <2>3, <2>4 DEF LeftOnce
<1>9. ArrivedIsKept'
    <2>1. ASSUME NEW i \in DOMAIN handler'.messages
          PROVE  /\ Kept(handler.messages[i][2])' \/ LeavingNow(handler.messages[i][2])'
        <3>1. PICK j \in DOMAIN handler.messages :
                 handler'.messages[i] = handler.messages[j] /\ (m[1] = "left" => handler.messages[j][2] # m[2])
            BY <1>5, <1>6
        <3>2. PICK o : o = handler.messages[j][2]
            OBVIOUS
        <3>3. (Kept(o) \/ LeavingNow(o)) /\ (m[1] = "left" => o # m[2])
            BY <3>1, <3>2 DEF Core, ArrivedIsKept
        <3>4. Kept(o)' \/ LeavingNow(o)'
            BY <1>6, <1>7, <3>3
        <3> QED BY <3>1, <3>2, <3>4 DEF Kept, LeavingNow
    <2>2. \A i \in DOMAIN messages' : Kept(messages[i][2])'
        BY <1>4, <1>7 DEF Core, ArrivedIsKept
    <2>3. ASSUME NEW o \in Object, InStep(o, Connecting)'
          PROVE  /\ \A i \in DOMAIN messages' : messages'[i][2] # o
                 /\ \A i \in DOMAIN handler'.messages : handler'.messages[i][2] # o
        <3>1. /\ \A i \in DOMAIN messages : messages[i][2] # o
              /\ \A i \in DOMAIN handler.messages : handler.messages[i][2] # o
            BY <1>7, <2>3 DEF Core, ArrivedIsKept
        <3> QED BY <1>4, <1>5, <1>6, <3>1
    <2> QED BY <2>1, <2>2, <2>3 DEF ArrivedIsKept
<1>10. ContextIsInOrder'
    BY <1>4, <1>5 DEF Core, ContextIsInOrder, appVars
<1>11. /\ IsInjective(app'.list) /\ (job'.by = "none" => job.steps = <<>>)
       /\ ~Exited' /\ ctx' \notin {"exit", "gone"} => ~Exited /\ ctx \notin {"exit", "gone"}
       /\ \A o \in Range(usbDevs) : Listed(o)'
    BY <1>4 DEF Core, ListIsAttached, StepsAreInPlace, Exited, Listed, appVars
<1>12. \A o \in Object : InLists(o)' = InLists(o) /\ InSteps(o)' = InSteps(o) /\ InUse(o)' = InUse(o)
    BY <1>4, ListsSame, StepsSame, UseSame DEF Opening, appVars
<1>13. \A o \in Object : InLists(o) \in Nat /\ InMessages(o) \in Nat /\ InSteps(o) \in Nat /\ InUse(o) \in Nat
    BY HoldersAre DEF Core
<1>14. CASE m[1] = "left"
    <2>1. PICK x : x = m[2]
        OBVIOUS
    <2>2. x \in Object /\ LeavingNow(x)
        BY <1>6, <1>14, <2>1 DEF Changes
    <2>3. objects' = Unref(objects, x)
        BY <1>3, <1>14, <2>1 DEF MessageDone, Message
    <2>4. Own[x] > 0
        BY <2>2, HeldIsThere
    <2>5. objects' \in [Object -> Records]
        BY <2>2, <2>3, <2>4, UnrefIs DEF Unreffed
    <2>6. DevicesTypeOK'
        BY <1>4, <1>5, <2>5 DEF Core, DevicesTypeOK, world, appVars, Records
    <2>7. \A o \in Object : InLists(o)' + InMessages(o)' + InSteps(o)' + InUse(o)'
                            = InLists(o) + InMessages(o) + InSteps(o) + InUse(o) - (IF o = x THEN 1 ELSE 0)
        <3>1. \A o \in Object : InMessages(o)' = InMessages(o) - (IF o = x THEN 1 ELSE 0)
            BY <1>4, <1>6, <1>7, <1>14, <2>1, <2>2 DEF InMessages, One
        <3> QED BY <1>12, <1>13, <3>1
    <2>8. usbDevs' = usbDevs /\ job'.steps = job.steps
        BY <1>4
    <2> QED BY <1>8, <1>9, <1>10, <1>11, <2>2, <2>3, <2>4, <2>6, <2>7, <2>8, UnrefKeeps
<1>15. CASE m[1] # "left"
    <2>1. objects' = objects
        BY <1>3, <1>15 DEF MessageDone, Message
    <2>2. DevicesTypeOK'
        BY <1>4, <1>5, <2>1 DEF Core, DevicesTypeOK, world, appVars
    <2>3. \A o \in Object : InMessages(o)' = InMessages(o)
        BY <1>4, <1>6, <1>7, <1>15 DEF InMessages, One
    <2>4. \A o \in Object : InLists(o)' + InMessages(o)' + InSteps(o)' + InUse(o)'
                            = InLists(o) + InMessages(o) + InSteps(o) + InUse(o)
        BY <1>12, <1>13, <2>3
    <2>5. usbDevs' = usbDevs /\ job'.steps = job.steps
        BY <1>4
    <2> QED BY <1>8, <1>9, <1>10, <1>11, <2>1, <2>2, <2>4, <2>5, SameKeeps
<1> QED BY <1>14, <1>15

\* usbi_hotplug_exit() lets go of one on the list, which stays for those who keep it.
LEMMA FreeListedKeeps ==
    ASSUME Core, DevicesAssumption, FreeListed
    PROVE  Core'
<1>1. PICK x, rest, p, list : /\ x = Head(app.list) /\ rest = Tail(app.list) /\ p = objects[x].parent
                              /\ list = IF objects[x].refs = 1 THEN Removed(usbDevs, x) ELSE usbDevs
    OBVIOUS
<1>2. /\ ctx = "exit" /\ messages = <<>> /\ app.list # <<>> /\ app' = [app EXCEPT !.list = rest]
      /\ usbDevs' = (IF p # 0 /\ objects[p].refs = 1 THEN Removed(list, p) ELSE list)
      /\ objects' = Unref(objects, x)
      /\ UNCHANGED <<world, ctx, ready, messages, cbVars, job, handler, references, taken, handles, dropped>>
    BY <1>1 DEF FreeListed
<1>3. /\ app.list \in Seq(Object) /\ IsInjective(app.list) /\ usbDevs \in Seq(Object) /\ IsInjective(usbDevs)
      /\ app.at = "exit" /\ handler.messages = <<>> /\ job.steps = <<>> /\ ready
    BY <1>2, Types DEF Core, ListIsAttached, ContextIsInOrder
<1>4. /\ x \in Object /\ x \in Range(app.list) /\ rest \in Seq(Object) /\ IsInjective(rest)
      /\ \A q : q \in Range(rest) <=> q \in Range(app.list) /\ q # x
    <2>1. \A o \in Object : /\ Tail(app.list) \in Seq(Object) /\ IsInjective(Tail(app.list))
                            /\ Head(app.list) \in Object /\ Head(app.list) \in Range(app.list)
                            /\ \A q : q \in Range(Tail(app.list)) <=> q \in Range(app.list) /\ q # Head(app.list)
        BY <1>2, <1>3, ListIs
    <2>2. Head(app.list) \in Object
        BY <1>2, <1>3
    <2> QED BY <1>1, <2>1, <2>2
<1>5. app'.list = rest /\ app'.at = app.at /\ app'.o = app.o
    BY <1>2 DEF Core, DevicesTypeOK
<1>6. /\ usbDevs' \in Seq(Object) /\ IsInjective(usbDevs')
      /\ \A q : q \in Range(usbDevs') <=> /\ q \in Range(usbDevs) /\ (q = x => objects[x].refs # 1)
                                          /\ (q = p => p = 0 \/ objects[p].refs # 1)
    <2>1. /\ list \in Seq(Object) /\ IsInjective(list)
          /\ \A q : q \in Range(list) <=> q \in Range(usbDevs) /\ (q = x => objects[x].refs # 1)
        BY <1>1, <1>3, RemovedIs
    <2>2. CASE p # 0 /\ objects[p].refs = 1
        BY <1>2, <2>1, <2>2, RemovedIs
    <2>3. CASE ~(p # 0 /\ objects[p].refs = 1)
        BY <1>2, <2>1, <2>3
    <2> QED BY <2>2, <2>3
<1>7. Own[x] > 0
    BY <1>2, <1>4, HeldIsThere DEF Listed
<1>8. Unreffed(objects, x, objects') /\ Counts(objects', [Own EXCEPT ![x] = @ - 1])
    BY <1>2, <1>4, <1>7, UnrefIs
<1>9. /\ objects' \in [Object -> Records] /\ Family(objects')
      /\ \A o \in Object : /\ objects'[o].dev = objects[o].dev
                           /\ objects'[o].state # "live" /\ objects[o].state = "live" =>
                                objects[o].refs = 1 /\ o \in {x, p}
    BY <1>1, <1>8 DEF Unreffed
<1>10. DevicesTypeOK'
    BY <1>2, <1>4, <1>6, <1>9 DEF Core, DevicesTypeOK, world, cbVars, Records
<1>11. ContextIsInOrder'
    BY <1>2, <1>3, <1>5 DEF Core, ContextIsInOrder
<1>12. \A o \in Object : InLists(o)' + InMessages(o)' + InSteps(o)' + InUse(o)'
                         = InLists(o) + InMessages(o) + InSteps(o) + InUse(o) - (IF o = x THEN 1 ELSE 0)
    <2>1. \A o \in Object : InMessages(o)' = InMessages(o) /\ InSteps(o)' = InSteps(o) /\ InUse(o)' = InUse(o)
        BY <1>2, <1>5, MessagesSame, StepsSame, UseSame DEF Opening
    <2>2. \A o \in Object : InLists(o)' = InLists(o) - (IF o = x THEN 1 ELSE 0)
        BY <1>2, <1>4, <1>5 DEF InLists, Listed, Given, Exited, One
    <2>3. \A o \in Object : InLists(o) \in Nat /\ InMessages(o) \in Nat /\ InSteps(o) \in Nat /\ InUse(o) \in Nat
        BY HoldersAre DEF Core
    <2> QED BY <2>1, <2>2, <2>3
<1>13. RefsAreHolders'
    <2>1. Own' = [Own EXCEPT ![x] = @ - 1]
        BY <1>4, <1>10, <1>12, OwnLess DEF Core
    <2>2. Counts(objects', Own')
        BY <1>8, <2>1
    <2>3. \A o \in Range(usbDevs') : Live(o)'
        <3> SUFFICES ASSUME NEW o \in Range(usbDevs') PROVE objects'[o].state = "live"
            BY DEF Live
        <3>1. /\ o \in Object /\ objects[o].state = "live" /\ (o = x => objects[o].refs # 1)
              /\ (o = p => p = 0 \/ objects[p].refs # 1)
            BY <1>6, RefsAre DEF Live
        <3>2. o # 0
            BY <3>1 DEF Object
        <3> QED BY <1>9, <3>1, <3>2
    <2> QED BY <1>9, <1>10, <2>2, <2>3, RefsWillBe
<1>14. StepsAreInPlace'
    BY <1>2, <1>3 DEF Core, StepsAreInPlace
<1>15. ListIsAttached'
    <2>1. \A e \in Devices : \A o, q \in OnList(e)' : o = q
        <3>1. \A e : OnList(e)' \subseteq OnList(e)
            BY <1>6, <1>9, RefsAre DEF OnList
        <3> QED BY <3>1 DEF Core, ListIsAttached
    <2> QED BY <1>2, <1>4, <1>5, <1>6, <2>1 DEF ListIsAttached
<1>16. LeftOnce' /\ ArrivedIsKept'
    <2>1. \A o : /\ ~Leaving(o)' /\ ~LeavingNow(o)' /\ ~InStep(o, Connecting)'
        BY <1>2, <1>3 DEF Leaving, LeavingNow, InStep
    <2>2. \A o \in Object : o \in dropped' => o \notin Range(usbDevs')
        BY <1>2, <1>6 DEF Core, LeftOnce
    <2>3. messages' = <<>> /\ handler'.messages = <<>> /\ job'.steps = <<>>
        BY <1>2, <1>3
    <2> QED BY <2>1, <2>2, <2>3 DEF LeftOnce, ArrivedIsKept
<1> QED BY <1>10, <1>11, <1>13, <1>14, <1>15, <1>16 DEF Core

\* libusb_exit() frees the context.
LEMMA FreeContextKeeps ==
    ASSUME Core, DevicesAssumption, FreeContext
    PROVE  Core'
<1>1. /\ ctx = "stopped" /\ ctx' = "gone" /\ usbDevs' = <<>>
      /\ dropped' = IF ready THEN dropped ELSE dropped \cup Range(usbDevs)
      /\ UNCHANGED <<world, objects, ready, messages, cbVars, job, handler, appVars>>
    BY DEF FreeContext
<1>2. /\ job.steps = <<>> /\ messages = <<>> /\ handler.messages = <<>> /\ app.list = <<>> /\ app.at = "idle" /\ handles = {}
      /\ \A q : q \notin Range(<<>>)
    BY <1>1 DEF Core, ContextIsInOrder, NoJob, DevicesTypeOK, Range
<1>3. \A o \in Range(usbDevs) : o \in Object
    BY RefsAre
<1>4. DevicesTypeOK'
    BY <1>1, <1>3 DEF Core, DevicesTypeOK, world, cbVars, appVars
<1>5. ContextIsInOrder'
    BY <1>1, <1>2 DEF Core, ContextIsInOrder, appVars
<1>6. \A o : ~Leaving(o) /\ ~LeavingNow(o) /\ ~Leaving(o)' /\ ~LeavingNow(o)' /\ ~InStep(o, Connecting)'
    BY <1>1, <1>2 DEF Leaving, LeavingNow, InStep
<1>7. Own' = Own
    <2>1. \A o \in Object : InSteps(o)' = InSteps(o) /\ InUse(o)' = InUse(o)
        BY <1>1, StepsSame, UseSame DEF Opening, appVars
    <2>2. \A o \in Object : InLists(o)' + InMessages(o)' = InLists(o) + InMessages(o)
        <3>1. \A o \in Object : InLists(o)' = 0 /\ InLists(o) = IF ready THEN 0 ELSE One(o \in Range(usbDevs))
            BY <1>1, <1>2 DEF InLists, Listed, Given, Exited, One, appVars
        <3>2. \A o \in Object : o \in dropped => o \notin Range(usbDevs)
            BY DEF Core, LeftOnce
        <3>3. \A o \in Object : InMessages(o) = One(o \in dropped) /\ InMessages(o)' = One(o \in dropped')
            BY <1>6 DEF InMessages, One
        <3> QED BY <1>1, <3>1, <3>2, <3>3 DEF One
    <2>3. \A o \in Object : /\ InLists(o) \in Nat /\ InMessages(o) \in Nat /\ InSteps(o) \in Nat /\ InUse(o) \in Nat
                            /\ InLists(o)' \in Nat /\ InMessages(o)' \in Nat
        BY <1>4, HoldersAre, HoldersWillBe DEF Core
    <2>4. \A o \in Object : InLists(o)' + InMessages(o)' + InSteps(o)' + InUse(o)'
                            = InLists(o) + InMessages(o) + InSteps(o) + InUse(o)
        BY <2>1, <2>2, <2>3
    <2> QED BY <1>4, <2>4, OwnSame DEF Core
<1>8. RefsAreHolders'
    <2>1. Counts(objects', Own') /\ Family(objects') /\ \A o \in Range(usbDevs') : Live(o)'
        BY <1>1, <1>2, <1>7, RefsAre
    <2> QED BY <1>4, <2>1, RefsWillBe
<1>9. StepsAreInPlace'
    BY <1>1, <1>2 DEF Core, StepsAreInPlace
<1>10. ListIsAttached'
    <2>1. IsInjective(app'.list) /\ IsInjective(usbDevs') /\ \A e : OnList(e)' = {}
        BY <1>1, <1>2 DEF IsInjective, OnList, appVars
    <2> QED BY <1>1, <2>1 DEF ListIsAttached
<1>11. LeftOnce' /\ ArrivedIsKept'
    <2>1. messages' = <<>> /\ handler'.messages = <<>> /\ job'.steps = <<>> /\ \A o : o \notin Range(usbDevs')
        BY <1>1, <1>2
    <2> QED BY <1>6, <2>1 DEF LeftOnce, ArrivedIsKept
<1> QED BY <1>4, <1>5, <1>8, <1>9, <1>10, <1>11 DEF Core

-----------------------------------------------------------------------------
(* References that are taken *)

\* One more holder, and a reference.
LEMMA RefKeeps ==
    ASSUME Core, DevicesAssumption, DevicesTypeOK', ContextIsInOrder', LeftOnce', ArrivedIsKept',
           NEW x \in Object, Live(x), objects' = Ref(objects, x),
           \A o \in Object : InLists(o)' + InMessages(o)' + InSteps(o)' + InUse(o)'
                             = InLists(o) + InMessages(o) + InSteps(o) + InUse(o) + (IF o = x THEN 1 ELSE 0),
           usbDevs' = usbDevs, job' = job, IsInjective(app'.list),
           ~Exited' /\ ctx' \notin {"exit", "gone"} => ~Exited /\ ctx \notin {"exit", "gone"}
    PROVE  Core'
<1>1. /\ Counts(objects, Own) /\ Family(objects) /\ Own \in [Object -> Nat] /\ objects \in [Object -> Records]
      /\ objects[x].state = "live"
    BY RefsAre, Types DEF Core, Live
<1>2. PICK more : more = [Own EXCEPT ![x] = @ + 1]
    OBVIOUS
<1>3. /\ Counts(objects', more)
      /\ \A o \in Object : /\ objects'[o].state = objects[o].state /\ objects'[o].dev = objects[o].dev
                           /\ objects'[o].attached = objects[o].attached
                           /\ objects'[o].parent = objects[o].parent
    <2> HIDE DEF Own
    <2>1. PICK r : r = Ref(objects, x)
        OBVIOUS
    <2>2. /\ Counts(r, more)
          /\ \A o \in Object : /\ r[o].state = objects[o].state /\ r[o].dev = objects[o].dev
                               /\ r[o].attached = objects[o].attached
                               /\ r[o].parent = objects[o].parent
        <3>1. RefTaken(objects, x, r, more)
            BY <1>1, <1>2, <2>1, RefIs
        <3> QED BY <3>1 DEF RefTaken
    <2> QED BY <2>1, <2>2
<1>4. Own' = more
    BY <1>2, OwnMore DEF Core
<1>5. Quiet(objects, objects') /\ Family(objects')
    <2>1. Quiet(objects, objects')
        BY <1>3 DEF Quiet
    <2>2. Family(objects')
        BY <1>1, <1>3 DEF Family, Records
    <2> QED BY <2>1, <2>2
<1>6. RefsAreHolders'
    <2>1. \A o \in Range(usbDevs') : Live(o)'
        BY <1>3, RefsAre DEF Live
    <2> QED BY <1>3, <1>4, <1>5, <2>1, RefsWillBe
<1>7. StepsAreInPlace'
    <2>1. ASSUME NEW o \in Object, InStep(o, Connecting) PROVE Live(o)'
        <3>1. InStep(o, Connecting \cup {"unlist"})
            BY <2>1 DEF InStep
        <3>2. Live(o)
            BY <3>1, HeldIsThere
        <3> QED BY <1>3, <3>2 DEF Live
    <2>2. job'.by = "none" => job.steps = <<>>
        BY DEF Core, StepsAreInPlace
    <2> QED BY <1>5, <2>1, <2>2, StepsKeep
<1>8. ListIsAttached'
    BY <1>5, ListKeep
<1> QED BY <1>6, <1>7, <1>8 DEF Core

\* libusb_open(): a reference for the handle, or for the call that looks for the device first.
LEMMA OpenKeeps ==
    ASSUME Core, DevicesAssumption, NEW x \in Object, Open(x)
    PROVE  Core'
<1>1. /\ ctx = "open" /\ app.at = "idle" /\ references[x] > 0 /\ x \notin handles /\ objects' = Ref(objects, x)
      /\ \/ handles' = handles \cup {x} /\ app' = app
         \/ app' = [IdleApp EXCEPT !.at = "open", !.o = x] /\ handles' = handles
      /\ UNCHANGED <<world, ctx, usbDevs, ready, messages, cbVars, job, handler, references, taken, dropped>>
    BY DEF Open, AppAt
<1>2. Live(x) /\ app.list = <<>> /\ references \in [Object -> Nat] /\ job.by \notin {"poll", "open"}
    BY <1>1, HeldIsThere, Types DEF Core, ContextIsInOrder
<1>3. objects' \in [Object -> Records]
    <2>1. objects \in [Object -> Records]
        BY Types DEF Core
    <2> QED BY <1>1, <2>1, RefTypes
<1>4. /\ app'.list = <<>>
      /\ \/ handles' = handles \cup {x} /\ app' = app
         \/ /\ app'.at = "open" /\ app'.o = x /\ app' = [at |-> "open", cb |-> 0, list |-> <<>>, o |-> x]
            /\ handles' = handles
    BY <1>1, <1>2 DEF IdleApp
<1>5. DevicesTypeOK'
    <2>1. app' \in [at : {"idle", "poll", "copy", "enumerate", "open", "exit"}, cb : Nat, list : Seq(Object), o : Nat]
        <3>1. x \in Nat
            BY DEF Object, DevicesAssumption
        <3>2. PICK e : e = <<>> /\ e \in Seq(Object)
            BY <1>2, Types DEF Core
        <3>3. app \in [at : {"idle", "poll", "copy", "enumerate", "open", "exit"}, cb : Nat, list : Seq(Object), o : Nat]
            BY DEF Core, DevicesTypeOK
        <3>4. app' = app \/ app' = [at |-> "open", cb |-> 0, list |-> e, o |-> x]
            BY <1>4, <3>2
        <3>5. [at |-> "open", cb |-> 0, list |-> e, o |-> x]
                \in [at : {"idle", "poll", "copy", "enumerate", "open", "exit"}, cb : Nat, list : Seq(Object), o : Nat]
            BY <3>1, <3>2
        <3> QED BY <3>3, <3>4, <3>5
    <2> QED BY <1>1, <1>3, <2>1 DEF Core, DevicesTypeOK, world, cbVars, Records
<1>6. ContextIsInOrder'
    BY <1>1, <1>2, <1>4 DEF Core, ContextIsInOrder
<1>7. LeftOnce' /\ ArrivedIsKept'
    BY <1>1, MessagesKeep
<1>8. \A o \in Object : InLists(o)' + InMessages(o)' + InSteps(o)' + InUse(o)'
                        = InLists(o) + InMessages(o) + InSteps(o) + InUse(o) + (IF o = x THEN 1 ELSE 0)
    <2>1. \A o \in Object : InLists(o)' = InLists(o) /\ InMessages(o)' = InMessages(o) /\ InSteps(o)' = InSteps(o)
        BY <1>1, <1>2, <1>4, ListsSame, MessagesSame, StepsSame
    <2>2. \A o \in Object : InUse(o)' = InUse(o) + (IF o = x THEN 1 ELSE 0)
        <3>1. \A o \in Object : /\ ~Opening(o) /\ references[o] \in Nat
                                /\ \/ ~Opening(o)' /\ (o \in handles' <=> o \in handles \/ o = x)
                                   \/ (Opening(o)' <=> o = x) /\ (o \in handles' <=> o \in handles)
            BY <1>1, <1>2, <1>4 DEF Opening
        <3>2. \A o \in Object : One(o \in handles') + One(Opening(o)') = One(o \in handles) + One(Opening(o)) + (IF o = x THEN 1 ELSE 0)
            BY <1>1, <3>1 DEF One
        <3>3. \A o \in Object : One(o \in handles') \in Nat /\ One(Opening(o)') \in Nat /\ One(o \in handles) \in Nat /\ One(Opening(o)) \in Nat
            BY DEF One
        <3> QED BY <1>1, <3>1, <3>2, <3>3 DEF InUse
    <2>3. \A o \in Object : InLists(o) \in Nat /\ InMessages(o) \in Nat /\ InSteps(o) \in Nat /\ InUse(o) \in Nat
        BY HoldersAre DEF Core
    <2> QED BY <2>1, <2>2, <2>3
<1>9. /\ IsInjective(app'.list)
      /\ ~Exited' /\ ctx' \notin {"exit", "gone"} => ~Exited /\ ctx \notin {"exit", "gone"}
    BY <1>1, <1>4 DEF IsInjective, Exited
<1> QED BY <1>1, <1>2, <1>5, <1>6, <1>7, <1>8, <1>9, RefKeeps

\* A callback is told and may take a reference or open a handle.
LEMMA RunCallbackKeeps ==
    ASSUME Core, DevicesAssumption, NEW finished, NEW takes \in BOOLEAN, RunCallback(finished, takes)
    PROVE  Core'
<1>1. /\ handler.todo # {} /\ handler' = [handler EXCEPT !.todo = @ \ {Newest}]
      /\ callbacks' \subseteq callbacks
      /\ UNCHANGED <<world, ctx, usbDevs, ready, messages, needsFree, registered, job, app, handles, dropped>>
    BY DEF RunCallback
<1>2. handler'.messages = handler.messages /\ handler'.todo \subseteq handler.todo /\ handler' \in [messages : Seq(Changes), todo : SUBSET Nat]
    BY <1>1 DEF Core, DevicesTypeOK
<1>3. ContextIsInOrder'
    BY <1>1, <1>2 DEF Core, ContextIsInOrder
<1>4. LeftOnce' /\ ArrivedIsKept'
    BY <1>1, <1>2, MessagesKeep
<1>5. \A o \in Object : InLists(o)' = InLists(o) /\ InMessages(o)' = InMessages(o) /\ InSteps(o)' = InSteps(o)
    BY <1>1, <1>2, ListsSame, MessagesSame, StepsSame
<1>6. \A o \in Object : InLists(o) \in Nat /\ InMessages(o) \in Nat /\ InSteps(o) \in Nat /\ InUse(o) \in Nat
    BY HoldersAre DEF Core
<1>7. /\ IsInjective(app'.list) /\ (job'.by = "none" => job.steps = <<>>)
      /\ ~Exited' /\ ctx' \notin {"exit", "gone"} => ~Exited /\ ctx \notin {"exit", "gone"}
    BY <1>1 DEF Core, ListIsAttached, StepsAreInPlace, Exited
<1>8. callbacks' \subseteq Nat
    BY <1>1 DEF Core, DevicesTypeOK
<1>9. CASE takes
    <2>1. PICK x : x = Message[2]
        OBVIOUS
    <2>2. /\ objects' = Ref(objects, x) /\ references' = [references EXCEPT ![x] = @ + 1]
        BY <1>9, <2>1 DEF RunCallback
    <2>3. /\ 1 \in DOMAIN handler.messages /\ Message = handler.messages[1] /\ x \in Object
        <3>1. handler.messages # <<>> /\ handler.messages \in Seq(Changes)
            BY <1>1, Types DEF Core, ContextIsInOrder
        <3>2. 1 \in DOMAIN handler.messages /\ Message = handler.messages[1]
            BY <3>1, QueueFirst DEF Message
        <3> QED BY <2>1, <3>2, MessagesAre
    <2>4. Live(x)
        <3>1. Kept(x) \/ LeavingNow(x)
            BY <2>1, <2>3 DEF Core, ArrivedIsKept
        <3> QED BY <2>3, <3>1, HeldIsThere, RefsAre DEF Kept
    <2>5. objects' \in [Object -> Records]
        <3>1. objects \in [Object -> Records]
            BY Types DEF Core
        <3> QED BY <2>2, <2>3, <3>1, RefTypes
    <2>6. references \in [Object -> Nat] /\ references' \in [Object -> Nat]
          /\ \A o \in Object : references'[o] = references[o] + (IF o = x THEN 1 ELSE 0)
        <3>1. references \in [Object -> Nat]
            BY Types DEF Core
        <3> QED BY <2>2, <2>3, <3>1
    <2>7. DevicesTypeOK'
        BY <1>1, <1>2, <1>8, <2>5, <2>6 DEF Core, DevicesTypeOK, world, Records
    <2>8. \A o \in Object : InLists(o)' + InMessages(o)' + InSteps(o)' + InUse(o)'
                            = InLists(o) + InMessages(o) + InSteps(o) + InUse(o) + (IF o = x THEN 1 ELSE 0)
        <3>1. \A o \in Object : InUse(o)' = InUse(o) + (IF o = x THEN 1 ELSE 0)
            BY <1>1, <2>6 DEF InUse, Opening, One
        <3> QED BY <1>5, <1>6, <3>1
    <2> QED BY <1>1, <1>3, <1>4, <1>7, <2>2, <2>3, <2>4, <2>7, <2>8, RefKeeps
<1>10. CASE ~takes
    <2>1. objects' = objects /\ references' = references
        BY <1>10 DEF RunCallback
    <2>2. DevicesTypeOK'
        BY <1>1, <1>2, <1>8, <2>1 DEF Core, DevicesTypeOK, world
    <2>3. \A o \in Object : InUse(o)' = InUse(o)
        BY <1>1, <2>1, UseSame DEF Opening
    <2>4. \A o \in Object : InLists(o)' + InMessages(o)' + InSteps(o)' + InUse(o)'
                            = InLists(o) + InMessages(o) + InSteps(o) + InUse(o)
        BY <1>5, <1>6, <2>3
    <2>5. usbDevs' = usbDevs /\ job'.steps = job.steps
        BY <1>1
    <2> QED BY <1>3, <1>4, <1>7, <2>1, <2>2, <2>4, <2>5, SameKeeps
<1> QED BY <1>9, <1>10

\* The messages are taken: those who leave leave now.
LEMMA TakeMessagesKeeps ==
    ASSUME Core, DevicesAssumption, TakeMessages
    PROVE  Core'
<1>1. /\ ctx = "open" /\ handler.messages = <<>> /\ messages # <<>>
      /\ handler'.messages = messages /\ handler'.todo = callbacks /\ messages' = <<>>
      /\ UNCHANGED <<world, ctx, objects, usbDevs, ready, cbVars, job, appVars, dropped>>
    BY DEF TakeMessages, HandlerIdle, IdleHandler
<1>2. DevicesTypeOK'
    <2>1. handler' = [messages |-> messages, todo |-> callbacks]
        BY DEF TakeMessages
    <2> QED BY <1>1, <2>1 DEF Core, DevicesTypeOK, world, cbVars, appVars
<1>3. ContextIsInOrder'
    BY <1>1 DEF Core, ContextIsInOrder, appVars
<1>4. \A o : /\ ~Leaving(o)' /\ ~LeavingNow(o) /\ (LeavingNow(o)' <=> Leaving(o))
             /\ \A dos : InStep(o, dos)' <=> InStep(o, dos)
    BY <1>1 DEF Leaving, LeavingNow, InStep
<1>5. LeftOnce'
    BY <1>1, <1>4 DEF Core, LeftOnce
<1>6. ArrivedIsKept'
    <2>1. ASSUME NEW i \in DOMAIN handler'.messages
          PROVE  Kept(handler.messages[i][2])' \/ LeavingNow(handler.messages[i][2])'
        <3>1. PICK o : o = messages[i][2]
            OBVIOUS
        <3>2. Kept(o) /\ handler'.messages[i][2] = o
            BY <1>1, <3>1 DEF Core, ArrivedIsKept
        <3>3. Kept(o)' \/ LeavingNow(o)'
            BY <1>1, <1>4, <3>2 DEF Kept
        <3> QED BY <3>2, <3>3 DEF Kept, LeavingNow
    <2>2. ASSUME NEW o \in Object, InStep(o, Connecting)'
          PROVE  \A i \in DOMAIN handler'.messages : handler'.messages[i][2] # o
        BY <1>1, <1>4, <2>2 DEF Core, ArrivedIsKept
    <2> QED BY <1>1, <2>1, <2>2 DEF ArrivedIsKept
<1>7. \A o \in Object : InLists(o)' + InMessages(o)' + InSteps(o)' + InUse(o)'
                        = InLists(o) + InMessages(o) + InSteps(o) + InUse(o)
    <2>1. \A o \in Object : InLists(o)' = InLists(o) /\ InSteps(o)' = InSteps(o) /\ InUse(o)' = InUse(o)
        BY <1>1, ListsSame, StepsSame, UseSame DEF appVars, Opening
    <2>2. \A o \in Object : InMessages(o)' = InMessages(o)
        BY <1>1, <1>4 DEF InMessages, One
    <2> QED BY <2>1, <2>2
<1>8. /\ IsInjective(app'.list) /\ (job'.by = "none" => job.steps = <<>>)
      /\ ~Exited' /\ ctx' \notin {"exit", "gone"} => ~Exited /\ ctx \notin {"exit", "gone"}
      /\ usbDevs' = usbDevs /\ job'.steps = job.steps /\ objects' = objects
    BY <1>1 DEF Core, ListIsAttached, StepsAreInPlace, Exited, appVars
<1> QED BY <1>2, <1>3, <1>5, <1>6, <1>7, <1>8, SameKeeps

\* A reference more for all on a list.
Copied(objs, r, S) ==
    /\ \A o \in S : o \in Object /\ objs[o].state = "live"
    /\ r \in [Object -> Records]
    /\ \A o \in Object : /\ r[o].state = objs[o].state /\ r[o].dev = objs[o].dev
                         /\ r[o].attached = objs[o].attached /\ r[o].parent = objs[o].parent
                         /\ r[o].refs = IF o \in S THEN objs[o].refs + 1 ELSE objs[o].refs
OneMoreIn(h, more, S) == \A o \in Object : more[o] = IF o \in S THEN h[o] + 1 ELSE h[o]

\* A reference more for each keeps the account of holders that are one more each.
LEMMA CopyCounts ==
    ASSUME NEW objs \in [Object -> Records], NEW h \in [Object -> Nat], Counts(objs, h), Family(objs),
           DevicesAssumption, NEW S, NEW r, Copied(objs, r, S), NEW more \in [Object -> Nat], OneMoreIn(h, more, S)
    PROVE  Counts(r, more) /\ Family(r)
<1> USE DEF Copied, OneMoreIn
<1>1. \A o \in Object : Children(r, o) = Children(objs, o)
    BY DEF Children
<1>2. \A o \in Object : Cardinality(Children(r, o)) \in Nat
    BY ChildrenAreFinite
<1>3. Counts(r, more)
    <2> SUFFICES ASSUME NEW o \in Object
                 PROVE  IF r[o].state = "live"
                        THEN r[o].refs > 0 /\ r[o].refs = more[o] + Cardinality(Children(r, o))
                        ELSE more[o] = 0 /\ Children(r, o) = {}
        BY DEF Counts
    <2>1. objs[o].refs \in Nat
        BY DEF Records
    <2>2. CASE r[o].state = "live"
        <3>1. objs[o].refs > 0 /\ objs[o].refs = h[o] + Cardinality(Children(objs, o))
            BY <2>2 DEF Counts
        <3>2. Children(r, o) = Children(objs, o) /\ Cardinality(Children(r, o)) \in Nat
            BY <1>1, <1>2
        <3>3. /\ r[o].refs = IF o \in S THEN objs[o].refs + 1 ELSE objs[o].refs
              /\ more[o] = IF o \in S THEN h[o] + 1 ELSE h[o]
              /\ h[o] \in Nat
            OBVIOUS
        <3> HIDE DEF Copied, OneMoreIn
        <3> QED BY <2>1, <2>2, <3>1, <3>2, <3>3
    <2>3. CASE r[o].state # "live"
        BY <1>1, <2>3 DEF Counts
    <2> QED BY <2>2, <2>3
<1>4. Family(r)
    <2>1. \A o \in Object : objs[o].parent # 0 => objs[o].parent \in Object
        BY DEF Records
    <2> QED BY <2>1 DEF Family
<1> QED BY <1>3, <1>4

\* libusb_get_device_list(): a reference for each on the list.
LEMMA CopyListKeeps ==
    ASSUME Core, DevicesAssumption, CopyList
    PROVE  Core'
<1>1. PICK S : S = Range(usbDevs)
    OBVIOUS
<1>2. /\ ctx = "open" /\ app.at = "copy" /\ app.list = <<>> /\ job.by \notin {"poll", "open"}
      /\ UNCHANGED <<world, ctx, usbDevs, ready, messages, cbVars, job, handler, taken, handles, dropped>>
    BY DEF CopyList, AppAt, Core, ContextIsInOrder
<1>3. /\ Counts(objects, Own) /\ Family(objects) /\ Own \in [Object -> Nat] /\ objects \in [Object -> Records]
      /\ \A o \in S : o \in Object /\ objects[o].state = "live"
      /\ references \in [Object -> Nat] /\ usbDevs \in Seq(Object) /\ IsInjective(usbDevs)
    BY <1>1, RefsAre, Types DEF Core, Live, ListIsAttached
<1>4. /\ objects' \in [Object -> Records]
      /\ \A o \in Object : /\ objects'[o].state = objects[o].state /\ objects'[o].dev = objects[o].dev
                           /\ objects'[o].attached = objects[o].attached /\ objects'[o].parent = objects[o].parent
                           /\ objects'[o].refs = IF o \in S THEN objects[o].refs + 1 ELSE objects[o].refs
    <2>1. PICK k : k = [o \in Object |-> IF o \in S THEN objects[o].refs + 1 ELSE objects[o].refs]
        OBVIOUS
    <2>2. objects' = [o \in Object |-> [objects[o] EXCEPT !.refs = k[o]]]
        BY <1>1, <2>1 DEF CopyList
    <2>3. \A o \in Object : k[o] \in Nat /\ k[o] = IF o \in S THEN objects[o].refs + 1 ELSE objects[o].refs
        BY <1>3, <2>1 DEF Records
    <2>4. \A o \in Object : objects'[o] = [objects[o] EXCEPT !.refs = k[o]] /\ objects[o] \in Records
        BY <1>3, <2>2
    <2> QED BY <2>2, <2>3, <2>4 DEF Records
<1>5. \/ /\ references' = [o \in Object |-> IF o \in S THEN references[o] + 1 ELSE references[o]]
         /\ app' = IdleApp
      \/ /\ app' = [app EXCEPT !.at = "enumerate", !.list = usbDevs] /\ references' = references
    BY <1>1 DEF CopyList
<1>6. /\ \A o : ~Opening(o) /\ ~Opening(o)' /\ ~Given(o)
      /\ IsInjective(app'.list)
      /\ app' \in [at : {"idle", "poll", "copy", "enumerate", "open", "exit"}, cb : Nat, list : Seq(Object), o : Nat]
      /\ references' \in [Object -> Nat]
      /\ \A o \in Object : references'[o] + One(Given(o)') = references[o] + (IF o \in S THEN 1 ELSE 0)
      /\ ContextIsInOrder'
    <2>1. CASE /\ references' = [o \in Object |-> IF o \in S THEN references[o] + 1 ELSE references[o]]
               /\ app' = IdleApp
        <3>1. app'.list = <<>> /\ app'.at = "idle" /\ app' = [at |-> "idle", cb |-> 0, list |-> <<>>, o |-> 0]
            BY <2>1 DEF IdleApp
        <3>2. \A o : ~Opening(o) /\ ~Opening(o)' /\ ~Given(o) /\ ~Given(o)'
            BY <1>2, <3>1 DEF Opening, Given, Range
        <3>3. \A o \in Object : references'[o] + One(Given(o)') = references[o] + (IF o \in S THEN 1 ELSE 0)
            BY <1>3, <2>1, <3>2 DEF One
        <3>4. ContextIsInOrder'
            BY <1>2, <3>1 DEF Core, ContextIsInOrder
        <3>5. app' \in [at : {"idle", "poll", "copy", "enumerate", "open", "exit"}, cb : Nat, list : Seq(Object), o : Nat]
            BY <3>1
        <3>6. IsInjective(app'.list) /\ references' \in [Object -> Nat]
            BY <1>3, <2>1, <3>1 DEF IsInjective
        <3> QED BY <3>2, <3>3, <3>4, <3>5, <3>6
    <2>2. CASE app' = [app EXCEPT !.at = "enumerate", !.list = usbDevs] /\ references' = references
        <3>1. /\ app'.list = usbDevs /\ app'.at = "enumerate"
              /\ app' \in [at : {"idle", "poll", "copy", "enumerate", "open", "exit"}, cb : Nat, list : Seq(Object), o : Nat]
            BY <1>3, <2>2 DEF Core, DevicesTypeOK
        <3>2. \A o : ~Opening(o) /\ ~Opening(o)' /\ ~Given(o) /\ (Given(o)' <=> o \in S)
            BY <1>1, <1>2, <3>1 DEF Opening, Given, Range
        <3>3. \A o \in Object : references'[o] + One(Given(o)') = references[o] + (IF o \in S THEN 1 ELSE 0)
            BY <1>3, <2>2, <3>2 DEF One
        <3>4. ContextIsInOrder'
            BY <1>2, <3>1 DEF Core, ContextIsInOrder
        <3> QED BY <1>3, <2>2, <3>1, <3>2, <3>3, <3>4
    <2> QED BY <1>5, <2>1, <2>2
<1>7. DevicesTypeOK'
    BY <1>2, <1>4, <1>6 DEF Core, DevicesTypeOK, world, cbVars, Records
<1>8. LeftOnce' /\ ArrivedIsKept'
    BY <1>2, MessagesKeep
<1>9. \A o \in Object : Own'[o] = IF o \in S THEN Own[o] + 1 ELSE Own[o]
    <2>1. \A o \in Object : InMessages(o)' = InMessages(o) /\ InSteps(o)' = InSteps(o)
        BY <1>2, MessagesSame, StepsSame
    <2>2. \A o \in Object : /\ InLists(o) = One(Listed(o)) /\ InLists(o)' = One(Listed(o)) + One(Given(o)')
                            /\ One(Listed(o)) \in Nat /\ One(Given(o)') \in Nat
        BY <1>2, <1>6 DEF InLists, Listed, Exited, One
    <2>3. \A o \in Object : InUse(o) = references[o] + One(o \in handles) /\ InUse(o)' = references'[o] + One(o \in handles)
        <3>1. \A o \in Object : references[o] \in Nat /\ references'[o] \in Nat
            BY <1>3, <1>6
        <3> QED BY <1>2, <1>6, <3>1 DEF InUse, One
    <2>4. \A o \in Object : /\ InMessages(o) \in Nat /\ InSteps(o) \in Nat /\ One(o \in handles) \in Nat
                            /\ references[o] \in Nat /\ references'[o] \in Nat
                            /\ Own[o] = InLists(o) + InMessages(o) + InSteps(o) + InUse(o)
                            /\ Own'[o] = InLists(o)' + InMessages(o)' + InSteps(o)' + InUse(o)'
        BY <1>3, <1>6, <1>7, HoldersAre, HoldersWillBe DEF Core, One
    <2>5. \A o \in Object : references'[o] + One(Given(o)') = references[o] + (IF o \in S THEN 1 ELSE 0)
        BY <1>6
    <2> HIDE DEF Own
    <2> QED BY <2>1, <2>2, <2>3, <2>4, <2>5
<1>10. Quiet(objects, objects')
    BY <1>4 DEF Quiet
<1>11. RefsAreHolders'
    <2>1. PICK more : more = Own'
        OBVIOUS
    <2>2. more \in [Object -> Nat] /\ \A o \in Object : more[o] = IF o \in S THEN Own[o] + 1 ELSE Own[o]
        BY <1>7, <1>9, <2>1, HoldersWillBe
    <2>3. Counts(objects', more) /\ Family(objects')
        <3> HIDE DEF Own
        <3>1. PICK r : r = objects'
            OBVIOUS
        <3>2. Copied(objects, r, S) /\ OneMoreIn(Own, more, S)
            BY <1>3, <1>4, <2>2, <3>1 DEF Copied, OneMoreIn
        <3>3. Counts(r, more) /\ Family(r)
            BY <1>3, <2>2, <3>2, CopyCounts
        <3> QED BY <3>1, <3>3
    <2>4. \A o \in Range(usbDevs') : Live(o)'
        BY <1>1, <1>2, <1>3, <1>4 DEF Live
    <2> QED BY <1>7, <2>1, <2>3, <2>4, RefsWillBe
<1>12. StepsAreInPlace'
    <2>1. ASSUME NEW o \in Object, InStep(o, Connecting) PROVE Live(o)'
        <3>1. InStep(o, Connecting \cup {"unlist"})
            BY <2>1 DEF InStep
        <3>2. Live(o)
            BY <3>1, HeldIsThere
        <3> QED BY <1>4, <3>2 DEF Live
    <2>2. job'.by = "none" => job.steps = <<>>
        BY <1>2 DEF Core, StepsAreInPlace
    <2> QED BY <1>2, <1>10, <2>1, <2>2, StepsKeep
<1>13. ListIsAttached'
    <2>1. ~Exited /\ ctx \notin {"exit", "gone"}
        BY <1>2 DEF Exited
    <2> QED BY <1>2, <1>6, <1>10, <2>1, ListKeep
<1> QED BY <1>6, <1>7, <1>8, <1>11, <1>12, <1>13 DEF Core

-----------------------------------------------------------------------------
(* The invariant *)

\* What is left after libusb_exit() is only what its holders say.
LEMMA RestIsKept ==
    ASSUME Core, DevicesAssumption
    PROVE  ExitFreesTheRest
<1> SUFFICES ASSUME Exited \/ ctx = "gone" \/ (ctx = "exit" /\ messages = <<>> /\ app.list = <<>>),
                    NEW o \in Object, Live(o), Children(objects, o) = {}
             PROVE  references[o] > 0 \/ o \in dropped
    BY DEF ExitFreesTheRest
<1>1. /\ ctx \in {"exit", "stopped", "gone"} /\ job.steps = <<>> /\ messages = <<>> /\ handler.messages = <<>>
      /\ app.list = <<>> /\ handles = {} /\ app.at # "open" /\ (ctx = "gone" => usbDevs = <<>>)
      /\ (ctx = "stopped" => Exited)
    BY DEF Exited, Core, ContextIsInOrder, DevicesTypeOK, NoJob
<1>2. ~Listed(o) /\ ~Given(o) /\ ~Leaving(o) /\ ~LeavingNow(o) /\ ~Opening(o) /\ \A dos : ~InStep(o, dos)
    BY <1>1 DEF Listed, Given, Leaving, LeavingNow, Opening, InStep, Range, Exited
<1>3. Own[o] > 0
    <2>1. Counts(objects, Own) /\ Own \in [Object -> Nat]
        BY RefsAre
    <2>2. Cardinality(Children(objects, o)) = 0
        BY ChildrenAreFinite
    <2>3. objects[o].refs > 0 /\ objects[o].refs = Own[o] + Cardinality(Children(objects, o))
        BY <2>1 DEF Counts, Live
    <2> HIDE DEF Own
    <2> QED BY <2>1, <2>2, <2>3
<1>4. Own[o] = InLists(o) + InMessages(o) + InSteps(o) + InUse(o)
    BY HoldersAre DEF Core
<1>5. references[o] \in Nat
    BY Types DEF Core
<1>6. InLists(o) = 0 /\ InMessages(o) = One(o \in dropped) /\ InSteps(o) = 0 /\ InUse(o) = references[o]
    BY <1>1, <1>2, <1>5 DEF InLists, InMessages, InSteps, InUse, One
<1> HIDE DEF Own
<1> QED BY <1>3, <1>4, <1>5, <1>6 DEF One

\* Before libusb_init_context() there is nothing.
LEMMA DevicesInitCore ==
    ASSUME DevicesInit, DevicesAssumption
    PROVE  Core
<1> USE DEF DevicesInit
<1>1. DevicesTypeOK
    <2>1. Hub \in Devices /\ Unused.dev = Hub
        BY DEF Devices, Unused
    <2>2. objects \in [Object -> [dev : Devices, state : {"unused", "live", "freed"}, refs : Nat,
                                 attached : BOOLEAN, there : BOOLEAN, parent : {0} \cup Object]]
        BY <2>1 DEF Unused
    <2>3. /\ handler \in [messages : Seq(Changes), todo : SUBSET Nat]
          /\ job \in [by : {"none", "monitor", "handler", "init", "poll", "open"},
                     steps : Seq([do : {"add", "parent", "again", "connect", "arrived", "remove", "unlist",
                                        "left"}, dev : Devices, o : {0} \cup Object])]
          /\ app \in [at : {"idle", "poll", "copy", "enumerate", "open", "exit"}, cb : Nat,
                     list : Seq(Object), o : Nat]
        BY DEF NoJob, IdleHandler, IdleApp
    <2>4. present \subseteq Devices /\ netlink \in Seq({"add", "remove"} \X Devices)
        OBVIOUS
    <2>5. references \in [Object -> Nat]
        OBVIOUS
    <2>6. /\ overrun \in BOOLEAN /\ ready \in BOOLEAN
          /\ ctx \in {"init", "monitored", "scanning", "scanned", "failed", "open", "exit", "stopped",
                      "gone"}
        OBVIOUS
    <2>7. usbDevs \in Seq(Object) /\ messages \in Seq(Changes)
        OBVIOUS
    <2>8. /\ handles \subseteq Object /\ dropped \subseteq Object /\ callbacks \subseteq Nat /\ registered \in Nat
        OBVIOUS
    <2> HIDE DEF DevicesInit
    <2> QED BY <2>2, <2>3, <2>4, <2>5, <2>6, <2>7, <2>8 DEF DevicesTypeOK
<1>2. ContextIsInOrder
    BY DEF ContextIsInOrder, NoJob, IdleHandler, IdleApp
<1>3. StepsAreInPlace
    BY DEF StepsAreInPlace, NoJob
<1>4. \A o : /\ ~Listed(o) /\ ~Given(o) /\ ~Leaving(o) /\ ~LeavingNow(o) /\ ~Opening(o) /\ \A dos : ~InStep(o, dos)
    BY DEF Listed, Given, Leaving, LeavingNow, Opening, InStep, Range, Exited, NoJob, IdleHandler, IdleApp
<1>5. RefsAreHolders
    <2>1. \A o \in Object : Holders(o) = 0
        BY <1>4 DEF Holders, One
    <2>2. \A o \in Object : objects[o].state = "unused"
        BY DEF Unused
    <2>3. \A o : Children(objects, o) = {}
        BY <2>2 DEF Children
    <2>4. Counts(objects, [o \in Object |-> Holders(o)])
        BY <2>1, <2>2, <2>3 DEF Counts
    <2> QED BY <2>2, <2>4 DEF RefsAreHolders, Live, Range
<1>6. ListIsAttached
    <2>1. \A o \in Object : ~Live(o)
        BY DEF Live, Unused
    <2>2. IsInjective(usbDevs) /\ IsInjective(app.list) /\ \A d : OnList(d) = {}
        BY DEF IsInjective, OnList, Range, IdleApp
    <2> QED BY <2>1, <2>2 DEF ListIsAttached
<1>7. LeftOnce
    BY <1>4 DEF LeftOnce, IdleHandler
<1>8. ArrivedIsKept
    BY <1>4 DEF ArrivedIsKept, IdleHandler
<1> QED BY <1>1, <1>2, <1>3, <1>5, <1>6, <1>7, <1>8 DEF Core

\* Every step keeps it.
LEMMA DevicesNextKeeps ==
    ASSUME Core, DevicesAssumption, [DevicesNext]_deviceVars
    PROVE  Core'
<1>1. CASE Locked
    BY <1>1, EnumerateKeeps, GetParentKeeps, ConnectKeeps, ArrivedKeeps, DisconnectKeeps, UnlistKeeps, LeftKeeps,
       CallsKeep, InitialiseKeeps, OpenFailsKeeps, AllocDeviceKeeps DEF Locked
<1>2. CASE Initialise
    BY <1>2, InitialiseKeeps, JobsKeep DEF Initialise
<1>3. CASE HandleEvents
    BY <1>3, TakeMessagesKeeps, CallsKeep, ProcessedKeeps, RunCallbackKeeps DEF HandleEvents
<1>4. CASE InCall
    BY <1>4, CallsKeep, CopyListKeeps, FreeDeviceListKeeps, JobsKeep DEF InCall
<1>5. CASE MonitorReads \/ PollReads
    BY <1>5, JobsKeep
<1>6. CASE \E d \in Devices : Plug(d) \/ Unplug(d)
    BY <1>6, WorldKeeps
<1>7. CASE HotplugExit \/ FreeMessage \/ FreeListed \/ StopMonitor \/ FreeContext
    BY <1>7, ExitKeeps, FreeMessageKeeps, FreeListedKeeps, FreeContextKeeps
<1>8. CASE GetDeviceList \/ (\E enumerate \in BOOLEAN : RegisterCallback(enumerate))
           \/ (\E cb \in 1..MaxCallbacks : DeregisterCallback(cb))
    BY <1>8, CallsKeep
<1>9. CASE \E o \in Object : UnrefDevice(o) \/ Open(o) \/ Close(o) \/ HandleError(o)
    BY <1>9, UnrefDeviceKeeps, OpenKeeps, CloseKeeps, JobsKeep
<1>10. CASE UNCHANGED deviceVars
    <2>1. UNCHANGED <<world, ctx, objects, usbDevs, ready, messages, cbVars, job, handler, appVars, dropped>>
        BY <1>10 DEF deviceVars, world, cbVars, appVars
    <2>2. DevicesTypeOK'
        BY <2>1 DEF Core, DevicesTypeOK, world, cbVars, appVars
    <2>3. ContextIsInOrder'
        BY <2>1 DEF Core, ContextIsInOrder, appVars
    <2>4. LeftOnce' /\ ArrivedIsKept'
        BY <2>1, MessagesKeep
    <2>5. \A o \in Object : InLists(o)' + InMessages(o)' + InSteps(o)' + InUse(o)'
                            = InLists(o) + InMessages(o) + InSteps(o) + InUse(o)
        BY <2>1, ListsSame, MessagesSame, StepsSame, UseSame DEF appVars, Opening
    <2>6. /\ IsInjective(app'.list) /\ (job'.by = "none" => job.steps = <<>>)
          /\ ~Exited' /\ ctx' \notin {"exit", "gone"} => ~Exited /\ ctx \notin {"exit", "gone"}
          /\ objects' = objects /\ usbDevs' = usbDevs /\ job'.steps = job.steps
        BY <2>1 DEF Core, ListIsAttached, StepsAreInPlace, Exited, appVars
    <2> QED BY <2>2, <2>3, <2>4, <2>5, <2>6, SameKeeps
<1> QED BY <1>1, <1>2, <1>3, <1>4, <1>5, <1>6, <1>7, <1>8, <1>9, <1>10 DEF DevicesNext

\* libusb_ref_device(), libusb_unref_device(), usbi_connect_device(), usbi_disconnect_device(),
\* usbi_hotplug_notification(), libusb_exit(): the reference count of every object is the number
\* of those who keep it, so that nothing held is freed and nothing is freed twice; one object of a
\* device is on the list; it leaves once; and libusb_exit() leaves only what the application kept.
THEOREM DevicesHoldsInv == DevicesSpec => []DevicesInv
<1>1. Core /\ [DevicesNext]_deviceVars => Core'
    BY DevicesAssumption, DevicesNextKeeps
<1>2. DevicesInit => Core
    BY DevicesAssumption, DevicesInitCore
<1>3. Core => DevicesInv
    BY DevicesAssumption, RestIsKept DEF Core, DevicesInv
<1> QED BY <1>1, <1>2, <1>3, PTL DEF DevicesSpec

-----------------------------------------------------------------------------
(* Callbacks, and what they are told *)

\* An object of which something can still be told.
InPlay(o) ==
    \/ o \in Range(usbDevs)
    \/ \E i \in DOMAIN job.steps : job.steps[i].o = o
    \/ \E i \in DOMAIN messages : messages[i][2] = o

\* Of an object that a callback was told has left, nothing will be told: the message
\* it is in is the one being told, and it is not this callback's turn any more.
LeftIsGone ==
    \A cb \in 1..MaxCallbacks : \A o \in left[cb] :
        /\ o \in Object /\ ~InPlay(o) /\ objects[o].state # "unused"
        /\ \A i \in DOMAIN handler.messages :
             handler.messages[i][2] = o => i = 1 /\ cb \notin handler.todo

\* A reference given up leaves an object as it was, or free.
LEMMA UnrefStates ==
    ASSUME NEW objs \in [Object -> Records], NEW x, NEW o \in Object
    PROVE  /\ Unref(objs, x)[o].state \in {objs[o].state, "freed"}
           /\ Ref(objs, x)[o].state = objs[o].state
<1> DEFINE Parent == IF objs[x].refs > 1 THEN 0 ELSE objs[x].parent
<1>1. ASSUME NEW b \in [Object -> [dev : Devices, state : STRING, refs : Int, attached : BOOLEAN,
                                    there : BOOLEAN, parent : {0} \cup Object]], NEW y
      PROVE  Drop(b, y)[o].state \in {b[o].state, "freed"}
    BY <1>1 DEF Drop
<1>2. \A y : /\ DOMAIN Drop(objs, y) = Object
             /\ Drop(objs, y)[o].state \in {objs[o].state, "freed"}
    BY DEF Drop, Records
<1>3. \A y : Drop(Drop(objs, x), y)[o].state \in {Drop(objs, x)[o].state, "freed"}
    BY <1>2 DEF Drop, Records
<1>4. Unref(objs, x) = Drop(objs, x) \/ Unref(objs, x) = Drop(Drop(objs, x), Parent)
    BY DEF Unref
<1>5. Unref(objs, x)[o].state \in {objs[o].state, "freed"}
    BY <1>2, <1>3, <1>4
<1>6. Ref(objs, x)[o].state = objs[o].state
    BY DEF Ref, Records
<1> QED BY <1>5, <1>6

\* The steps that follow are about the object given or those that were there.
LEMMA StepsGoOn ==
    ASSUME Core, job.steps # <<>>, NEW x, NEW new, Continue(new),
           \/ new = <<>>
           \/ \E s \in Steps : s.o = x /\ new = <<s>>
           \/ \E s, a \in Steps : s.o = 0 /\ a.o = x /\ new = <<s, a>>
    PROVE  \A i \in DOMAIN job'.steps : \/ job'.steps[i].o \in {0, x}
                                        \/ \E j \in DOMAIN job.steps : job'.steps[i].o = job.steps[j].o
<1>1. job.steps \in Seq(Steps)
    BY StepsAre
<1>2. PICK t : t = Tail(job.steps)
    OBVIOUS
<1>3. t \in Seq(Steps) /\ \A i \in DOMAIN t : \E j \in DOMAIN job.steps : t[i] = job.steps[j]
    BY <1>1, <1>2, QueueFirst
<1>4. job'.steps = new \o t
    BY <1>2, JobIs DEF Continue
<1>5. CASE new = <<>>
    <2>1. new \o t = t
        BY <1>3, <1>5
    <2> QED BY <1>3, <1>4, <2>1
<1>6. ASSUME NEW s \in Steps, s.o = x, new = <<s>>
      PROVE  \A i \in DOMAIN (new \o t) : (new \o t)[i] = s \/ \E j \in DOMAIN t : (new \o t)[i] = t[j]
    <2>1. /\ DOMAIN (<<s>> \o t) = 1..(Len(t) + 1) /\ (<<s>> \o t)[1] = s
          /\ \A i \in DOMAIN t : i \in Nat /\ (<<s>> \o t)[i + 1] = t[i]
          /\ Len(t) \in Nat /\ DOMAIN t = 1..Len(t)
        BY <1>3, InFront
    <2>2. ASSUME NEW i \in 1..(Len(t) + 1), i # 1 PROVE i - 1 \in 1..Len(t) /\ i = (i - 1) + 1
        BY <2>1, <2>2
    <2> QED BY <1>6, <2>1, <2>2
<1>7. ASSUME NEW s \in Steps, NEW a \in Steps, s.o = 0, a.o = x, new = <<s, a>>
      PROVE  \A i \in DOMAIN (new \o t) :
                 (new \o t)[i] = s \/ (new \o t)[i] = a \/ \E j \in DOMAIN t : (new \o t)[i] = t[j]
    <2>1. /\ DOMAIN (<<s, a>> \o t) = 1..(Len(t) + 2) /\ (<<s, a>> \o t)[1] = s /\ (<<s, a>> \o t)[2] = a
          /\ \A i \in DOMAIN t : i \in Nat /\ (<<s, a>> \o t)[i + 2] = t[i]
          /\ Len(t) \in Nat /\ DOMAIN t = 1..Len(t)
        BY <1>3, InFront
    <2>2. ASSUME NEW i \in 1..(Len(t) + 2), i # 1, i # 2 PROVE i - 2 \in 1..Len(t) /\ i = (i - 2) + 2
        BY <2>1, <2>2
    <2> QED BY <1>7, <2>1, <2>2
<1> QED BY <1>3, <1>4, <1>5, <1>6, <1>7

\* Under the lock, what comes into play was made by this step or was in play.
LEMMA LockedPlays ==
    ASSUME Core, DevicesAssumption, NEW o \in Object, InPlay(o)',
           \/ Enumerate \/ GetParent \/ Connect \/ Arrived \/ Disconnect \/ Unlist \/ Left
           \/ \E x \in Object : AllocDevice(x)
    PROVE  InPlay(o) \/ objects[o].state = "unused"
<1>1. /\ job.steps # <<>> /\ Now \in Steps /\ o # 0
      /\ \E j \in DOMAIN job.steps : job.steps[j].o = Now.o
    <2>1. job.steps # <<>>
        BY DEF Enumerate, GetParent, Connect, Arrived, Disconnect, Unlist, Left, AllocDevice, Does
    <2> QED BY <2>1, StepsAre DEF Object
<1>2. PICK n : n = Now
    OBVIOUS
<1>3. n \in Steps /\ (n.o = o => InPlay(o)) /\ n.dev \in Devices
    BY <1>1, <1>2 DEF InPlay, Steps
<1>4. ASSUME NEW x, x = o => InPlay(o) \/ objects[o].state = "unused", NEW new, Continue(new),
             \/ new = <<>>
             \/ \E s \in Steps : s.o = x /\ new = <<s>>
             \/ \E s, a \in Steps : s.o = 0 /\ a.o = x /\ new = <<s, a>>,
             o \in Range(usbDevs') => o \in Range(usbDevs) \/ n.o = o,
             \A i \in DOMAIN messages' : messages'[i][2] = n.o \/ \E j \in DOMAIN messages : messages'[i] = messages[j]
      PROVE  InPlay(o) \/ objects[o].state = "unused"
    <2>1. \A i \in DOMAIN job'.steps : \/ job'.steps[i].o \in {0, x}
                                       \/ \E j \in DOMAIN job.steps : job'.steps[i].o = job.steps[j].o
        BY <1>1, <1>4, StepsGoOn
    <2>2. CASE \E i \in DOMAIN job'.steps : job'.steps[i].o = o
        BY <1>1, <1>4, <2>1, <2>2 DEF InPlay
    <2>3. CASE o \in Range(usbDevs')
        BY <1>3, <1>4, <2>3 DEF InPlay
    <2>4. CASE \E i \in DOMAIN messages' : messages'[i][2] = o
        BY <1>3, <1>4, <2>4 DEF InPlay
    <2> QED BY <2>2, <2>3, <2>4 DEF InPlay
<1>5. ASSUME NEW do \in Dos, NEW d \in Devices, NEW x \in {0} \cup Object
      PROVE  Step(do, d, x) \in Steps /\ Step(do, d, x).o = x
    BY <1>5 DEF Step, Steps
<1>6. /\ \A i \in DOMAIN messages : \E j \in DOMAIN messages : messages[i] = messages[j]
      /\ {"add", "again", "connect", "parent", "arrived", "unlist", "left"} \subseteq Dos /\ Hub \in Devices
      /\ n.o \in {0} \cup Object /\ 0 \in {0} \cup Object
    BY <1>3 DEF Dos, Devices, Steps
<1>7. ASSUME NEW what \in {"arrived", "left"}, Notify(what, n.o), n.o \in Object
      PROVE  \A i \in DOMAIN messages' : messages'[i][2] = n.o \/ \E j \in DOMAIN messages : messages'[i] = messages[j]
    <2>1. messages \in Seq(Changes) /\ <<what, n.o>> \in Changes
        BY <1>7, Types DEF Core, Changes
    <2>2. CASE messages' = Append(messages, <<what, n.o>>)
        <3>1. PICK m : m = <<what, n.o>>
            OBVIOUS
        <3>2. /\ DOMAIN messages = 1..Len(messages) /\ Len(messages) \in Nat /\ m[2] = n.o
              /\ DOMAIN messages' = 1..(Len(messages) + 1)
              /\ \A i \in DOMAIN messages : messages'[i] = messages[i]
              /\ messages'[Len(messages) + 1] = m
            BY <2>1, <2>2, <3>1, QueueAdded
        <3>3. \A i \in 1..(Len(messages) + 1) : i \in 1..Len(messages) \/ i = Len(messages) + 1
            BY <3>2
        <3> QED BY <3>2, <3>3
    <2>3. CASE messages' = messages
        BY <1>6, <2>3
    <2> QED BY <1>7, <2>2, <2>3 DEF Notify
<1>8. CASE Enumerate
    <2>1. Continue(<<>>) /\ usbDevs' = usbDevs /\ messages' = messages
        BY <1>8 DEF Enumerate
    <2> QED BY <1>3, <1>4, <1>6, <2>1
<1>9. ASSUME NEW x \in Object, AllocDevice(x)
      PROVE  InPlay(o) \/ objects[o].state = "unused"
    <2>1. PICK s \in Steps : s.o = x /\ Continue(<<s>>)
        <3>1. CASE Continue(<<Step("connect", n.dev, x)>>)
            BY <1>3, <1>5, <1>6, <3>1
        <3>2. CASE Continue(<<Step("parent", n.dev, x)>>)
            BY <1>3, <1>5, <1>6, <3>2
        <3> QED BY <1>2, <1>9, <3>1, <3>2 DEF AllocDevice
    <2>2. objects[x].state = "unused" /\ usbDevs' = usbDevs /\ messages' = messages
        BY <1>9 DEF AllocDevice
    <2> QED BY <1>4, <1>6, <2>1, <2>2
<1>10. CASE GetParent
    <2>1. usbDevs' = usbDevs /\ messages' = messages
        BY <1>10 DEF GetParent
    <2>2. \/ Continue(<<Step("connect", n.dev, n.o)>>)
          \/ Continue(<<Step("add", Hub, 0), Step("again", n.dev, n.o)>>)
        BY <1>2, <1>10 DEF GetParent
    <2>3. /\ Step("connect", n.dev, n.o) \in Steps /\ Step("connect", n.dev, n.o).o = n.o
          /\ Step("add", Hub, 0) \in Steps /\ Step("add", Hub, 0).o = 0
          /\ Step("again", n.dev, n.o) \in Steps /\ Step("again", n.dev, n.o).o = n.o
        BY <1>3, <1>5, <1>6
    <2> HIDE DEF Step
    <2>4. CASE Continue(<<Step("connect", n.dev, n.o)>>)
        BY <1>3, <1>4, <1>6, <2>1, <2>3, <2>4
    <2>5. CASE Continue(<<Step("add", Hub, 0), Step("again", n.dev, n.o)>>)
        BY <1>3, <1>4, <1>6, <2>1, <2>3, <2>5
    <2> QED BY <2>2, <2>4, <2>5
<1>11. CASE Connect
    <2>1. /\ Continue(<<Step("arrived", n.dev, n.o)>>) /\ messages' = messages
          /\ usbDevs' = <<n.o>> \o usbDevs /\ n.do = "connect"
        BY <1>2, <1>11 DEF Connect, Does
    <2>2. n.o \in Object
        BY <1>1, <1>2, <1>6, <2>1, StepsAre DEF StepIsTrue
    <2>3. o \in Range(usbDevs') => o \in Range(usbDevs) \/ n.o = o
        <3>1. usbDevs \in Seq(Object) /\ IsInjective(usbDevs)
            BY Types DEF Core, ListIsAttached
        <3> QED BY <2>1, <2>2, <3>1, ListIs
    <2>4. Step("arrived", n.dev, n.o) \in Steps /\ Step("arrived", n.dev, n.o).o = n.o
        BY <1>3, <1>5, <1>6
    <2> HIDE DEF Step
    <2> QED BY <1>3, <1>4, <1>6, <2>1, <2>3, <2>4
<1>12. CASE Arrived
    <2>1. Continue(<<>>) /\ usbDevs' = usbDevs /\ Notify("arrived", n.o) /\ n.do = "arrived"
        BY <1>2, <1>12 DEF Arrived, Does
    <2>2. n.o \in Object
        BY <1>1, <1>2, <1>6, <2>1, StepsAre DEF StepIsTrue
    <2> QED BY <1>3, <1>4, <1>7, <2>1, <2>2
<1>13. CASE Left
    <2>1. Continue(<<>>) /\ usbDevs' = usbDevs /\ Notify("left", n.o) /\ n.do = "left"
        BY <1>2, <1>13 DEF Left, Does
    <2>2. n.o \in Object
        BY <1>1, <1>2, <1>6, <2>1, StepsAre DEF StepIsTrue
    <2> QED BY <1>3, <1>4, <1>7, <2>1, <2>2
<1>14. CASE Unlist
    <2>1. /\ Continue(<<Step("left", n.dev, n.o)>>) /\ messages' = messages
          /\ usbDevs' = Removed(usbDevs, n.o)
        BY <1>2, <1>14 DEF Unlist
    <2>2. o \in Range(usbDevs') => o \in Range(usbDevs)
        <3>1. usbDevs \in Seq(Object) /\ IsInjective(usbDevs)
            BY Types DEF Core, ListIsAttached
        <3> QED BY <2>1, <3>1, RemovedIs
    <2>3. Step("left", n.dev, n.o) \in Steps /\ Step("left", n.dev, n.o).o = n.o
        BY <1>3, <1>5, <1>6
    <2> HIDE DEF Step
    <2> QED BY <1>3, <1>4, <1>6, <2>1, <2>2, <2>3
<1>15. CASE Disconnect
    <2>1. usbDevs' = usbDevs /\ messages' = messages
        BY <1>15 DEF Disconnect
    <2>2. CASE ~Known(n.dev)
        <3>1. Continue(<<>>)
            BY <1>2, <1>15, <2>2 DEF Disconnect
        <3> QED BY <1>3, <1>4, <1>6, <2>1, <3>1
    <2>3. CASE Known(n.dev)
        <3>1. PICK x \in OnList(n.dev) : Continue(<<Step("unlist", n.dev, x)>>)
            BY <1>2, <1>15, <2>3 DEF Disconnect, Known
        <3>2. x \in Range(usbDevs) /\ x \in Object
            BY RefsAre DEF OnList
        <3>3. Step("unlist", n.dev, x) \in Steps /\ Step("unlist", n.dev, x).o = x
            BY <1>3, <1>5, <1>6, <3>2
        <3> HIDE DEF Step
        <3>4. x = o => InPlay(o)
            BY <3>2 DEF InPlay
        <3> QED BY <1>4, <1>6, <2>1, <3>1, <3>3, <3>4
    <2> QED BY <2>2, <2>3
<1> QED BY <1>8, <1>9, <1>10, <1>11, <1>12, <1>13, <1>14, <1>15

\* Elsewhere nothing comes into play.
LEMMA OthersPlay ==
    ASSUME Core, DevicesAssumption, DevicesNext, NEW o \in Object, InPlay(o)'
    PROVE  InPlay(o) \/ objects[o].state = "unused"
<1> DEFINE SameLists == usbDevs' = usbDevs /\ messages' = messages
<1>1. o # 0
    BY DEF Object
<1>2. ASSUME \/ JobEnds \/ Scanned \/ PollEnds \/ OpenFails \/ Initialise \/ MonitorReads \/ PollReads
             \/ PollBegins \/ OpenFinds \/ \E x \in Object : HandleError(x)
      PROVE  InPlay(o)
    <2>1. SameLists
        BY <1>2 DEF JobEnds, Scanned, PollEnds, OpenFails, Initialise, MonitorReads, PollReads, PollBegins,
                    OpenFinds, HandleError, StartMonitor, ScanDevices, ScanFails, HotplugInit
    <2>2. \/ job' = job
          \/ \A i \in DOMAIN job'.steps : job'.steps[i].o = 0
        <3>1. CASE JobEnds \/ Scanned \/ PollEnds \/ OpenFails
            BY <3>1 DEF JobEnds, Scanned, PollEnds, OpenFails, NoJob
        <3>2. CASE PollBegins
            BY <3>2 DEF PollBegins
        <3>3. CASE StartMonitor \/ ScanFails \/ HotplugInit
            BY <3>3 DEF StartMonitor, ScanFails, HotplugInit
        <3>4. CASE MonitorReads
            BY <3>4 DEF MonitorReads, Step
        <3>5. CASE PollReads
            <4>1. job.by = "poll" /\ job' = [job EXCEPT !.steps = <<Step(netlink[1][1], netlink[1][2], 0)>>]
                BY <3>5 DEF PollReads
            <4>2. job'.steps = <<Step(netlink[1][1], netlink[1][2], 0)>>
                BY <4>1 DEF Core, DevicesTypeOK
            <4> QED BY <4>2 DEF Step
        <3>6. CASE OpenFinds
            BY <3>6 DEF OpenFinds, Step
        <3>7. CASE \E x \in Object : HandleError(x)
            BY <3>7 DEF HandleError, Step
        <3>8. CASE ScanDevices
            <4>1. PICK order \in SetToSeqs(present) :
                      job' = [by |-> "init", steps |-> [i \in DOMAIN order |-> Step("add", order[i], 0)]]
                BY <3>8 DEF ScanDevices
            <4> QED BY <4>1 DEF Step
        <3> QED BY <1>2, <3>1, <3>2, <3>3, <3>4, <3>5, <3>6, <3>7, <3>8 DEF Initialise
    <2> QED BY <1>1, <2>1, <2>2 DEF InPlay
<1>3. ASSUME UNCHANGED <<usbDevs, job>>, messages' = messages \/ messages' = <<>>
      PROVE  InPlay(o)
    BY <1>3 DEF InPlay
<1>4. CASE HandleEvents
    <2>1. UNCHANGED <<usbDevs, job>> /\ (messages' = messages \/ messages' = <<>>)
        BY <1>4 DEF HandleEvents, TakeMessages, SkipCallback, MessageDone, FreeDeregistered, RunCallback
    <2> QED BY <1>3, <2>1
<1>5. CASE \/ CopyList \/ FreeDeviceList \/ HotplugExit \/ StopMonitor \/ GetDeviceList
           \/ (\E d \in Devices : Plug(d) \/ Unplug(d))
           \/ (\E enumerate \in BOOLEAN : RegisterCallback(enumerate))
           \/ (\E cb \in 1..MaxCallbacks : DeregisterCallback(cb))
           \/ (\E x \in Object : UnrefDevice(x) \/ Open(x) \/ Close(x))
    <2>1. UNCHANGED <<usbDevs, job, messages>>
        BY <1>5 DEF CopyList, FreeDeviceList, HotplugExit, StopMonitor, GetDeviceList, Plug, Unplug,
                    RegisterCallback, DeregisterCallback, UnrefDevice, Open, Close
    <2> QED BY <1>3, <2>1
<1>6. CASE FreeMessage
    <2>1. messages \in Seq(Changes) /\ messages # <<>> /\ messages' = Tail(messages) /\ UNCHANGED <<usbDevs, job>>
        BY <1>6, Types DEF FreeMessage, Core
    <2>2. \A i \in DOMAIN messages' : \E j \in DOMAIN messages : messages'[i] = messages[j]
        BY <2>1, QueueFirst
    <2> QED BY <2>1, <2>2 DEF InPlay
<1>7. CASE FreeListed
    <2>1. UNCHANGED <<messages, job>>
        BY <1>7 DEF FreeListed
    <2>2. o \in Range(usbDevs') => o \in Range(usbDevs)
        <3>1. usbDevs \in Seq(Object) /\ IsInjective(usbDevs)
            BY Types DEF Core, ListIsAttached
        <3>2. \A x : /\ Removed(usbDevs, x) \in Seq(Object) /\ IsInjective(Removed(usbDevs, x))
                     /\ \A q : q \in Range(Removed(usbDevs, x)) => q \in Range(usbDevs)
            BY <3>1, RemovedIs
        <3>3. \A x, y : \A q : q \in Range(Removed(Removed(usbDevs, x), y)) => q \in Range(usbDevs)
            BY <3>2, RemovedIs
        <3>4. PICK x, y : usbDevs' \in {usbDevs, Removed(usbDevs, x), Removed(usbDevs, y), Removed(Removed(usbDevs, x), y)}
            BY <1>7 DEF FreeListed
        <3> QED BY <3>2, <3>3, <3>4
    <2> QED BY <2>1, <2>2 DEF InPlay
<1>8. CASE FreeContext
    <2>1. UNCHANGED <<messages, job>> /\ usbDevs' = <<>>
        BY <1>8 DEF FreeContext
    <2>2. o \notin Range(usbDevs')
        BY <2>1 DEF Range
    <2> QED BY <2>1, <2>2 DEF InPlay
<1>9. CASE \/ Enumerate \/ GetParent \/ Connect \/ Arrived \/ Disconnect \/ Unlist \/ Left
           \/ \E x \in Object : AllocDevice(x)
    BY <1>9, LockedPlays
<1> QED BY <1>2, <1>4, <1>5, <1>6, <1>7, <1>8, <1>9 DEF DevicesNext, Locked, InCall

\* An object is made once.
LEMMA NotUnusedAgain ==
    ASSUME Core, DevicesAssumption, DevicesNext, NEW o \in Object, objects[o].state # "unused"
    PROVE  objects'[o].state # "unused"
<1>1. objects \in [Object -> Records] /\ "freed" # "unused" /\ "live" # "unused"
    BY Types DEF Core
<1>2. ASSUME NEW x, objects' = Unref(objects, x) \/ objects' = Ref(objects, x)
      PROVE  objects'[o].state # "unused"
    BY <1>1, <1>2, UnrefStates
<1>3. ASSUME objects' = objects PROVE objects'[o].state # "unused"
    BY <1>3
<1>4. CASE Locked
    <2>1. CASE Enumerate \/ Arrived \/ Unlist \/ JobEnds \/ Scanned \/ PollEnds
        BY <1>3, <2>1 DEF Enumerate, Arrived, Unlist, JobEnds, Scanned, PollEnds
    <2>2. CASE Left \/ OpenFails
        BY <1>2, <2>2 DEF Left, OpenFails
    <2>3. CASE Connect
        BY <1>1, <2>3 DEF Connect, Records
    <2>4. CASE GetParent
        <3>1. PICK p, n : objects' \in {objects, [Ref(objects, p) EXCEPT ![n].parent = p]}
            BY <2>4 DEF GetParent
        <3> QED BY <1>1, <3>1 DEF Ref, Records
    <2>5. CASE Disconnect
        <3>1. PICK x : objects' \in {objects, [Ref(objects, x) EXCEPT ![x].attached = FALSE]}
            BY <2>5 DEF Disconnect
        <3> QED BY <1>1, <3>1 DEF Ref, Records
    <2>6. CASE \E x \in Object : AllocDevice(x)
        <3>1. PICK x \in Object : AllocDevice(x)
            BY <2>6
        <3> QED BY <1>1, <3>1 DEF AllocDevice, Records, Unused
    <2> QED BY <1>4, <2>1, <2>2, <2>3, <2>4, <2>5, <2>6 DEF Locked
<1>5. CASE HandleEvents
    BY <1>2, <1>3, <1>5 DEF HandleEvents, TakeMessages, SkipCallback, MessageDone, FreeDeregistered, RunCallback
<1>6. CASE CopyList \/ (\E d \in Devices : Unplug(d))
    <2>1. CASE CopyList
        <3>1. DOMAIN objects' = Object /\ objects'[o].state = objects[o].state
            BY <1>1, <2>1 DEF CopyList, Records
        <3> QED BY <3>1
    <2>2. ASSUME NEW d \in Devices, Unplug(d) PROVE objects'[o].state # "unused"
        <3>1. objects'[o].state = objects[o].state
            BY <1>1, <2>2 DEF Unplug, Records
        <3> QED BY <3>1
    <2> QED BY <1>6, <2>1, <2>2
<1>7. CASE \/ FreeDeviceList \/ FreeMessage \/ FreeListed
           \/ (\E x \in Object : UnrefDevice(x) \/ Open(x) \/ Close(x))
    BY <1>2, <1>3, <1>7 DEF FreeDeviceList, FreeMessage, FreeListed, UnrefDevice, Open, Close
<1>8. CASE \/ Initialise \/ MonitorReads \/ PollReads \/ PollBegins \/ OpenFinds
           \/ HotplugExit \/ StopMonitor \/ FreeContext \/ GetDeviceList
           \/ (\E d \in Devices : Plug(d)) \/ (\E x \in Object : HandleError(x))
           \/ (\E enumerate \in BOOLEAN : RegisterCallback(enumerate))
           \/ (\E cb \in 1..MaxCallbacks : DeregisterCallback(cb))
    BY <1>3, <1>8 DEF Initialise, StartMonitor, ScanDevices, ScanFails, HotplugInit, MonitorReads, PollReads,
                      PollBegins, OpenFinds, HotplugExit, StopMonitor, FreeContext, GetDeviceList, Plug,
                      HandleError, RegisterCallback, DeregisterCallback
<1> QED BY <1>4, <1>5, <1>6, <1>7, <1>8 DEF DevicesNext, InCall

\* Who is told, and of what, changes only where the event handler is at work.
LEMMA HandlerIsAlone ==
    ASSUME DevicesNext
    PROVE  \/ \E finished, takes \in BOOLEAN : RunCallback(finished, takes)
           \/ left' = left /\ (handler' = handler \/ TakeMessages \/ SkipCallback \/ MessageDone)
<1>1. CASE Locked
    BY <1>1 DEF Locked, Enumerate, GetParent, Connect, Arrived, Disconnect, Unlist, Left, JobEnds, Scanned,
                PollEnds, OpenFails, AllocDevice, cbVars
<1>2. CASE Initialise
    BY <1>2 DEF Initialise, StartMonitor, ScanDevices, ScanFails, HotplugInit, cbVars
<1>3. CASE HandleEvents
    BY <1>3 DEF HandleEvents, TakeMessages, SkipCallback, MessageDone, FreeDeregistered, cbVars
<1>4. CASE InCall \/ MonitorReads \/ PollReads
    BY <1>4 DEF InCall, PollBegins, CopyList, FreeDeviceList, OpenFinds, MonitorReads, PollReads, cbVars
<1>5. CASE \E d \in Devices : Plug(d) \/ Unplug(d)
    BY <1>5 DEF Plug, Unplug, cbVars
<1>6. CASE HotplugExit \/ FreeMessage \/ FreeListed \/ StopMonitor \/ FreeContext \/ GetDeviceList
    BY <1>6 DEF HotplugExit, FreeMessage, FreeListed, StopMonitor, FreeContext, GetDeviceList, cbVars
<1>7. CASE \/ \E enumerate \in BOOLEAN : RegisterCallback(enumerate)
           \/ \E cb \in 1..MaxCallbacks : DeregisterCallback(cb)
    BY <1>7 DEF RegisterCallback, DeregisterCallback, cbVars
<1>8. CASE \E o \in Object : UnrefDevice(o) \/ Open(o) \/ Close(o) \/ HandleError(o)
    BY <1>8 DEF UnrefDevice, Open, Close, HandleError, cbVars
<1> QED BY <1>1, <1>2, <1>3, <1>4, <1>5, <1>6, <1>7, <1>8 DEF DevicesNext

\* usbi_hotplug_process(): once a callback was told, no step makes it be told again.
LEMMA LeftStaysGone ==
    ASSUME Core, DevicesAssumption, LeftIsGone, DevicesNext
    PROVE  LeftIsGone'
<1>1. ASSUME NEW o \in Object, ~InPlay(o), objects[o].state # "unused"
      PROVE  ~InPlay(o)' /\ objects'[o].state # "unused"
    BY <1>1, OthersPlay, NotUnusedAgain
<1>2. handler.messages \in Seq(Changes)
    BY Types DEF Core
<1>3. CASE left' = left /\ (handler' = handler \/ TakeMessages \/ SkipCallback \/ MessageDone)
    <2>1. ASSUME NEW cb \in 1..MaxCallbacks, NEW o \in left[cb]
          PROVE  /\ o \in Object /\ ~InPlay(o) /\ objects[o].state # "unused"
                 /\ \A i \in DOMAIN handler.messages :
                      handler.messages[i][2] = o => i = 1 /\ cb \notin handler.todo
        BY <2>1 DEF LeftIsGone
    <2>2. ASSUME NEW cb \in 1..MaxCallbacks, NEW o \in left[cb], NEW i \in DOMAIN handler'.messages,
                 handler'.messages[i][2] = o
          PROVE  i = 1 /\ cb \notin handler'.todo
        <3>1. CASE handler' = handler
            BY <2>1, <2>2, <3>1
        <3>2. CASE TakeMessages
            <4>1. handler'.messages = messages
                BY <3>2 DEF TakeMessages
            <4> QED BY <2>1, <2>2, <4>1 DEF InPlay
        <3>3. CASE SkipCallback
            <4>1. handler'.messages = handler.messages /\ handler'.todo \subseteq handler.todo
                BY <3>3 DEF SkipCallback, Core, DevicesTypeOK
            <4> QED BY <2>1, <2>2, <4>1
        <3>4. CASE MessageDone
            <4>1. handler.messages # <<>> /\ handler'.messages = Tail(handler.messages)
                BY <3>4 DEF MessageDone, IdleHandler
            <4>2. i + 1 \in DOMAIN handler.messages /\ handler'.messages[i] = handler.messages[i + 1] /\ 1 < i + 1
                BY <1>2, <2>2, <4>1, QueueFirst
            <4> QED BY <2>1, <2>2, <4>2
        <3> QED BY <1>3, <3>1, <3>2, <3>3, <3>4
    <2>3. \A cb \in 1..MaxCallbacks : \A o \in left'[cb] :
              /\ o \in Object /\ ~InPlay(o)' /\ objects'[o].state # "unused"
              /\ \A i \in DOMAIN handler'.messages :
                   handler'.messages[i][2] = o => i = 1 /\ cb \notin handler'.todo
        BY <1>1, <1>3, <2>1, <2>2
    <2> QED BY <2>3 DEF LeftIsGone
<1>4. ASSUME NEW finished \in BOOLEAN, NEW takes \in BOOLEAN, RunCallback(finished, takes)
      PROVE  LeftIsGone'
    <2>1. PICK n : n = Newest
        OBVIOUS
    <2>2. PICK m : m = Message
        OBVIOUS
    <2>3. /\ handler.todo # {} /\ handler'.messages = handler.messages /\ handler'.todo = handler.todo \ {n}
          /\ left' = IF m[1] = "left" THEN [left EXCEPT ![n] = @ \cup {m[2]}] ELSE left
        BY <1>4, <2>1, <2>2 DEF RunCallback, Core, DevicesTypeOK
    <2>4. /\ handler.messages # <<>> /\ m = handler.messages[1] /\ 1 \in DOMAIN handler.messages
          /\ m \in Changes
        <3>1. handler.messages # <<>>
            BY <2>3 DEF Core, ContextIsInOrder
        <3> QED BY <1>2, <2>2, <3>1, QueueFirst DEF Message
    <2>5. ASSUME NEW cb \in 1..MaxCallbacks, NEW o \in left'[cb]
          PROVE  o \in left[cb] \/ (cb = n /\ m[1] = "left" /\ o = m[2])
        <3>1. CASE m[1] = "left"
            <4>1. left' = [left EXCEPT ![n] = @ \cup {m[2]}]
                BY <2>3, <3>1
            <4>2. left'[cb] = left[cb] \/ (cb = n /\ left'[cb] = left[cb] \cup {m[2]})
                BY <4>1 DEF LeftIsGone
            <4> QED BY <2>5, <3>1, <4>2
        <3>2. CASE m[1] # "left"
            BY <2>3, <2>5, <3>2
        <3> QED BY <3>1, <3>2
    <2>6. ASSUME m[1] = "left"
          PROVE  /\ m[2] \in Object /\ ~InPlay(m[2]) /\ objects[m[2]].state # "unused"
                 /\ \A i \in DOMAIN handler.messages : handler.messages[i][2] = m[2] => i = 1
        <3>1. PICK x : x = m[2]
            OBVIOUS
        <3>2. x \in Object /\ LeavingNow(x) /\ handler.messages[1] = <<"left", x>>
            BY <2>4, <2>6, <3>1 DEF Changes, LeavingNow
        <3>3. Live(x) /\ x \notin Range(usbDevs) /\ \A i \in DOMAIN job.steps : job.steps[i].o # x
            BY <3>2, HeldIsThere DEF Core, LeftOnce
        <3>4. \A j \in DOMAIN messages : messages[j][2] # x
            <4>1. LeftOnce
                BY DEF Core
            <4>2. handler.messages[1][1] = "left" /\ handler.messages[1][2] = x
                BY <3>2
            <4>3. 1 \in DOMAIN handler.messages
                BY <2>4
            <4>4. \A j \in DOMAIN messages : handler.messages[1][2] # messages[j][2]
                BY <4>1, <4>2, <4>3 DEF LeftOnce
            <4> QED BY <4>2, <4>4
        <3>5. ASSUME NEW i \in DOMAIN handler.messages, i # 1 PROVE handler.messages[i][2] # x
            <4>1. 1 < i
                BY <1>2, <3>5
            <4>2. LeftOnce
                BY DEF Core
            <4>3. handler.messages[1][1] = "left" /\ handler.messages[1][2] = x
                BY <3>2
            <4>4. handler.messages[1][2] # handler.messages[i][2]
                BY <2>4, <3>5, <4>1, <4>2, <4>3 DEF LeftOnce
            <4> QED BY <4>3, <4>4
        <3> QED BY <3>1, <3>2, <3>3, <3>4, <3>5 DEF InPlay, Live
    <2>7. ASSUME NEW cb \in 1..MaxCallbacks, NEW o \in left'[cb]
          PROVE  /\ o \in Object /\ ~InPlay(o) /\ objects[o].state # "unused"
                 /\ \A i \in DOMAIN handler.messages :
                      handler.messages[i][2] = o => i = 1 /\ cb \notin handler'.todo
        <3>1. CASE o \in left[cb]
            BY <2>3, <3>1 DEF LeftIsGone
        <3>2. CASE cb = n /\ m[1] = "left" /\ o = m[2]
            BY <2>3, <2>6, <3>2
        <3> QED BY <2>5, <2>7, <3>1, <3>2
    <2>8. \A cb \in 1..MaxCallbacks : \A o \in left'[cb] :
              /\ o \in Object /\ ~InPlay(o)' /\ objects'[o].state # "unused"
              /\ \A i \in DOMAIN handler'.messages :
                   handler'.messages[i][2] = o => i = 1 /\ cb \notin handler'.todo
        BY <1>1, <2>3, <2>7
    <2> QED BY <2>8 DEF LeftIsGone
<1> QED BY <1>3, <1>4, HandlerIsAlone

\* usbi_hotplug_process(): a callback that was told a device has left is not told
\* again of the same object, whatever arrives, leaves or is deregistered meanwhile.
THEOREM DevicesAnnounceInOrder == DevicesSpec => AnnouncedInOrder
<1> DEFINE Step1 == \A cb \in 1..MaxCallbacks :
                        cb \in handler.todo /\ handler'.todo = handler.todo \ {cb}
                          /\ cb \notin needsFree => Message[2] \notin left[cb]
<1>1. DevicesInit => LeftIsGone
    BY DEF DevicesInit, LeftIsGone
<1>2. Core /\ LeftIsGone /\ [DevicesNext]_deviceVars => LeftIsGone'
    <2>1. ASSUME Core, LeftIsGone, UNCHANGED deviceVars PROVE LeftIsGone'
        BY <2>1 DEF deviceVars, LeftIsGone, InPlay
    <2> QED BY <2>1, DevicesAssumption, LeftStaysGone
<1>3. Core /\ LeftIsGone => Step1
    <2> SUFFICES ASSUME Core, LeftIsGone, NEW cb \in 1..MaxCallbacks, cb \in handler.todo
                 PROVE  Message[2] \notin left[cb]
        OBVIOUS
    <2>1. handler.messages # <<>> /\ handler.messages \in Seq(Changes)
        BY Types DEF Core, ContextIsInOrder
    <2>2. Message = handler.messages[1] /\ 1 \in DOMAIN handler.messages
        BY <2>1, QueueFirst DEF Message
    <2> QED BY <2>2 DEF LeftIsGone
<1>4. Core /\ [DevicesNext]_deviceVars => Core'
    BY DevicesAssumption, DevicesNextKeeps
<1>5. DevicesInit => Core
    BY DevicesAssumption, DevicesInitCore
<1> QED BY <1>1, <1>2, <1>3, <1>4, <1>5, PTL DEF DevicesSpec, AnnouncedInOrder
=============================================================================
