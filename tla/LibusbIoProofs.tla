-------------------------- MODULE LibusbIoProofs --------------------------
(***************************************************************************)
(* Proofs about LibusbIo, for any number of threads, submissions and       *)
(* timeouts, and whether or not a callback may close its handle: the       *)
(* invariant IoInv, and that the transfers of a context implement          *)
(* LibusbTransfer.                                                         *)
(*                                                                         *)
(* The first lemmas are about the list of flying transfers: what a removal *)
(* and an insertion by deadline do to it.  There follows one lemma per     *)
(* action; its first steps say what the action does to the locks, the      *)
(* list and the places of the threads, then comes a step for each part of  *)
(* IoInv that it can disturb, and one for the others.                      *)
(***************************************************************************)
EXTENDS LibusbIo, FiniteSetTheorems, SequenceTheorems, WellFoundedInduction, TLAPS

\* A nonempty set of numbers has a least one.
LEMMA LeastOf ==
    ASSUME NEW T \in SUBSET Nat, T # {}
    PROVE  Min(T) \in T /\ \A y \in T : Min(T) <= y
<1> DEFINE R == {ss \in Nat \X Nat : ss[1] < ss[2]}
<1>1. R = OpToRel(<, Nat)
    BY DEF OpToRel
<1>2. IsWellFoundedOn(R, Nat)
    BY <1>1, NatLessThanWellFounded
<1> HIDE DEF R
<1>3. PICK x \in T : \A y \in T : <<y, x>> \notin R
    BY <1>2, WFMin
<1>4. ASSUME NEW y \in T PROVE x <= y
  <2>1. x \in Nat /\ y \in Nat
    OBVIOUS
  <2>2. y < x => <<y, x>> \in R
    BY <2>1 DEF R
  <2> QED BY <1>3, <2>1, <2>2
<1> QED BY <1>4 DEF Min

\* What a list is without its element i ...
LEMMA RemoveAtIs ==
    ASSUME NEW S, NEW s \in Seq(S), NEW i \in 1..Len(s)
    PROVE  /\ RemoveAt(s, i) \in Seq(S) /\ Len(RemoveAt(s, i)) = Len(s) - 1
           /\ \A j \in 1..(Len(s) - 1) :
                RemoveAt(s, i)[j] = IF j < i THEN s[j] ELSE s[j + 1]
<1> DEFINE a == SubSeq(s, 1, i - 1)
           b == SubSeq(s, i + 1, Len(s))
<1>1. /\ Len(s) \in Nat /\ i \in Nat /\ i - 1 \in Nat /\ i + 1 \in Nat
      /\ i - 1 \in Int /\ i + 1 \in Int
    OBVIOUS
<1>2. /\ \A j \in 1..(i - 1) : s[j] \in S
      /\ \A j \in (i + 1)..Len(s) : s[j] \in S
    BY <1>1
<1>3. a \in Seq(S) /\ Len(a) = i - 1 /\ \A j \in 1..(i - 1) : a[j] = s[j]
  <2>1. /\ a \in Seq(S) /\ Len(a) = (IF 1 <= i - 1 THEN (i - 1) - 1 + 1 ELSE 0)
        /\ \A j \in 1..((i - 1) - 1 + 1) : a[j] = s[1 + j - 1]
    BY <1>1, <1>2, SubSeqProperties
  <2> HIDE DEF a
  <2> QED BY <1>1, <2>1
<1>4. b \in Seq(S) /\ Len(b) = Len(s) - i /\ \A j \in 1..(Len(s) - i) : b[j] = s[i + j]
  <2>1. /\ b \in Seq(S) /\ Len(b) = (IF i + 1 <= Len(s) THEN Len(s) - (i + 1) + 1 ELSE 0)
        /\ \A j \in 1..(Len(s) - (i + 1) + 1) : b[j] = s[(i + 1) + j - 1]
    BY <1>1, <1>2, SubSeqProperties
  <2> HIDE DEF b
  <2>2. Len(s) - (i + 1) + 1 = Len(s) - i /\ \A j \in 1..(Len(s) - i) : (i + 1) + j - 1 = i + j
    BY <1>1
  <2>3. Len(b) = Len(s) - i
    <3>1. CASE i + 1 <= Len(s)
        BY <2>1, <2>2, <3>1
    <3>2. CASE ~(i + 1 <= Len(s))
      <4>1. Len(s) - i = 0
        BY <1>1, <3>2
      <4> QED BY <2>1, <3>2, <4>1
    <3> QED BY <3>1, <3>2
  <2> QED BY <2>1, <2>2, <2>3
<1> HIDE DEF a, b
<1>5. /\ a \o b \in Seq(S) /\ Len(a \o b) = Len(a) + Len(b)
      /\ \A j \in 1..(Len(a) + Len(b)) :
           (a \o b)[j] = IF j <= Len(a) THEN a[j] ELSE b[j - Len(a)]
    BY <1>3, <1>4, ConcatProperties
<1>6. ASSUME NEW j \in 1..(Len(s) - 1)
      PROVE  (a \o b)[j] = IF j < i THEN s[j] ELSE s[j + 1]
    BY <1>1, <1>3, <1>4, <1>5
<1>7. RemoveAt(s, i) = a \o b
    BY DEF RemoveAt, a, b
<1>8. Len(a) + Len(b) = Len(s) - 1
    BY <1>1, <1>3, <1>4
<1> QED BY <1>5, <1>6, <1>7, <1>8

\* ... and with x before its element i.
LEMMA InsertAtIs ==
    ASSUME NEW S, NEW s \in Seq(S), NEW i \in 1..Len(s), NEW x \in S
    PROVE  /\ InsertAt(s, i, x) \in Seq(S) /\ Len(InsertAt(s, i, x)) = Len(s) + 1
           /\ \A j \in 1..(Len(s) + 1) :
                InsertAt(s, i, x)[j] = IF j < i THEN s[j] ELSE IF j = i THEN x ELSE s[j - 1]
<1> DEFINE a == SubSeq(s, 1, i - 1)
           b == SubSeq(s, i, Len(s))
           c == <<x>>
<1>1. Len(s) \in Nat /\ i \in Nat /\ i - 1 \in Nat /\ i - 1 \in Int
    OBVIOUS
<1>2. /\ \A j \in 1..(i - 1) : s[j] \in S
      /\ \A j \in i..Len(s) : s[j] \in S
    BY <1>1
<1>3. a \in Seq(S) /\ Len(a) = i - 1 /\ \A j \in 1..(i - 1) : a[j] = s[j]
  <2>1. /\ a \in Seq(S) /\ Len(a) = (IF 1 <= i - 1 THEN (i - 1) - 1 + 1 ELSE 0)
        /\ \A j \in 1..((i - 1) - 1 + 1) : a[j] = s[1 + j - 1]
    BY <1>1, <1>2, SubSeqProperties
  <2> HIDE DEF a
  <2> QED BY <1>1, <2>1
<1>4. /\ b \in Seq(S) /\ Len(b) = Len(s) - i + 1
      /\ \A j \in 1..(Len(s) - i + 1) : b[j] = s[i + j - 1]
  <2>1. /\ b \in Seq(S) /\ Len(b) = (IF i <= Len(s) THEN Len(s) - i + 1 ELSE 0)
        /\ \A j \in 1..(Len(s) - i + 1) : b[j] = s[i + j - 1]
    BY <1>1, <1>2, SubSeqProperties
  <2> HIDE DEF b
  <2> QED BY <1>1, <2>1
<1>5. c \in Seq(S) /\ Len(c) = 1 /\ c[1] = x
    OBVIOUS
<1> HIDE DEF a, b, c
<1>6. /\ a \o c \in Seq(S) /\ Len(a \o c) = i
      /\ \A j \in 1..i : (a \o c)[j] = IF j < i THEN s[j] ELSE x
  <2>1. /\ a \o c \in Seq(S) /\ Len(a \o c) = Len(a) + Len(c)
        /\ \A j \in 1..(Len(a) + Len(c)) :
             (a \o c)[j] = IF j <= Len(a) THEN a[j] ELSE c[j - Len(a)]
    BY <1>3, <1>5, ConcatProperties
  <2>2. Len(a) + Len(c) = i
    BY <1>1, <1>3, <1>5
  <2>3. ASSUME NEW j \in 1..i PROVE (a \o c)[j] = IF j < i THEN s[j] ELSE x
    <3>1. CASE j < i
        BY <1>1, <1>3, <2>1, <2>2, <3>1
    <3>2. CASE j = i
      <4>1. j - Len(a) = 1 /\ ~(j <= Len(a))
        BY <1>1, <1>3, <3>2
      <4> QED BY <1>5, <2>1, <2>2, <3>2, <4>1
    <3>3. j < i \/ j = i
        BY <1>1
    <3> QED BY <3>1, <3>2, <3>3
  <2> QED BY <2>1, <2>2, <2>3
<1> DEFINE d == a \o c
<1>d. d \in Seq(S) /\ Len(d) = i /\ \A j \in 1..i : d[j] = IF j < i THEN s[j] ELSE x
    BY <1>6
<1> HIDE DEF d
<1>7. /\ d \o b \in Seq(S) /\ Len(d \o b) = Len(s) + 1
      /\ \A j \in 1..(Len(s) + 1) : (d \o b)[j] = IF j <= i THEN d[j] ELSE b[j - i]
  <2>1. /\ d \o b \in Seq(S) /\ Len(d \o b) = Len(d) + Len(b)
        /\ \A j \in 1..(Len(d) + Len(b)) :
             (d \o b)[j] = IF j <= Len(d) THEN d[j] ELSE b[j - Len(d)]
    BY <1>4, <1>d, ConcatProperties
  <2>2. Len(d) = i /\ Len(d) + Len(b) = Len(s) + 1
    BY <1>1, <1>4, <1>d
  <2> QED BY <2>1, <2>2
<1>8. ASSUME NEW j \in 1..(Len(s) + 1)
      PROVE  (d \o b)[j] = IF j < i THEN s[j] ELSE IF j = i THEN x ELSE s[j - 1]
  <2>1. CASE j <= i
    <3>1. j \in 1..i /\ (d \o b)[j] = d[j]
        BY <1>1, <1>7, <2>1
    <3>2. d[j] = IF j < i THEN s[j] ELSE x
        BY <1>d, <3>1
    <3>3. j < i \/ (j = i /\ ~(j < i))
        BY <1>1, <2>1
    <3> QED BY <3>1, <3>2, <3>3
  <2>2. CASE j > i
    <3>1. j - i \in 1..(Len(s) - i + 1) /\ (d \o b)[j] = b[j - i]
        BY <1>1, <1>7, <2>2
    <3>2. b[j - i] = s[i + (j - i) - 1]
        BY <1>4, <3>1
    <3>3. i + (j - i) - 1 = j - 1 /\ ~(j < i) /\ j # i
        BY <1>1, <2>2
    <3> QED BY <3>1, <3>2, <3>3
  <2>3. j <= i \/ j > i
    BY <1>1
  <2> QED BY <2>1, <2>2, <2>3
<1>9. InsertAt(s, i, x) = d \o b
    BY DEF InsertAt, a, b, c, d
<1> QED BY <1>7, <1>8, <1>9

\* What is removed from the list of flying transfers was listed once, and leaves
\* the others in their order.
LEMMA RemovalKeepsOrder ==
    ASSUME IoTypeOK, ListIsOrdered, NEW x \in Threads, RemoveFromFlyingList(x),
           deadline' \in [Threads -> 0..Never], Never \in Nat,
           \A y \in Threads \ {x} : deadline'[y] = deadline[y]
    PROVE  /\ flying' \in Seq(Threads) /\ ListIsOrdered'
           /\ \A y \in Threads : y \in ToSet(flying') <=> y \in ToSet(flying) /\ y # x
<1>1. PICK i \in DOMAIN flying : flying[i] = x /\ flying' = RemoveAt(flying, i)
    BY DEF RemoveFromFlyingList
<1>2. flying \in Seq(Threads) /\ deadline \in [Threads -> 0..Never]
    BY DEF IoTypeOK
<1> DEFINE n == Len(flying)
<1>3. n \in Nat /\ DOMAIN flying = 1..n /\ i \in 1..n /\ \A j \in 1..n : flying[j] \in Threads
    BY <1>1, <1>2
<1>4. /\ flying' \in Seq(Threads) /\ Len(flying') = n - 1
      /\ \A j \in 1..(n - 1) : flying'[j] = IF j < i THEN flying[j] ELSE flying[j + 1]
    BY <1>1, <1>2, <1>3, RemoveAtIs
<1>5. DOMAIN flying' = 1..(n - 1)
    BY <1>4
<1>6. /\ \A j, k \in 1..n : j < k => /\ flying[j] # flying[k]
                                     /\ deadline[flying[j]] <= deadline[flying[k]]
      /\ \A j \in 1..n : j # i => flying[j] # x
  <2>1. \A j, k \in 1..n : j < k => /\ flying[j] # flying[k]
                                    /\ deadline[flying[j]] <= deadline[flying[k]]
    BY <1>3 DEF ListIsOrdered
  <2>2. \A j \in 1..n : j < i \/ j = i \/ i < j
    BY <1>3
  <2> QED BY <1>1, <1>3, <2>1, <2>2
<1> HIDE DEF n
<1>7. \A j \in 1..(n - 1) : \E k \in 1..n :
        k # i /\ flying'[j] = flying[k] /\ (k = j \/ k = j + 1) /\ (k = j <=> j < i)
  <2> SUFFICES ASSUME NEW j \in 1..(n - 1)
               PROVE  \E k \in 1..n : /\ k # i /\ flying'[j] = flying[k]
                                      /\ k = j \/ k = j + 1
                                      /\ k = j <=> j < i
    OBVIOUS
  <2>1. j \in 1..n /\ j + 1 \in 1..n /\ j + 1 # j
    BY <1>3
  <2>2. CASE j < i
    <3>1. j # i /\ flying'[j] = flying[j]
        BY <1>3, <1>4, <2>2
    <3> QED BY <2>1, <2>2, <3>1
  <2>3. CASE ~(j < i)
    <3>1. j + 1 # i /\ flying'[j] = flying[j + 1]
        BY <1>3, <1>4, <2>3
    <3> QED BY <2>1, <2>3, <3>1
  <2> QED BY <2>2, <2>3
<1>8. ListIsOrdered'
  <2>1. ASSUME NEW j \in 1..(n - 1), NEW k \in 1..(n - 1), j < k
        PROVE  flying'[j] # flying'[k] /\ deadline'[flying'[j]] <= deadline'[flying'[k]]
    <3>1. PICK a \in 1..n : /\ a # i /\ flying'[j] = flying[a]
                            /\ a = j \/ a = j + 1
                            /\ a = j <=> j < i
        BY <1>7
    <3>2. PICK b \in 1..n : /\ b # i /\ flying'[k] = flying[b]
                            /\ b = k \/ b = k + 1
                            /\ b = k <=> k < i
        BY <1>7
    <3>3. a < b
        BY <1>3, <2>1, <3>1, <3>2
    <3>4. /\ flying[a] # x /\ flying[b] # x /\ flying[a] \in Threads /\ flying[b] \in Threads
          /\ flying[a] # flying[b] /\ deadline[flying[a]] <= deadline[flying[b]]
        BY <1>3, <1>6, <3>1, <3>2, <3>3
    <3> QED BY <3>1, <3>2, <3>4
  <2> QED BY <1>5, <2>1 DEF ListIsOrdered
<1>9. ASSUME NEW y \in Threads
      PROVE  y \in ToSet(flying') <=> y \in ToSet(flying) /\ y # x
  <2>1. ASSUME y \in ToSet(flying') PROVE y \in ToSet(flying) /\ y # x
    <3>1. PICK j \in 1..(n - 1) : flying'[j] = y
        BY <1>5, <2>1 DEF ToSet
    <3>2. PICK k \in 1..n : k # i /\ flying'[j] = flying[k]
        BY <1>7
    <3> QED BY <1>3, <1>6, <3>1, <3>2 DEF ToSet
  <2>2. ASSUME y \in ToSet(flying), y # x PROVE y \in ToSet(flying')
    <3>1. PICK k \in 1..n : flying[k] = y
        BY <1>3, <2>2 DEF ToSet
    <3>2. k # i
        BY <1>1, <2>2, <3>1
    <3>3. CASE k < i
      <4>1. k \in 1..(n - 1) /\ flying'[k] = y
        BY <1>3, <1>4, <3>1, <3>3
      <4> QED BY <1>5, <4>1 DEF ToSet
    <3>4. CASE ~(k < i)
      <4>1. k - 1 \in 1..(n - 1) /\ ~(k - 1 < i) /\ (k - 1) + 1 = k
        BY <1>3, <3>2, <3>4
      <4>2. flying'[k - 1] = y
        BY <1>4, <3>1, <4>1
      <4> QED BY <1>5, <4>1, <4>2 DEF ToSet
    <3> QED BY <3>3, <3>4
  <2> QED BY <2>1, <2>2
<1> QED BY <1>4, <1>8, <1>9

\* A transfer that is not listed is inserted before those with a later deadline.
LEMMA InsertionKeepsOrder ==
    ASSUME IoTypeOK, ListIsOrdered, NEW x \in Threads, NEW due \in 0..Never, Never \in Nat,
           x \notin ToSet(flying), flying' = AddToFlyingList(x, due),
           deadline' = [deadline EXCEPT ![x] = due]
    PROVE  /\ flying' \in Seq(Threads) /\ ListIsOrdered'
           /\ \A y \in Threads : y \in ToSet(flying') <=> y \in ToSet(flying) \/ y = x
<1>1. flying \in Seq(Threads) /\ deadline \in [Threads -> 0..Never]
    BY DEF IoTypeOK
<1> DEFINE n == Len(flying)
           later == {i \in DOMAIN flying : deadline[flying[i]] > due}
<1>2. n \in Nat /\ DOMAIN flying = 1..n /\ \A j \in 1..n : flying[j] \in Threads
    BY <1>1
<1>3. /\ \A j, k \in 1..n : j < k => /\ flying[j] # flying[k]
                                     /\ deadline[flying[j]] <= deadline[flying[k]]
      /\ \A j \in 1..n : flying[j] # x
    BY <1>2 DEF ListIsOrdered, ToSet
<1>4. /\ deadline'[x] = due
      /\ \A j \in 1..n : /\ deadline'[flying[j]] = deadline[flying[j]]
                         /\ deadline[flying[j]] \in Nat /\ deadline[flying[j]] <= Never
    BY <1>1, <1>2, <1>3
<1>5. ASSUME NEW m \in 1..(n + 1), flying' \in Seq(Threads), Len(flying') = n + 1,
             \A j \in 1..(n + 1) :
                flying'[j] = IF j < m THEN flying[j] ELSE IF j = m THEN x ELSE flying[j - 1],
             \A j \in 1..n : j < m => deadline[flying[j]] <= due,
             \A j \in 1..n : m <= j => due <= deadline[flying[j]]
      PROVE  /\ ListIsOrdered'
             /\ \A y \in Threads : y \in ToSet(flying') <=> y \in ToSet(flying) \/ y = x
  <2> HIDE DEF n, later
  <2>1. DOMAIN flying' = 1..(n + 1)
    BY <1>5
  <2>2. \A j \in 1..(n + 1) : j # m => \E a \in 1..n :
            flying'[j] = flying[a] /\ (a = j \/ a = j - 1) /\ (a = j <=> j < m)
    <3> SUFFICES ASSUME NEW j \in 1..(n + 1), j # m
                 PROVE  \E a \in 1..n : /\ flying'[j] = flying[a]
                                        /\ a = j \/ a = j - 1
                                        /\ a = j <=> j < m
        OBVIOUS
    <3>1. CASE j < m
      <4>1. j \in 1..n /\ flying'[j] = flying[j]
        BY <1>2, <1>5, <3>1
      <4> QED BY <3>1, <4>1
    <3>2. CASE ~(j < m)
      <4>1. j - 1 \in 1..n /\ flying'[j] = flying[j - 1] /\ j - 1 # j
        BY <1>2, <1>5, <3>2
      <4> QED BY <3>2, <4>1
    <3> QED BY <3>1, <3>2
  <2>3. ASSUME NEW j \in 1..(n + 1), NEW k \in 1..(n + 1), j < k
        PROVE  flying'[j] # flying'[k] /\ deadline'[flying'[j]] <= deadline'[flying'[k]]
    <3>1. CASE j = m
      <4>1. k # m /\ flying'[j] = x
        BY <1>2, <1>5, <2>3, <3>1
      <4>2. PICK a \in 1..n : /\ flying'[k] = flying[a]
                              /\ a = k \/ a = k - 1
                              /\ a = k <=> k < m
        BY <2>2, <4>1
      <4>3. m <= a
        BY <1>2, <2>3, <3>1, <4>2
      <4> QED BY <1>3, <1>4, <1>5, <4>1, <4>2, <4>3
    <3>2. CASE k = m
      <4>1. j # m /\ flying'[k] = x
        BY <1>2, <1>5, <2>3, <3>2
      <4>2. PICK a \in 1..n : /\ flying'[j] = flying[a]
                              /\ a = j \/ a = j - 1
                              /\ a = j <=> j < m
        BY <2>2, <4>1
      <4>3. a < m
        BY <1>2, <2>3, <3>2, <4>2
      <4> QED BY <1>3, <1>4, <1>5, <4>1, <4>2, <4>3
    <3>3. CASE j # m /\ k # m
      <4>1. PICK a \in 1..n : /\ flying'[j] = flying[a]
                              /\ a = j \/ a = j - 1
                              /\ a = j <=> j < m
        BY <2>2, <3>3
      <4>2. PICK b \in 1..n : /\ flying'[k] = flying[b]
                              /\ b = k \/ b = k - 1
                              /\ b = k <=> k < m
        BY <2>2, <3>3
      <4>3. a < b
        BY <1>2, <2>3, <3>3, <4>1, <4>2
      <4> QED BY <1>3, <1>4, <4>1, <4>2, <4>3
    <3> QED BY <3>1, <3>2, <3>3
  <2>4. ListIsOrdered'
    BY <2>1, <2>3 DEF ListIsOrdered
  <2>5. ASSUME NEW y \in Threads
        PROVE  y \in ToSet(flying') <=> y \in ToSet(flying) \/ y = x
    <3>1. ASSUME y \in ToSet(flying') PROVE y \in ToSet(flying) \/ y = x
      <4>1. PICK j \in 1..(n + 1) : flying'[j] = y
        BY <2>1, <3>1 DEF ToSet
      <4>2. CASE j = m
        BY <1>5, <4>1, <4>2
      <4>3. CASE j # m
        <5>1. PICK a \in 1..n : flying'[j] = flying[a]
            BY <2>2, <4>3
        <5> QED BY <1>2, <4>1, <5>1 DEF ToSet
      <4> QED BY <4>2, <4>3
    <3>2. x \in ToSet(flying')
      <4>1. flying'[m] = x
        BY <1>2, <1>5
      <4> QED BY <2>1, <4>1 DEF ToSet
    <3>3. ASSUME y \in ToSet(flying) PROVE y \in ToSet(flying')
      <4>1. PICK k \in 1..n : flying[k] = y
        BY <1>2, <3>3 DEF ToSet
      <4>2. CASE k < m
        <5>1. k \in 1..(n + 1) /\ flying'[k] = y
            BY <1>2, <1>5, <4>1, <4>2
        <5> QED BY <2>1, <5>1 DEF ToSet
      <4>3. CASE ~(k < m)
        <5>1. k + 1 \in 1..(n + 1) /\ ~(k + 1 < m) /\ k + 1 # m /\ (k + 1) - 1 = k
            BY <1>2, <4>3
        <5>2. flying'[k + 1] = y
            BY <1>5, <4>1, <5>1
        <5> QED BY <2>1, <5>1, <5>2 DEF ToSet
      <4> QED BY <4>2, <4>3
    <3> QED BY <3>1, <3>2, <3>3
  <2> QED BY <2>4, <2>5
<1>6. CASE due = Never \/ later = {}
  <2>1. flying' = Append(flying, x)
    BY <1>6 DEF AddToFlyingList
  <2>2. /\ flying' \in Seq(Threads) /\ Len(flying') = n + 1
        /\ \A j \in 1..(n + 1) : flying'[j] = IF j <= n THEN flying[j] ELSE x
    BY <1>1, <2>1
  <2>3. \A j \in 1..n : deadline[flying[j]] <= due
    BY <1>2, <1>4, <1>6
  <2> HIDE DEF n, later
  <2>4. n + 1 \in 1..(n + 1) /\ \A j \in 1..n : j < n + 1 /\ ~(n + 1 <= j)
    BY <1>2
  <2>5. \A j \in 1..(n + 1) : (j <= n <=> j < n + 1) /\ (~(j <= n) <=> j = n + 1)
    BY <1>2
  <2>6. \A j \in 1..(n + 1) : flying'[j] = IF j < n + 1 THEN flying[j]
                                           ELSE IF j = n + 1 THEN x ELSE flying[j - 1]
    BY <2>2, <2>5
  <2> QED BY <1>5, <2>2, <2>3, <2>4, <2>6
<1>7. CASE ~(due = Never \/ later = {})
  <2>1. flying' = InsertAt(flying, Min(later), x)
    BY <1>7 DEF AddToFlyingList
  <2>2. later \in SUBSET Nat /\ later # {}
    BY <1>2, <1>7
  <2>3. Min(later) \in later /\ \A j \in later : Min(later) <= j
    BY <2>2, LeastOf
  <2> DEFINE m == Min(later)
  <2>4. /\ m \in 1..n /\ deadline[flying[m]] > due
        /\ \A j \in 1..n : deadline[flying[j]] > due => m <= j
    BY <1>2, <2>3
  <2> HIDE DEF m, n, later
  <2>5. /\ flying' \in Seq(Threads) /\ Len(flying') = n + 1
        /\ \A j \in 1..(n + 1) :
             flying'[j] = IF j < m THEN flying[j] ELSE IF j = m THEN x ELSE flying[j - 1]
    <3>1. flying' = InsertAt(flying, m, x)
        BY <2>1 DEF m
    <3>2. flying \in Seq(Threads)
        BY <1>1
    <3>3. m \in 1..Len(flying)
        BY <2>4 DEF n
    <3>4. InsertAt(flying, m, x) \in Seq(Threads)
        BY <3>2, <3>3, InsertAtIs
    <3>5. Len(InsertAt(flying, m, x)) = Len(flying) + 1
        BY <3>2, <3>3, InsertAtIs
    <3>6. \A j \in 1..(Len(flying) + 1) :
             InsertAt(flying, m, x)[j] = IF j < m THEN flying[j]
                                         ELSE IF j = m THEN x ELSE flying[j - 1]
        BY <3>2, <3>3, InsertAtIs
    <3> QED BY <3>1, <3>4, <3>5, <3>6 DEF n
  <2>6. \A j \in 1..n : j < m => deadline[flying[j]] <= due
    BY <1>2, <1>4, <2>4
  <2>7. \A j \in 1..n : m <= j => due <= deadline[flying[j]]
    <3> SUFFICES ASSUME NEW j \in 1..n, m <= j PROVE due <= deadline[flying[j]]
        OBVIOUS
    <3>1. deadline[flying[m]] <= deadline[flying[j]]
        BY <1>2, <1>3, <1>4, <2>4
    <3> QED BY <1>4, <2>4, <3>1
  <2>8. m \in 1..(n + 1)
    BY <1>2, <2>4
  <2> QED BY <1>5, <2>5, <2>6, <2>7, <2>8
<1> QED BY <1>6, <1>7

\* What the proofs of the steps use of the types.
Typed ==
    /\ pc \in [Threads -> Places]
    /\ lock \in [SharedLocks \cup Threads -> Threads \cup {Nobody}]
    /\ cur \in [Threads -> [x : Threads \cup {Nobody},
                            status : Transfer!Statuses \cup {"none", "killed"}]]
    /\ Nobody \notin Threads /\ \A x \in Threads : x \notin SharedLocks

\* These types follow from IoTypeOK.
LEMMA Typing ==
    ASSUME IoAssumption, IoTypeOK
    PROVE  Typed /\ Never \in Nat
BY DEF IoTypeOK, IoAssumption, Never, Typed

\* Raising a flag keeps the byte in the pipe ...
LEMMA RaiseKeepsByte ==
    ASSUME IoTypeOK, PipeHasByte, NEW f \in {"sources", "interrupt", "close"}, Raise(f)
    PROVE  /\ flags' \subseteq {"sources", "interrupt", "close"} /\ pipe' \in {0, 1}
           /\ PipeHasByte' /\ flags' = flags \cup {f}
BY DEF IoTypeOK, PipeHasByte, Raise

\* ... and so does lowering flags while some are up.
LEMMA LowerKeepsByte ==
    ASSUME IoTypeOK, PipeHasByte, NEW fs, flags # {}, Lower(fs)
    PROVE  /\ flags' \subseteq {"sources", "interrupt", "close"} /\ pipe' \in {0, 1}
           /\ PipeHasByte' /\ flags' = flags \ fs
<1>1. pipe = 1 /\ flags' = flags \ fs /\ pipe' = IF flags' = {} THEN pipe - 1 ELSE pipe
    BY DEF PipeHasByte, Lower
<1>2. pipe' = IF flags' = {} THEN 0 ELSE 1
    BY <1>1
<1> QED BY <1>1, <1>2 DEF IoTypeOK, PipeHasByte

\* The next transfer whose timeout is to be handled is one of the list.
LEMMA NextIsListed ==
    ASSUME IoTypeOK, NextUnhandled # Nobody
    PROVE  NextUnhandled \in Threads /\ NextUnhandled \in ToSet(flying)
<1> DEFINE open == {i \in DOMAIN flying : ~handled[flying[i]]}
<1>1. open # {} /\ NextUnhandled = flying[Min(open)]
    BY DEF NextUnhandled
<1>2. flying \in Seq(Threads)
    BY DEF IoTypeOK
<1>3. DOMAIN flying = 1..Len(flying) /\ Len(flying) \in Nat
    BY <1>2
<1>4. open \in SUBSET Nat
    BY <1>3
<1>5. Min(open) \in DOMAIN flying
  <2> HIDE DEF open
  <2>1. Min(open) \in open
    BY <1>1, <1>4, LeastOf
  <2> QED BY <2>1 DEF open
<1> HIDE DEF open
<1> QED BY <1>1, <1>2, <1>3, <1>5 DEF ToSet

\* The threads in libusb_close() are counted one by one.
LEMMA ClosersAdd ==
    ASSUME IoAssumption, ClosersAreCounted, NEW t \in Threads
    PROVE  /\ IsFiniteSet(Closers) /\ closing \in Nat
           /\ t \notin Closers => Cardinality(Closers \cup {t}) = closing + 1
           /\ t \in Closers => closing > 0 /\ Cardinality(Closers \ {t}) = closing - 1
<1>1. IsFiniteSet(Closers)
    BY FS_Subset DEF IoAssumption, Closers
<1>2. closing \in Nat /\ closing = Cardinality(Closers)
    BY <1>1, FS_CardinalityType DEF ClosersAreCounted
<1>3. t \notin Closers => Cardinality(Closers \cup {t}) = Cardinality(Closers) + 1
    BY <1>1, FS_AddElement
<1>4. t \in Closers => Cardinality(Closers \ {t}) = Cardinality(Closers) - 1
    BY <1>1, FS_RemoveElement
<1>5. Cardinality(Closers) = 0 <=> Closers = {}
    BY <1>1, FS_EmptySet
<1> HIDE DEF Closers
<1>6. t \in Closers => closing > 0
    BY <1>2, <1>5
<1> QED BY <1>1, <1>2, <1>3, <1>4, <1>6

\* A thread that does not set the mark of a timeout changes no reason ...
LEMMA ReasonsStay ==
    ASSUME NEW t \in Threads, UNCHANGED <<asked, timedOut>>, pc[t] # "mark", pc'[t] # "mark",
           \A u \in Threads \ {t} : pc'[u] = pc[u] /\ cur'[u] = cur[u]
    PROVE  \A x \in Threads : (ForUser(x)' <=> ForUser(x)) /\ (ForTimeout(x)' <=> ForTimeout(x))
<1> USE DEF ForUser, ForTimeout, At
<1>1. ASSUME NEW x \in Threads, NEW u \in Threads
      PROVE  pc'[u] = "mark" /\ cur'[u].x = x <=> pc[u] = "mark" /\ cur[u].x = x
    <2>1. CASE u = t
        BY <2>1
    <2>2. CASE u # t
        BY <2>2
    <2> QED BY <2>1, <2>2
<1> QED BY <1>1

\* ... one that does not complete a transfer leaves those being completed ...
LEMMA CompletingStays ==
    ASSUME NEW t \in Threads, pc[t] # "land", pc'[t] # "land",
           \A u \in Threads \ {t} : pc'[u] = pc[u] /\ cur'[u] = cur[u]
    PROVE  \A x \in Threads : Completing(x)' <=> Completing(x)
<1>1. ASSUME NEW x \in Threads, NEW u \in Threads
      PROVE  pc'[u] = "land" /\ cur'[u].x = x <=> pc[u] = "land" /\ cur[u].x = x
    <2>1. CASE u = t
        BY <2>1
    <2>2. CASE u # t
        BY <2>2
    <2> QED BY <2>1, <2>2
<1> QED BY <1>1 DEF Completing

\* ... and one that does not submit any leaves those being submitted.
LEMMA SubmittingStays ==
    ASSUME NEW t \in Threads,
           pc[t] \notin {"backend", "unlist"}, pc'[t] \notin {"backend", "unlist"},
           \A u \in Threads \ {t} : pc'[u] = pc[u] /\ cur'[u] = cur[u]
    PROVE  \A x \in Threads : Submitting(x)' <=> Submitting(x)
<1>1. ASSUME NEW x \in Threads, NEW u \in Threads
      PROVE  pc'[u] \in {"backend", "unlist"} /\ cur'[u].x = x
             <=> pc[u] \in {"backend", "unlist"} /\ cur[u].x = x
    <2>1. CASE u = t
        BY <2>1
    <2>2. CASE u # t
        BY <2>2
    <2> QED BY <2>1, <2>2
<1> QED BY <1>1 DEF Submitting

\* A thread that does neither leaves the list as it is.
LEMMA FlyingStays ==
    ASSUME ListIsFlying, UNCHANGED <<flying, inFlight>>, NEW t \in Threads,
           pc[t] \notin {"backend", "unlist", "land"}, pc'[t] \notin {"backend", "unlist", "land"},
           \A u \in Threads \ {t} : pc'[u] = pc[u] /\ cur'[u] = cur[u]
    PROVE  ListIsFlying'
<1>1. \A x \in Threads : (Submitting(x)' <=> Submitting(x)) /\ (Completing(x)' <=> Completing(x))
    BY SubmittingStays, CompletingStays
<1> QED BY <1>1 DEF ListIsFlying

\* What a thread that handles a transfer has to know of it.
LEMMA CancellationsStay ==
    ASSUME IoInv, NEW t \in Threads, UNCHANGED <<asked, timedOut, inFlight, status>>,
           \A x \in Threads : urb'[x] = "killed" => urb[x] = "killed",
           pc[t] \notin {"mark", "land"}, pc'[t] \notin {"mark", "land", "backend"},
           \A u \in Threads \ {t} : pc'[u] = pc[u] /\ cur'[u] = cur[u],
           NEW x \in Threads, pc'[t] \in {"cancelled", "complete"} => cur'[t].x = x,
           pc'[t] = "cancelled" => ForUser(x) \/ ForTimeout(x),
           pc'[t] = "complete" => /\ cur'[t].status \in Transfer!Statuses
                                  /\ cur'[t].status = "cancelled" => ForUser(x)
                                  /\ cur'[t].status = "timed_out" => asked[x] = "timeout"
    PROVE  CancellationsAreAsked'
<1> USE DEF IoInv
<1>1. \A y \in Threads : /\ (ForUser(y)' <=> ForUser(y)) /\ (ForTimeout(y)' <=> ForTimeout(y))
                         /\ Completing(y)' <=> Completing(y)
    BY ReasonsStay, CompletingStays
<1>2. /\ \A y \in Threads : timedOut'[y] => asked'[y] = "timeout"
      /\ \A y \in Threads : urb'[y] = "killed" => ForUser(y)' \/ ForTimeout(y)'
    BY <1>1 DEF CancellationsAreAsked
<1>3. ASSUME NEW u \in Threads \ {t}
      PROVE  /\ At(u, "backend")' => asked'[cur'[u].x] = "no" /\ status'[cur'[u].x] = "none"
             /\ At(u, "mark")' => /\ asked'[cur'[u].x] = "timeout" /\ inFlight'[cur'[u].x]
                                  /\ ~Completing(cur[u].x)'
             /\ At(u, "cancelled")' => ForUser(cur[u].x)' \/ ForTimeout(cur[u].x)'
             /\ pc'[u] \in {"complete", "land"} =>
                  /\ cur'[u].status \in Transfer!Statuses
                  /\ cur'[u].status = "cancelled" => ForUser(cur[u].x)'
                  /\ cur'[u].status = "timed_out" => asked'[cur'[u].x] = "timeout"
    <2>1. pc[u] \in {"mark", "cancelled", "complete", "land"} => cur[u].x \in Threads
        BY DEF TransfersAreHandled, Hands, Completes
    <2> QED BY <1>1, <2>1 DEF CancellationsAreAsked, At
<1>4. \A u \in Threads \ {t} : cur'[u] = cur[u]
    OBVIOUS
<1> QED BY <1>1, <1>2, <1>3, <1>4 DEF CancellationsAreAsked, At, ForUser, ForTimeout,
           Completing

\* A submission lists the transfer, which was not listed.
LEMMA SubmissionIsListed ==
    ASSUME IoAssumption, IoInv, NEW t \in Threads, NEW x \in Threads, SubmitBegins(t, x),
           ~Submitting(x)
    PROVE  /\ flying' \in Seq(Threads) /\ deadline' \in [Threads -> 0..Never] /\ ListIsOrdered'
           /\ \A y \in Threads : y \in ToSet(flying') <=> y \in ToSet(flying) \/ y = x
<1>1. x \notin ToSet(flying)
    BY DEF SubmitBegins, IoInv, ListIsFlying
<1>2. PICK timeout \in Timeouts :
        /\ CalculateTimeout(timeout) <= Never
        /\ flying' = AddToFlyingList(x, CalculateTimeout(timeout))
        /\ deadline' = [deadline EXCEPT ![x] = CalculateTimeout(timeout)]
    BY DEF SubmitBegins
<1>3. CalculateTimeout(timeout) \in 0..Never /\ Never \in Nat
    BY <1>2 DEF CalculateTimeout, IoAssumption, Never, IoInv, IoTypeOK
<1>4. IoTypeOK /\ ListIsOrdered /\ deadline \in [Threads -> 0..Never]
    BY DEF IoInv, IoTypeOK
<1>5. deadline' \in [Threads -> 0..Never]
    BY <1>2, <1>3, <1>4
<1> DEFINE due == CalculateTimeout(timeout)
<1> HIDE DEF due
<1>6. /\ due \in 0..Never /\ flying' = AddToFlyingList(x, due)
      /\ deadline' = [deadline EXCEPT ![x] = due]
    BY <1>2, <1>3 DEF due
<1> QED BY <1>1, <1>3, <1>4, <1>5, <1>6, InsertionKeepsOrder

\* The transfer is in flight now, listed already, and in nobody's hands.
LEMMA BackendTakesKeeps ==
    ASSUME IoAssumption, IoInv, NEW t \in Threads, BackendTakes(t)
    PROVE  IoInv'
<1>0. Typed /\ Never \in Nat
    BY Typing DEF IoInv
<1> USE <1>0 DEF Typed, IoInv, BackendTakes, InCallback, Go, At, Give, Forget, markVars,
            eventVars, handlerVars, NoTransfer
<1>1. IoTypeOK'
    BY DEF IoTypeOK, Places, Completions, SharedLocks, Never
<1>2. LocksAreHeld'
    BY DEF LocksAreHeld, Polls, Sweeps, Callback, Completes, TransfersAreHandled, Hands,
       SharedLocks
<1>3. TransfersAreHandled'
    BY DEF TransfersAreHandled, Hands, Busy, Away, Completes, LocksAreHeld, IoTypeOK
<1>4. CancellationsAreAsked'
    BY DEF CancellationsAreAsked, ForUser, ForTimeout, Completing, TransfersAreHandled,
       LocksAreHeld, Hands
<1>5. ListIsFlying'
    BY DEF ListIsFlying, Submitting, Completing, IoTypeOK, TransfersAreHandled, Completes,
       Away
<1>6. WaitersAreWoken'
    BY DEF WaitersAreWoken
<1>7. HandlerIsActive'
    BY DEF HandlerIsActive, Free, SharedLocks, TransfersAreHandled, Hands
<1>8. ClosersAreCounted'
    BY DEF ClosersAreCounted, Closers
<1>9. /\ ListIsOrdered' /\ PipeHasByte' /\ PollSetIsKnown'
    BY DEF ListIsOrdered, PipeHasByte, PollSetIsKnown
<1> QED BY <1>1, <1>2, <1>3, <1>4, <1>5, <1>6, <1>7, <1>8, <1>9

\* A refused transfer is still being submitted, and listed, when its lock is given back.
LEMMA BackendFailsKeeps ==
    ASSUME IoAssumption, IoInv, NEW t \in Threads, BackendFails(t)
    PROVE  IoInv'
<1>0. Typed /\ Never \in Nat
    BY Typing DEF IoInv
<1> USE <1>0 DEF Typed, IoInv, BackendFails, Go, At, Give, threadVars, markVars, transferVars,
            eventVars, handlerVars, deviceVars
<1>1. IoTypeOK'
    BY DEF IoTypeOK, Places, Completions, SharedLocks, Never
<1>2. LocksAreHeld'
    BY DEF LocksAreHeld, Polls, Sweeps, Callback, Completes, InCallback, TransfersAreHandled,
       Hands, SharedLocks
<1>3. TransfersAreHandled'
    BY DEF TransfersAreHandled, Hands, Busy, Away, Completes, InCallback, SharedLocks
<1>4. CancellationsAreAsked'
    BY DEF CancellationsAreAsked, ForUser, ForTimeout, Completing
<1>5. ListIsFlying'
    BY DEF ListIsFlying, Submitting, Completing, TransfersAreHandled
<1>6. WaitersAreWoken'
    BY DEF WaitersAreWoken
<1>7. HandlerIsActive'
    BY DEF HandlerIsActive, Free, SharedLocks, TransfersAreHandled, Hands
<1>8. ClosersAreCounted'
    BY DEF ClosersAreCounted, Closers
<1>9. /\ ListIsOrdered' /\ PipeHasByte' /\ PollSetIsKnown'
    BY DEF ListIsOrdered, PipeHasByte, PollSetIsKnown
<1> QED BY <1>1, <1>2, <1>3, <1>4, <1>5, <1>6, <1>7, <1>8, <1>9

\* A refused transfer was listed, and neither is it in flight.
LEMMA UnlistKeeps ==
    ASSUME IoAssumption, IoInv, NEW t \in Threads, Unlist(t)
    PROVE  IoInv'
<1>0. Typed /\ Never \in Nat
    BY Typing DEF IoInv
<1> USE <1>0 DEF Typed, IoInv, Unlist, InCallback, Go, At, Free, Forget, markVars, eventVars,
            handlerVars, deviceVars, NoTransfer
<1>a. /\ cur[t].x \in Threads /\ ~inFlight[cur[t].x] /\ Submitting(cur[t].x)
      /\ ~Completing(cur[t].x)
    BY DEF TransfersAreHandled, Hands, Completes, Submitting, Completing
<1>b. deadline' \in [Threads -> 0..Never]
  <2>1. deadline \in [Threads -> 0..Never] /\ Never \in 0..Never
    BY DEF IoTypeOK
  <2>2. deadline' = [deadline EXCEPT ![cur[t].x] = Never]
    OBVIOUS
  <2> HIDE DEF Unlist
  <2> QED BY <2>1, <2>2
<1>c. /\ flying' \in Seq(Threads) /\ ListIsOrdered'
      /\ \A y \in Threads : y \in ToSet(flying') <=> y \in ToSet(flying) /\ y # cur[t].x
  <2>1. \A y \in Threads \ {cur[t].x} : deadline'[y] = deadline[y]
    BY DEF IoTypeOK
  <2>2. RemoveFromFlyingList(cur[t].x)
    OBVIOUS
  <2> HIDE DEF Unlist
  <2> QED BY <1>a, <1>b, <2>1, <2>2, RemovalKeepsOrder
<1>1. IoTypeOK'
    BY <1>b, <1>c DEF IoTypeOK, Places
<1>2. LocksAreHeld'
    BY DEF LocksAreHeld, Polls, Sweeps, Callback, Completes
<1>3. TransfersAreHandled'
    BY DEF TransfersAreHandled, Hands, Busy, Away, Completes
<1>4. CancellationsAreAsked'
    BY DEF CancellationsAreAsked, ForUser, ForTimeout, LocksAreHeld
<1>5. ListIsOrdered'
    BY <1>c
<1>6. ListIsFlying'
  <2>1. ASSUME NEW y \in Threads
        PROVE  /\ Completing(y)' <=> Completing(y)
               /\ Submitting(y)' <=> Submitting(y) /\ y # cur[t].x
    BY DEF Completing, Submitting, TransfersAreHandled, Hands
  <2> HIDE DEF Unlist
  <2>2. UNCHANGED inFlight
    BY DEF Unlist
  <2> QED BY <1>a, <1>c, <2>1, <2>2 DEF ListIsFlying
<1>7. WaitersAreWoken'
    BY DEF WaitersAreWoken
<1>8. ClosersAreCounted'
    BY DEF ClosersAreCounted, Closers
<1>9. /\ PipeHasByte' /\ PollSetIsKnown' /\ HandlerIsActive'
    BY DEF PipeHasByte, PollSetIsKnown, HandlerIsActive
<1> QED BY <1>1, <1>2, <1>3, <1>4, <1>5, <1>6, <1>7, <1>8, <1>9

\* The list is locked by the thread that handles timeouts.
LEMMA HandleTimeoutsKeeps ==
    ASSUME IoAssumption, IoInv, NEW t \in Threads, HandleTimeouts(t)
    PROVE  IoInv'
<1>0. Typed /\ Never \in Nat
    BY Typing DEF IoInv
<1> USE <1>0 DEF Typed, IoInv, HandleTimeouts, Go, At, Free, Take, markVars, transferVars,
            eventVars, handlerVars, deviceVars
<1>1. IoTypeOK'
    BY DEF IoTypeOK, Places, SharedLocks
<1>2. LocksAreHeld'
    BY DEF LocksAreHeld, Polls, Sweeps, Callback, Completes, InCallback, SharedLocks
<1>3. TransfersAreHandled'
    BY DEF TransfersAreHandled, Hands, Busy, Away, Completes, InCallback
<1>4. CancellationsAreAsked'
    BY DEF CancellationsAreAsked, ForUser, ForTimeout, LocksAreHeld
<1>5. ListIsFlying'
    BY FlyingStays
<1>6. WaitersAreWoken'
    BY DEF WaitersAreWoken, HandlerActive, HandlerIsActive, LocksAreHeld, Polls
<1>7. HandlerIsActive'
    BY DEF HandlerIsActive
<1>8. ClosersAreCounted'
    BY DEF ClosersAreCounted, Closers
<1>9. /\ ListIsOrdered' /\ PipeHasByte' /\ PollSetIsKnown'
    BY DEF ListIsOrdered, PipeHasByte, PollSetIsKnown
<1> QED BY <1>1, <1>2, <1>3, <1>4, <1>5, <1>6, <1>7, <1>8, <1>9

\* A timeout cancels nobody's transfer twice; until it is marked, the list stays locked.
LEMMA SweepCancelsKeeps ==
    ASSUME IoAssumption, IoInv, NEW t \in Threads, SweepCancels(t)
    PROVE  IoInv'
<1>0. Typed /\ Never \in Nat
    BY Typing DEF IoInv
<1> USE <1>0 DEF Typed, IoInv
<1> DEFINE x == NextUnhandled
<1>a. x \in Threads
    BY NextIsListed DEF SweepCancels, Expired
<1>b. /\ pc[t] = "sweep" /\ lock[x] = Nobody /\ handled' = [handled EXCEPT ![x] = TRUE]
      /\ UNCHANGED <<until, seen, flying, deadline, inFlight, timedOut, status, completed,
                     submits, again, lock, active, closing, eventVars, gone, now>>
    BY DEF SweepCancels, Free, At, handlerVars
<1>c. \/ UNCHANGED <<asked, urb, cur, pc>>
      \/ /\ inFlight[x] /\ asked[x] = "no" /\ asked' = [asked EXCEPT ![x] = "timeout"]
         /\ \/ urb[x] # "kernel" /\ UNCHANGED <<urb, cur, pc>>
            \/ /\ urb[x] = "kernel" /\ urb' = [urb EXCEPT ![x] = "killed"]
               /\ cur' = [cur EXCEPT ![t] = [x |-> x, status |-> "none"]]
               /\ pc' = [pc EXCEPT ![t] = "mark"]
    BY DEF SweepCancels, Cancellable, Killed, Go
<1> HIDE DEF x
<1> USE <1>a, <1>b DEF eventVars
<1>d. PipeHasByte' /\ PollSetIsKnown' /\ HandlerIsActive' /\ ListIsOrdered'
    BY DEF PipeHasByte, PollSetIsKnown, HandlerIsActive, Free, ListIsOrdered
<1>1. CASE UNCHANGED <<asked, urb, cur, pc>>
  <2>1. IoTypeOK'
    BY <1>1 DEF IoTypeOK
  <2>2. /\ LocksAreHeld' /\ TransfersAreHandled' /\ CancellationsAreAsked' /\ ListIsFlying'
        /\ WaitersAreWoken' /\ ClosersAreCounted'
    BY <1>1 DEF LocksAreHeld, InCallback, At, TransfersAreHandled, Busy,
       CancellationsAreAsked, ForUser, ForTimeout, Completing, Submitting, ListIsFlying,
       WaitersAreWoken, ClosersAreCounted, Closers
  <2> QED BY <1>d, <2>1, <2>2
<1>2. CASE /\ inFlight[x] /\ asked[x] = "no" /\ asked' = [asked EXCEPT ![x] = "timeout"]
           /\ urb[x] # "kernel" /\ UNCHANGED <<urb, cur, pc>>
  <2>1. IoTypeOK'
    BY <1>2 DEF IoTypeOK
  <2>2. CancellationsAreAsked'
    BY <1>2 DEF CancellationsAreAsked, ForUser, ForTimeout, Completing, At,
       TransfersAreHandled
  <2>3. /\ LocksAreHeld' /\ TransfersAreHandled' /\ ListIsFlying'
        /\ WaitersAreWoken' /\ ClosersAreCounted'
    BY <1>2 DEF LocksAreHeld, InCallback, At, TransfersAreHandled, Busy, Completing,
       Submitting, ListIsFlying, WaitersAreWoken, ClosersAreCounted, Closers
  <2> QED BY <1>d, <2>1, <2>2, <2>3
<1>3. CASE /\ inFlight[x] /\ asked[x] = "no" /\ asked' = [asked EXCEPT ![x] = "timeout"]
           /\ urb[x] = "kernel" /\ urb' = [urb EXCEPT ![x] = "killed"]
           /\ cur' = [cur EXCEPT ![t] = [x |-> x, status |-> "none"]]
           /\ pc' = [pc EXCEPT ![t] = "mark"]
  <2>1. IoTypeOK'
    BY <1>3 DEF IoTypeOK, Places, Completions
  <2>2. LocksAreHeld'
    BY <1>3 DEF LocksAreHeld, Polls, Sweeps, Callback, Completes, InCallback, At
  <2>3. TransfersAreHandled'
    BY <1>3 DEF TransfersAreHandled, Hands, Busy, Away, Completes, InCallback
  <2>4. CancellationsAreAsked'
    BY <1>3 DEF CancellationsAreAsked, ForUser, ForTimeout, Completing, At, IoTypeOK,
       TransfersAreHandled, Completes
  <2>5. ListIsFlying'
    BY <1>3, FlyingStays
  <2>6. WaitersAreWoken' /\ ClosersAreCounted'
    <3>1. Closers' = Closers
        BY <1>3 DEF Closers
    <3> QED BY <1>3, <3>1 DEF WaitersAreWoken, At, ClosersAreCounted
  <2> QED BY <1>d, <2>1, <2>2, <2>3, <2>4, <2>5, <2>6
<1> QED BY <1>c, <1>1, <1>2, <1>3

\* The mark comes before the list is unlocked, for a transfer that was cancelled for it.
LEMMA MarkKeeps ==
    ASSUME IoAssumption, IoInv, NEW t \in Threads, Mark(t)
    PROVE  IoInv'
<1>0. Typed /\ Never \in Nat
    BY Typing DEF IoInv
<1> USE <1>0 DEF Typed, IoInv, Mark, Go, At, Forget, eventVars, handlerVars, deviceVars,
            NoTransfer
<1>1. IoTypeOK'
    BY DEF IoTypeOK, Places, Completions, SharedLocks, Never
<1>2. LocksAreHeld'
    BY DEF LocksAreHeld, Polls, Sweeps, Callback, Completes, InCallback
<1>3. TransfersAreHandled'
    BY DEF TransfersAreHandled, Hands, Busy, Away, Completes, InCallback
<1>4. CancellationsAreAsked'
    BY DEF CancellationsAreAsked, ForUser, ForTimeout, IoTypeOK, TransfersAreHandled,
       LocksAreHeld, Hands
<1>5. ListIsFlying'
    BY FlyingStays
<1>6. WaitersAreWoken'
    BY DEF WaitersAreWoken, HandlerActive, HandlerIsActive, LocksAreHeld, Polls
<1>7. ClosersAreCounted'
    BY DEF ClosersAreCounted, Closers
<1>8. /\ ListIsOrdered' /\ PipeHasByte' /\ PollSetIsKnown' /\ HandlerIsActive'
    BY DEF ListIsOrdered, PipeHasByte, PollSetIsKnown, HandlerIsActive, Free
<1> QED BY <1>1, <1>2, <1>3, <1>4, <1>5, <1>6, <1>7, <1>8

\* With the list unlocked, a thread goes back to where the events lock lets it.
LEMMA SweepEndsKeeps ==
    ASSUME IoAssumption, IoInv, NEW t \in Threads, SweepEnds(t)
    PROVE  IoInv'
<1>0. Typed /\ Never \in Nat
    BY Typing DEF IoInv
<1> USE <1>0 DEF Typed, IoInv, SweepEnds, Go, At, Give, threadVars, markVars, transferVars,
            eventVars, handlerVars, deviceVars
<1>1. IoTypeOK'
    BY DEF IoTypeOK, Places, SharedLocks
<1>2. LocksAreHeld'
    BY DEF LocksAreHeld, Polls, Callback, Completes, InCallback, SharedLocks
<1>3. TransfersAreHandled'
    BY DEF TransfersAreHandled, Hands, Busy, Away, Completes, InCallback
<1>4. CancellationsAreAsked'
    BY DEF CancellationsAreAsked, ForUser, ForTimeout, Completing
<1>5. ListIsFlying'
    BY FlyingStays
<1>6. WaitersAreWoken'
    BY DEF WaitersAreWoken, HandlerActive, HandlerIsActive, LocksAreHeld, Polls
<1>7. HandlerIsActive'
    BY DEF HandlerIsActive, Free
<1>8. ClosersAreCounted'
    BY DEF ClosersAreCounted, Closers
<1>9. /\ ListIsOrdered' /\ PipeHasByte' /\ PollSetIsKnown'
    BY DEF ListIsOrdered, PipeHasByte, PollSetIsKnown
<1> QED BY <1>1, <1>2, <1>3, <1>4, <1>5, <1>6, <1>7, <1>8, <1>9

\* A transfer that has been completed is not listed, so its timeout may be cleared.
LEMMA ReturnKeeps ==
    ASSUME IoAssumption, IoInv, NEW t \in Threads, Return(t)
    PROVE  IoInv'
<1>0. Typed /\ Never \in Nat
    BY Typing DEF IoInv
<1> USE <1>0 DEF Typed, IoInv, Return, Cleared, Go, At, threadVars, eventVars, handlerVars,
            deviceVars
<1>1. IoTypeOK'
    BY DEF IoTypeOK, Places
<1>2. LocksAreHeld'
    BY DEF LocksAreHeld, Polls, Sweeps, Callback, Completes, InCallback
<1>3. TransfersAreHandled'
    BY DEF TransfersAreHandled, Hands, Busy, Completes, InCallback
<1>4. CancellationsAreAsked'
    BY DEF CancellationsAreAsked, ForUser, ForTimeout, Completing, IoTypeOK,
       TransfersAreHandled, Completes, Busy
<1>5. ListIsOrdered'
  <2>1. t \notin ToSet(flying)
    BY DEF ListIsFlying, Submitting, TransfersAreHandled, Busy, Hands
  <2>2. flying \in Seq(Threads) /\ deadline \in [Threads -> 0..Never]
    BY DEF IoTypeOK
  <2>3. \A i \in DOMAIN flying : flying[i] \in Threads /\ flying[i] # t
    BY <2>1, <2>2 DEF ToSet
  <2>4. \A i \in DOMAIN flying : deadline'[flying[i]] = deadline[flying[i]]
    BY <2>2, <2>3
  <2> QED BY <2>4 DEF ListIsOrdered
<1>6. ListIsFlying'
    BY FlyingStays
<1>7. WaitersAreWoken'
    BY DEF WaitersAreWoken, HandlerActive, HandlerIsActive, LocksAreHeld, Polls
<1>8. ClosersAreCounted'
    BY DEF ClosersAreCounted, Closers
<1>9. /\ PipeHasByte' /\ PollSetIsKnown' /\ HandlerIsActive'
    BY DEF PipeHasByte, PollSetIsKnown, HandlerIsActive, Free
<1> QED BY <1>1, <1>2, <1>3, <1>4, <1>5, <1>6, <1>7, <1>8, <1>9

\* The timeout to wait for is one of a listed transfer.
LEMMA GetNextTimeoutKeeps ==
    ASSUME IoAssumption, IoInv, NEW t \in Threads, GetNextTimeout(t)
    PROVE  IoInv'
<1>0. Typed /\ Never \in Nat
    BY Typing DEF IoInv
<1> USE <1>0 DEF Typed, IoInv, GetNextTimeout, Entry, Go, At, Free, markVars, transferVars,
            eventVars, handlerVars, deviceVars
<1>a. until' \in [Threads -> 0..Never]
  <2>1. NextUnhandled # Nobody => deadline[NextUnhandled] \in 0..Never
    BY NextIsListed DEF IoTypeOK
  <2> QED BY <2>1 DEF IoTypeOK
<1>1. IoTypeOK'
    BY <1>a DEF IoTypeOK, Places
<1>2. LocksAreHeld'
    BY DEF LocksAreHeld, Polls, Sweeps, Callback, Completes, InCallback
<1>3. TransfersAreHandled'
    BY DEF TransfersAreHandled, Hands, Busy, Away, Completes, InCallback
<1>4. CancellationsAreAsked'
    BY DEF CancellationsAreAsked, ForUser, ForTimeout, LocksAreHeld
<1>5. ListIsFlying'
    BY FlyingStays
<1>6. WaitersAreWoken'
    BY DEF WaitersAreWoken, HandlerActive, HandlerIsActive, LocksAreHeld, Polls
<1>7. ClosersAreCounted'
    BY DEF ClosersAreCounted, Closers
<1>8. /\ ListIsOrdered' /\ PipeHasByte' /\ PollSetIsKnown' /\ HandlerIsActive'
    BY DEF ListIsOrdered, PipeHasByte, PollSetIsKnown, HandlerIsActive
<1> QED BY <1>1, <1>2, <1>3, <1>4, <1>5, <1>6, <1>7, <1>8

\* The new poll set is that of the sources, and the flag that asked for it is lowered.
LEMMA TryLockKeeps ==
    ASSUME IoAssumption, IoInv, NEW t \in Threads, TryLock(t)
    PROVE  IoInv'
<1>0. Typed /\ Never \in Nat
    BY Typing DEF IoInv
<1> USE <1>0 DEF Typed, IoInv, TryLock, AllocEventData, Go, At, Free, Take, markVars,
            transferVars, eventVars, deviceVars
<1>a. /\ flags' \subseteq {"sources", "interrupt", "close"} /\ pipe' \in {0, 1}
      /\ PipeHasByte' /\ ("close" \in flags' <=> "close" \in flags)
  <2>1. CASE flags' = flags /\ pipe' = pipe
    BY <2>1 DEF IoTypeOK, PipeHasByte
  <2>2. CASE Lower({"sources"}) /\ "sources" \in flags
    BY <2>2, LowerKeepsByte
  <2> QED BY <2>1, <2>2
<1>b. polled' \subseteq Threads /\ until' \in [Threads -> 0..Never] /\ active' \in BOOLEAN
  <2>1. polled' \subseteq Threads /\ active' \in BOOLEAN
    BY DEF IoTypeOK
  <2>2. until' = until \/ until' = [until EXCEPT ![t] = Never]
    OBVIOUS
  <2>3. until \in [Threads -> 0..Never] /\ Never \in 0..Never
    BY DEF IoTypeOK
  <2> HIDE DEF TryLock
  <2> QED BY <2>1, <2>2, <2>3
<1>c. \/ pc' = [pc EXCEPT ![t] = "wait"] /\ lock' = lock
      \/ /\ lock["events_lock"] = Nobody /\ lock' = [lock EXCEPT !["events_lock"] = t]
         /\ pc' = [pc EXCEPT ![t] = "unlock"] \/ pc' = [pc EXCEPT ![t] = "poll"]
    OBVIOUS
<1>d. pc' \in [Threads -> Places] /\ lock' \in [SharedLocks \cup Threads -> Threads \cup {Nobody}]
  <2>1. "events_lock" \in SharedLocks /\ {"wait", "unlock", "poll"} \subseteq Places
    BY DEF SharedLocks, Places
  <2> HIDE DEF TryLock
  <2> QED BY <1>c, <2>1
<1>1. IoTypeOK'
    BY <1>a, <1>b, <1>d DEF IoTypeOK
<1>2. LocksAreHeld'
  <2>1. pc[t] = "trylock" /\ UNCHANGED <<cur>>
    OBVIOUS
  <2> HIDE DEF TryLock
  <2>2. CASE pc' = [pc EXCEPT ![t] = "wait"] /\ lock' = lock
    BY <2>1, <2>2 DEF LocksAreHeld, Polls, Sweeps, Callback, Completes, InCallback, At,
       TransfersAreHandled, Hands, SharedLocks, Places
  <2>3. CASE /\ lock["events_lock"] = Nobody /\ lock' = [lock EXCEPT !["events_lock"] = t]
             /\ pc' = [pc EXCEPT ![t] = "unlock"]
    BY <2>1, <2>3 DEF LocksAreHeld, Polls, Callback, Completes, InCallback, SharedLocks
  <2>4. CASE /\ lock["events_lock"] = Nobody /\ lock' = [lock EXCEPT !["events_lock"] = t]
             /\ pc' = [pc EXCEPT ![t] = "poll"]
    BY <2>1, <2>4 DEF LocksAreHeld, Polls, Callback, Completes, InCallback, SharedLocks
  <2> QED BY <1>c, <2>2, <2>3, <2>4
<1>3. TransfersAreHandled'
  <2>1. pc[t] = "trylock" /\ UNCHANGED <<seen, cur, inFlight, completed, urb, gone>>
    OBVIOUS
  <2> HIDE DEF TryLock
  <2>2. CASE pc' = [pc EXCEPT ![t] = "wait"] /\ lock' = lock
    BY <2>1, <2>2 DEF TransfersAreHandled, Hands, Busy, Away, Completes, InCallback,
       LocksAreHeld, IoTypeOK, Callback, Places, SharedLocks
  <2>3. CASE /\ lock["events_lock"] = Nobody /\ lock' = [lock EXCEPT !["events_lock"] = t]
             /\ pc' = [pc EXCEPT ![t] = "unlock"]
    BY <2>1, <2>3 DEF TransfersAreHandled, Hands, Busy, Away, Completes, InCallback
  <2>4. CASE /\ lock["events_lock"] = Nobody /\ lock' = [lock EXCEPT !["events_lock"] = t]
             /\ pc' = [pc EXCEPT ![t] = "poll"]
    BY <2>1, <2>4 DEF TransfersAreHandled, Hands, Busy, Away, Completes, InCallback
  <2> QED BY <1>c, <2>2, <2>3, <2>4
<1>4. CancellationsAreAsked'
    BY DEF CancellationsAreAsked, ForUser, ForTimeout, Completing, IoTypeOK,
       TransfersAreHandled, LocksAreHeld, Hands, Completes, Busy, SharedLocks
<1>5. ListIsFlying'
    BY FlyingStays
<1>6. PipeHasByte'
    BY <1>a
<1>7. WaitersAreWoken'
    BY DEF WaitersAreWoken, HandlerActive, HandlerIsActive, LocksAreHeld, Polls
<1>8. PollSetIsKnown'
    BY DEF PollSetIsKnown, AddSource, RemoveSource, HandleEventTrigger
<1>9. HandlerIsActive'
    BY DEF HandlerIsActive, SharedLocks
<1>10. ClosersAreCounted'
  <2>1. Closers' = Closers /\ closing' = closing
    BY DEF Closers
  <2> QED BY <1>a, <2>1 DEF ClosersAreCounted
<1>11. ListIsOrdered'
    BY DEF ListIsOrdered
<1> QED BY <1>1, <1>2, <1>3, <1>4, <1>5, <1>6, <1>7, <1>8, <1>9, <1>10, <1>11

\* Reading the event lowers the flag of an interruption only, and not the last byte's.
LEMMA PollKeeps ==
    ASSUME IoAssumption, IoInv, NEW t \in Threads, Poll(t)
    PROVE  IoInv'
<1>0. Typed /\ Never \in Nat
    BY Typing DEF IoInv
<1> USE <1>0 DEF Typed, IoInv, Poll, Ready, Completions, Go, At, markVars, transferVars,
            handlerVars, deviceVars
<1>a. /\ flags' \subseteq {"sources", "interrupt", "close"} /\ pipe' \in {0, 1}
      /\ PipeHasByte' /\ ("close" \in flags' <=> "close" \in flags)
  <2>1. CASE flags' = flags /\ pipe' = pipe
    BY <2>1 DEF IoTypeOK, PipeHasByte
  <2>2. CASE Lower({"interrupt"}) /\ pipe > 0
    BY <2>2, LowerKeepsByte DEF PipeHasByte
  <2> QED BY <2>1, <2>2 DEF HandleEventTrigger
<1>b. /\ seen' \in [Threads -> [ready : SUBSET Threads, error : BOOLEAN]]
      /\ \A u \in Threads : seen'[u].error => gone
  <2>1. Ready \subseteq Threads /\ (gone /\ Ready # {}) \in BOOLEAN
    BY DEF IoTypeOK
  <2> DEFINE p == [ready |-> Ready, error |-> gone /\ Ready # {}]
  <2>2. seen' = seen \/ seen' = [seen EXCEPT ![t] = p]
    OBVIOUS
  <2>3. p \in [ready : SUBSET Threads, error : BOOLEAN] /\ (p.error => gone)
    BY <2>1
  <2>4. /\ seen \in [Threads -> [ready : SUBSET Threads, error : BOOLEAN]]
        /\ \A u \in Threads : seen[u].error => gone
    BY DEF IoTypeOK, TransfersAreHandled
  <2> HIDE DEF p, Poll, Ready
  <2> QED BY <2>2, <2>3, <2>4
<1> HIDE DEF Ready
<1>c. \E p \in {"unlock", "devs", "timeouts"} : pc' = [pc EXCEPT ![t] = p]
    OBVIOUS
<1>1. IoTypeOK'
  <2>1. until' \in [Threads -> 0..Never] /\ pc' \in [Threads -> Places]
    BY <1>c DEF IoTypeOK, IoAssumption, Never, Places
  <2> QED BY <1>a, <1>b, <2>1 DEF IoTypeOK
<1>2. LocksAreHeld'
    BY DEF LocksAreHeld, Polls, Sweeps, Callback, Completes, InCallback
<1>3. TransfersAreHandled'
    BY <1>b, <1>c DEF TransfersAreHandled, Hands, Busy, Away, Completes, InCallback, Callback,
       Places
<1>4. CancellationsAreAsked'
    BY <1>b, <1>c DEF CancellationsAreAsked, ForUser, ForTimeout, Completing,
       TransfersAreHandled, LocksAreHeld, Hands, SharedLocks
<1>5. ListIsFlying'
    BY FlyingStays
<1>6. PipeHasByte'
    BY <1>a
<1>7. WaitersAreWoken'
    BY DEF WaitersAreWoken, HandlerActive, HandlerIsActive, LocksAreHeld, Polls
<1>8. PollSetIsKnown'
    BY DEF PollSetIsKnown, Raise, Lower, AddSource, RemoveSource, HandleEventTrigger
<1>9. ClosersAreCounted'
  <2>1. Closers' = Closers /\ closing' = closing
    BY DEF Closers
  <2> QED BY <1>a, <2>1 DEF ClosersAreCounted
<1>10. /\ ListIsOrdered' /\ HandlerIsActive'
    BY DEF ListIsOrdered, HandlerIsActive, Free
<1> QED BY <1>1, <1>2, <1>3, <1>4, <1>5, <1>6, <1>7, <1>8, <1>9, <1>10

\* The list of open handles is locked while their descriptors are looked at.
LEMMA LockDevicesKeeps ==
    ASSUME IoAssumption, IoInv, NEW t \in Threads, LockDevices(t)
    PROVE  IoInv'
<1>0. Typed /\ Never \in Nat
    BY Typing DEF IoInv
<1> USE <1>0 DEF Typed, IoInv, LockDevices, Go, At, Free, Take, threadVars, markVars,
            transferVars, eventVars, handlerVars, deviceVars
<1>1. IoTypeOK'
    BY DEF IoTypeOK, Places, SharedLocks
<1>2. LocksAreHeld'
    BY DEF LocksAreHeld, Polls, Callback, InCallback, SharedLocks
<1>3. TransfersAreHandled'
    BY DEF TransfersAreHandled, Hands, Busy, Away, Completes, InCallback
<1>4. CancellationsAreAsked'
    BY DEF CancellationsAreAsked, ForUser, ForTimeout, Completing
<1>5. ListIsFlying'
    BY FlyingStays
<1>6. WaitersAreWoken'
    BY DEF WaitersAreWoken, HandlerActive, HandlerIsActive, LocksAreHeld, Polls
<1>7. HandlerIsActive'
    BY DEF HandlerIsActive
<1>8. ClosersAreCounted'
    BY DEF ClosersAreCounted, Closers
<1>9. /\ ListIsOrdered' /\ PipeHasByte' /\ PollSetIsKnown'
    BY DEF ListIsOrdered, PipeHasByte, PollSetIsKnown
<1> QED BY <1>1, <1>2, <1>3, <1>4, <1>5, <1>6, <1>7, <1>8, <1>9

\* A descriptor that leaves the sources has the flag raised.
LEMMA PollErrorKeeps ==
    ASSUME IoAssumption, IoInv, NEW t \in Threads, NEW h \in Threads, PollError(t, h)
    PROVE  IoInv'
<1>0. Typed /\ Never \in Nat
    BY Typing DEF IoInv
<1> USE <1>0 DEF Typed, IoInv, PollError, RemoveSource, At, threadVars, markVars, transferVars,
            handlerVars, deviceVars
<1>a. /\ flags' \subseteq {"sources", "interrupt", "close"} /\ pipe' \in {0, 1}
      /\ PipeHasByte' /\ ("close" \in flags' <=> "close" \in flags)
    BY RaiseKeepsByte
<1>1. IoTypeOK'
    BY <1>a DEF IoTypeOK, Places
<1>2. PipeHasByte'
    BY <1>a
<1>3. PollSetIsKnown'
    BY DEF PollSetIsKnown, Raise, Lower, AddSource, HandleEventTrigger
<1>4. ClosersAreCounted'
  <2>1. Closers' = Closers /\ closing' = closing
    BY DEF Closers
  <2> QED BY <1>a, <2>1 DEF ClosersAreCounted
<1>5. /\ LocksAreHeld' /\ TransfersAreHandled' /\ CancellationsAreAsked' /\ ListIsOrdered'
      /\ ListIsFlying' /\ WaitersAreWoken' /\ HandlerIsActive'
    BY DEF LocksAreHeld, InCallback, TransfersAreHandled, Busy, CancellationsAreAsked,
       ForUser, ForTimeout, Completing, ListIsOrdered, ListIsFlying, Submitting,
       WaitersAreWoken, HandlerIsActive, Free
<1> QED BY <1>1, <1>2, <1>3, <1>4, <1>5

\* What is reaped was in flight and in nobody's hands; a killed one was cancelled.
LEMMA ReapKeeps ==
    ASSUME IoAssumption, IoInv, NEW t \in Threads, NEW h \in Threads, Reap(t, h)
    PROVE  IoInv'
<1>0. Typed /\ Never \in Nat
    BY Typing DEF IoInv
<1> USE <1>0 DEF Typed, IoInv, Reap, Handling, Completions, Go, At, markVars, transferVars,
            eventVars, handlerVars
<1>1. IoTypeOK'
  <2>1. Result(h) \in Transfer!Statuses \cup {"none", "killed"}
    BY DEF Result, Transfer!Statuses
  <2> QED BY <2>1 DEF IoTypeOK, Places
<1>2. LocksAreHeld'
    BY DEF LocksAreHeld, Polls, Callback, Completes, InCallback
<1>3. TransfersAreHandled'
    BY DEF TransfersAreHandled, Hands, Busy, Away, InCallback, IoTypeOK
<1>4. CancellationsAreAsked'
  <2>1. /\ Result(h) \in {"completed", "no_device", "killed"}
        /\ Result(h) = "killed" <=> urb[h] = "killed"
    BY DEF Result
  <2>2. "completed" \in Transfer!Statuses /\ "no_device" \in Transfer!Statuses
    BY DEF Transfer!Statuses
  <2>3. /\ cur'[t].x = h /\ cur'[t].status = Result(h)
        /\ pc[t] = "reap" /\ pc'[t] = IF urb[h] = "killed" THEN "cancelled" ELSE "complete"
        /\ \A u \in Threads \ {t} : pc'[u] = pc[u] /\ cur'[u] = cur[u]
    OBVIOUS
  <2>4. /\ \A x \in Threads : urb'[x] = "killed" => urb[x] = "killed"
        /\ UNCHANGED <<asked, timedOut, inFlight, status>>
    BY DEF IoTypeOK
  <2>5. urb[h] = "killed" => ForUser(h) \/ ForTimeout(h)
    BY DEF CancellationsAreAsked
  <2> HIDE DEF Reap, Result
  <2> QED BY <2>1, <2>2, <2>3, <2>4, <2>5, CancellationsStay
<1>5. ListIsFlying'
    BY FlyingStays
<1>6. WaitersAreWoken'
    BY DEF WaitersAreWoken, HandlerActive, HandlerIsActive, LocksAreHeld, Polls
<1>7. ClosersAreCounted'
    BY DEF ClosersAreCounted, Closers
<1>8. /\ ListIsOrdered' /\ PipeHasByte' /\ PollSetIsKnown' /\ HandlerIsActive'
    BY DEF ListIsOrdered, PipeHasByte, PollSetIsKnown, HandlerIsActive, Free
<1> QED BY <1>1, <1>2, <1>3, <1>4, <1>5, <1>6, <1>7, <1>8

\* Nothing is left to reap of a transfer that goes with its device.
LEMMA ReapedKeeps ==
    ASSUME IoAssumption, IoInv, NEW t \in Threads, NEW h \in Threads, Reaped(t, h)
    PROVE  IoInv'
<1>0. Typed /\ Never \in Nat
    BY Typing DEF IoInv
<1> USE <1>0 DEF Typed, IoInv
<1>a. /\ pc[t] = "reap" /\ urb[h] \notin Completions /\ h \in Threads
      /\ UNCHANGED <<until, transferVars, lock, handlerVars, eventVars, deviceVars, now>>
    BY DEF Reaped, Handling, At
<1>1. CASE seen[t].error /\ inFlight[h]
  <2>1. /\ lock["flying_transfers_lock"] = Nobody /\ lock[h] = Nobody /\ seen' = seen
        /\ cur' = [cur EXCEPT ![t] = [x |-> h, status |-> "no_device"]]
        /\ pc' = [pc EXCEPT ![t] = "complete"]
    BY <1>1 DEF Reaped, Go, Free
  <2>2. "no_device" \in Transfer!Statuses
    BY DEF Transfer!Statuses
  <2>3. urb[h] = "none"
    BY <1>1, <1>a DEF TransfersAreHandled, IoTypeOK
  <2> USE <1>1, <1>a, <2>1, <2>2, <2>3
      DEF transferVars, markVars, eventVars, handlerVars, deviceVars
  <2>4. IoTypeOK'
    BY DEF IoTypeOK, Places
  <2>5. LocksAreHeld'
    BY DEF LocksAreHeld, Polls, Callback, Completes, InCallback, At
  <2>6. TransfersAreHandled'
    BY DEF TransfersAreHandled, LocksAreHeld, Hands, Busy, Away
  <2>7. CancellationsAreAsked'
    BY CancellationsStay
  <2>8. ListIsFlying'
    BY FlyingStays
  <2>9. ClosersAreCounted' /\ WaitersAreWoken'
    <3>1. Closers' = Closers
        BY DEF Closers
    <3> QED BY <3>1 DEF ClosersAreCounted, WaitersAreWoken, At
  <2>10. ListIsOrdered' /\ PipeHasByte' /\ PollSetIsKnown' /\ HandlerIsActive'
    BY DEF ListIsOrdered, PipeHasByte, PollSetIsKnown, HandlerIsActive, Free
  <2> QED BY <2>4, <2>5, <2>6, <2>7, <2>8, <2>9, <2>10
<1>2. CASE ~(seen[t].error /\ inFlight[h])
  <2>1. seen' = [seen EXCEPT ![t].ready = @ \ {h}] /\ UNCHANGED <<pc, cur>>
    BY <1>2 DEF Reaped
  <2>2. /\ seen' \in [Threads -> [ready : SUBSET Threads, error : BOOLEAN]]
        /\ \A u \in Threads : seen'[u].error = seen[u].error
    <3>1. /\ seen \in [Threads -> [ready : SUBSET Threads, error : BOOLEAN]]
          /\ seen' = [seen EXCEPT ![t] = [seen[t] EXCEPT !.ready = @ \ {h}]]
        BY <2>1 DEF IoTypeOK
    <3> DEFINE p == [seen[t] EXCEPT !.ready = @ \ {h}]
    <3>2. p \in [ready : SUBSET Threads, error : BOOLEAN] /\ p.error = seen[t].error
        BY <3>1
    <3>3. seen' = [seen EXCEPT ![t] = p]
        BY <3>1
    <3> HIDE DEF p
    <3> QED BY <3>1, <3>2, <3>3
  <2> USE <1>a, <2>1 DEF transferVars, markVars, eventVars, handlerVars, deviceVars
  <2>3. IoTypeOK'
    BY <2>2 DEF IoTypeOK
  <2>4. TransfersAreHandled'
    BY <2>2 DEF TransfersAreHandled, Busy, InCallback
  <2>5. /\ LocksAreHeld' /\ CancellationsAreAsked' /\ ListIsOrdered' /\ ListIsFlying'
        /\ PipeHasByte' /\ WaitersAreWoken' /\ PollSetIsKnown' /\ HandlerIsActive'
        /\ ClosersAreCounted'
    BY DEF LocksAreHeld, InCallback, At, CancellationsAreAsked, ForUser, ForTimeout,
       Completing, Submitting, ListIsOrdered, ListIsFlying, PipeHasByte, WaitersAreWoken,
       PollSetIsKnown, HandlerIsActive, Free, ClosersAreCounted, Closers
  <2> QED BY <2>3, <2>4, <2>5
<1> QED BY <1>1, <1>2

\* The list of open handles is unlocked when all that was reported is handled.
LEMMA ReapEndsKeeps ==
    ASSUME IoAssumption, IoInv, NEW t \in Threads, ReapEnds(t)
    PROVE  IoInv'
<1>0. Typed /\ Never \in Nat
    BY Typing DEF IoInv
<1> USE <1>0 DEF Typed, IoInv, ReapEnds, Go, At, Give, markVars, transferVars, eventVars,
            handlerVars, deviceVars, NoPoll
<1>1. IoTypeOK'
    BY DEF IoTypeOK, Places, SharedLocks
<1>2. LocksAreHeld'
    BY DEF LocksAreHeld, Polls, Callback, Completes, InCallback, SharedLocks
<1>3. TransfersAreHandled'
    BY DEF TransfersAreHandled, Hands, Busy, Away, Completes, InCallback
<1>4. CancellationsAreAsked'
    BY DEF CancellationsAreAsked, ForUser, ForTimeout, Completing, LocksAreHeld, Completes
<1>5. ListIsFlying'
    BY FlyingStays
<1>6. WaitersAreWoken'
    BY DEF WaitersAreWoken, HandlerActive, HandlerIsActive, LocksAreHeld, Polls
<1>7. HandlerIsActive'
    BY DEF HandlerIsActive, Free
<1>8. ClosersAreCounted'
    BY DEF ClosersAreCounted, Closers
<1>9. /\ ListIsOrdered' /\ PipeHasByte' /\ PollSetIsKnown'
    BY DEF ListIsOrdered, PipeHasByte, PollSetIsKnown
<1> QED BY <1>1, <1>2, <1>3, <1>4, <1>5, <1>6, <1>7, <1>8, <1>9

\* With the list unlocked, whoever cancelled the transfer has said why.
LEMMA HandleCancellationKeeps ==
    ASSUME IoAssumption, IoInv, NEW t \in Threads, HandleCancellation(t)
    PROVE  IoInv'
<1>0. Typed /\ Never \in Nat
    BY Typing DEF IoInv
<1> USE <1>0 DEF Typed, IoInv, HandleCancellation, Go, At, Free, markVars, transferVars,
            eventVars, handlerVars, deviceVars
<1>a. /\ pc[t] = "cancelled" /\ pc'[t] = "complete" /\ cur'[t].x = cur[t].x /\ cur[t].x \in Threads
      /\ cur'[t].status = IF timedOut[cur[t].x] THEN "timed_out" ELSE "cancelled"
      /\ \A u \in Threads \ {t} : pc'[u] = pc[u] /\ cur'[u] = cur[u]
    BY DEF TransfersAreHandled, Hands, Completes
<1>1. IoTypeOK'
  <2>1. {"timed_out", "cancelled"} \subseteq Transfer!Statuses
    BY DEF Transfer!Statuses
  <2> QED BY <2>1 DEF IoTypeOK, Places
<1>2. LocksAreHeld'
    BY DEF LocksAreHeld, Polls, Callback, Completes, InCallback
<1>3. TransfersAreHandled'
    BY DEF TransfersAreHandled, Hands, Busy, Away, Completes, InCallback, SharedLocks
<1>4. CancellationsAreAsked'
  <2>1. {"timed_out", "cancelled"} \subseteq Transfer!Statuses
    BY DEF Transfer!Statuses
  <2>2. timedOut[cur[t].x] => asked[cur[t].x] = "timeout"
    BY <1>a DEF CancellationsAreAsked
  <2>3. ~timedOut[cur[t].x] => ForUser(cur[t].x)
    <3>1. \A u \in Threads : pc[u] # "mark"
        BY DEF LocksAreHeld
    <3>2. ForUser(cur[t].x) \/ ForTimeout(cur[t].x)
        BY <1>a DEF CancellationsAreAsked
    <3> QED BY <3>1, <3>2 DEF ForTimeout
  <2> QED BY <1>a, <2>1, <2>2, <2>3, CancellationsStay
<1>5. ListIsFlying'
    BY FlyingStays
<1>6. WaitersAreWoken'
    BY DEF WaitersAreWoken, HandlerActive, HandlerIsActive, LocksAreHeld, Polls
<1>7. ClosersAreCounted'
    BY DEF ClosersAreCounted, Closers
<1>8. /\ ListIsOrdered' /\ PipeHasByte' /\ PollSetIsKnown' /\ HandlerIsActive'
    BY DEF ListIsOrdered, PipeHasByte, PollSetIsKnown, HandlerIsActive
<1> QED BY <1>1, <1>2, <1>3, <1>4, <1>5, <1>6, <1>7, <1>8

\* A transfer that is completed is listed until now.
LEMMA HandleCompletionKeeps ==
    ASSUME IoAssumption, IoInv, NEW t \in Threads, HandleCompletion(t)
    PROVE  IoInv'
<1>0. Typed /\ Never \in Nat
    BY Typing DEF IoInv
<1> USE <1>0 DEF Typed, IoInv, HandleCompletion, Go, At, Free, threadVars, markVars, eventVars,
            handlerVars, deviceVars
<1>a. cur[t].x \in Threads /\ inFlight[cur[t].x] /\ ~Submitting(cur[t].x)
    BY DEF TransfersAreHandled, Hands, Completes, Submitting
<1>b. /\ flying' \in Seq(Threads) /\ ListIsOrdered'
      /\ \A y \in Threads : y \in ToSet(flying') <=> y \in ToSet(flying) /\ y # cur[t].x
  <2>1. deadline' = deadline /\ deadline \in [Threads -> 0..Never] /\ RemoveFromFlyingList(cur[t].x)
    BY DEF IoTypeOK
  <2> HIDE DEF HandleCompletion
  <2> QED BY <1>a, <2>1, RemovalKeepsOrder
<1>1. IoTypeOK'
    BY <1>b DEF IoTypeOK, Places
<1>2. LocksAreHeld'
    BY DEF LocksAreHeld, Polls, Callback, Completes, InCallback
<1>3. TransfersAreHandled'
    BY DEF TransfersAreHandled, Hands, Busy, Away, Completes, InCallback
<1>4. CancellationsAreAsked'
    BY DEF CancellationsAreAsked, ForUser, ForTimeout, LocksAreHeld
<1>5. ListIsOrdered'
    BY <1>b
<1>6. ListIsFlying'
  <2>1. ASSUME NEW y \in Threads
        PROVE  /\ Submitting(y)' <=> Submitting(y)
               /\ Completing(y)' <=> Completing(y) \/ y = cur[t].x
    BY DEF Completing, Submitting
  <2>2. UNCHANGED inFlight
    OBVIOUS
  <2> HIDE DEF HandleCompletion
  <2> QED BY <1>a, <1>b, <2>1, <2>2 DEF ListIsFlying
<1>7. WaitersAreWoken'
    BY DEF WaitersAreWoken
<1>8. ClosersAreCounted'
    BY DEF ClosersAreCounted, Closers
<1>9. /\ PipeHasByte' /\ PollSetIsKnown' /\ HandlerIsActive'
    BY DEF PipeHasByte, PollSetIsKnown, HandlerIsActive
<1> QED BY <1>1, <1>2, <1>3, <1>4, <1>5, <1>6, <1>7, <1>8, <1>9

\* A transfer that lands is in nobody's hands, unless its callback submits it again.
LEMMA LandKeeps ==
    ASSUME IoAssumption, IoInv, NEW t \in Threads, Land(t)
    PROVE  IoInv'
<1>0. Typed /\ Never \in Nat
    BY Typing DEF IoInv
<1> USE <1>0 DEF Typed, IoInv
<1> DEFINE x == cur[t].x
<1>a. /\ pc[t] = "land" /\ x \in Threads /\ lock[x] = Nobody
      /\ lock["event_waiters_lock"] = Nobody /\ inFlight[x] /\ cur[t].status \in Transfer!Statuses
    BY DEF Land, At, Free, TransfersAreHandled, Hands, Completes, CancellationsAreAsked
<1>b. /\ inFlight' = [inFlight EXCEPT ![x] = FALSE]
      /\ status' = [status EXCEPT ![x] = cur[t].status]
      /\ UNCHANGED <<until, seen, flying, deadline, asked, handled, timedOut, again,
                     active, closing, eventVars, urb, gone, now>>
    BY DEF Land, handlerVars, deviceVars, markVars
<1>c. \/ /\ completed' = [completed EXCEPT ![x] = TRUE] /\ pc' = [pc EXCEPT ![t] = "reap"]
         /\ cur' = [cur EXCEPT ![t] = NoTransfer] /\ UNCHANGED <<lock, submits>>
      \/ /\ lock' = [lock EXCEPT !["event_waiters_lock"] = t] /\ UNCHANGED cur
         /\ \/ /\ submits < MaxSubmits /\ submits' = submits + 1
               /\ pc' = [pc EXCEPT ![t] = "again"] /\ UNCHANGED completed
            \/ /\ completed' = [completed EXCEPT ![x] = TRUE] /\ pc' = [pc EXCEPT ![t] = "shut"]
               /\ UNCHANGED submits
    BY DEF Land, Go, Forget
<1> HIDE DEF x
<1>e. cur[t].x = x
    BY DEF x
<1> USE <1>a, <1>b, <1>e DEF eventVars
<1>d. PipeHasByte' /\ PollSetIsKnown' /\ ListIsOrdered' /\ x \in Threads
    BY DEF PipeHasByte, PollSetIsKnown, ListIsOrdered
<1>f. ASSUME pc'[t] \in {"reap", "again", "shut"},
             \A u \in Threads \ {t} : pc'[u] = pc[u] /\ cur'[u] = cur[u]
      PROVE  CancellationsAreAsked'
  <2>1. \A y \in Threads : (ForUser(y)' <=> ForUser(y)) /\ (ForTimeout(y)' <=> ForTimeout(y))
    BY <1>f, ReasonsStay
  <2>2. \A y \in Threads : Completing(y)' => Completing(y)
    BY <1>f DEF Completing
  <2>3. /\ \A y \in Threads : timedOut'[y] => asked'[y] = "timeout"
        /\ \A y \in Threads : urb'[y] = "killed" => ForUser(y)' \/ ForTimeout(y)'
    BY <2>1 DEF CancellationsAreAsked
  <2>4. /\ Completing(x)
        /\ \A y \in Threads : y # x => inFlight'[y] = inFlight[y] /\ status'[y] = status[y]
    BY DEF Completing
  <2>5. ASSUME NEW u \in Threads \ {t}
        PROVE  /\ At(u, "backend")' => asked'[cur'[u].x] = "no" /\ status'[cur'[u].x] = "none"
               /\ At(u, "mark")' => /\ asked'[cur'[u].x] = "timeout" /\ inFlight'[cur'[u].x]
                                    /\ ~Completing(cur[u].x)'
               /\ At(u, "cancelled")' => ForUser(cur[u].x)' \/ ForTimeout(cur[u].x)'
               /\ pc'[u] \in {"complete", "land"} =>
                    /\ cur'[u].status \in Transfer!Statuses
                    /\ cur'[u].status = "cancelled" => ForUser(cur[u].x)'
                    /\ cur'[u].status = "timed_out" => asked'[cur'[u].x] = "timeout"
    <3>1. /\ pc[u] \in {"mark", "backend", "cancelled", "complete", "land"} => cur[u].x \in Threads
          /\ pc[u] = "backend" => cur[u].x # x
        BY DEF TransfersAreHandled, Hands, Completes
    <3>2. pc'[u] = pc[u] /\ cur'[u] = cur[u]
        BY <1>f
    <3> QED BY <2>1, <2>2, <2>4, <3>1, <3>2 DEF CancellationsAreAsked, At
  <2>6. \A u \in Threads \ {t} : cur'[u] = cur[u]
    BY <1>f
  <2> QED BY <1>f, <2>3, <2>5, <2>6 DEF CancellationsAreAsked, At, ForUser, ForTimeout,
             Completing
<1>1. CASE /\ completed' = [completed EXCEPT ![x] = TRUE] /\ pc' = [pc EXCEPT ![t] = "reap"]
           /\ cur' = [cur EXCEPT ![t] = NoTransfer] /\ UNCHANGED <<lock, submits>>
  <2>1. IoTypeOK'
    BY <1>1 DEF IoTypeOK, Places, NoTransfer, IoAssumption
  <2>2. LocksAreHeld'
    BY <1>1 DEF LocksAreHeld, Polls, Callback, Completes, InCallback, At
  <2>3. TransfersAreHandled'
    BY <1>1 DEF TransfersAreHandled, Hands, Busy, Away, Completes, InCallback, IoTypeOK
  <2>4. CancellationsAreAsked'
    BY <1>1, <1>f
  <2>5. ListIsFlying'
    <3>1. ASSUME NEW y \in Threads
          PROVE  /\ Submitting(y)' <=> Submitting(y)
                 /\ Completing(y)' <=> Completing(y) /\ y # x
        BY <1>1 DEF Submitting, Completing, TransfersAreHandled, Hands, Completes, NoTransfer
    <3>2. ~Submitting(x) /\ Completing(x)
        BY DEF Submitting, Completing, TransfersAreHandled
    <3> QED BY <3>1, <3>2 DEF ListIsFlying, IoTypeOK
  <2>6. WaitersAreWoken' /\ ClosersAreCounted' /\ HandlerIsActive'
    <3>1. Closers' = Closers
        BY <1>1 DEF Closers
    <3>2. lock'["events_lock"] = lock["events_lock"]
        BY <1>1
    <3> QED BY <1>1, <3>1, <3>2 DEF WaitersAreWoken, At, ClosersAreCounted, HandlerIsActive,
               Free
  <2> QED BY <1>d, <2>1, <2>2, <2>3, <2>4, <2>5, <2>6
<1>2. CASE /\ lock' = [lock EXCEPT !["event_waiters_lock"] = t] /\ UNCHANGED cur
           /\ submits < MaxSubmits /\ submits' = submits + 1
           /\ pc' = [pc EXCEPT ![t] = "again"] /\ UNCHANGED completed
  <2>1. IoTypeOK'
    <3>1. submits' \in 0..MaxSubmits
        BY <1>2 DEF IoTypeOK, IoAssumption
    <3> QED BY <1>2, <3>1 DEF IoTypeOK, Places
  <2>2. LocksAreHeld'
    BY <1>2 DEF LocksAreHeld, Polls, Callback, Completes, InCallback, At, SharedLocks,
       NoTransfer
  <2>3. TransfersAreHandled'
    BY <1>2 DEF TransfersAreHandled, Hands, Busy, Away, Completes, InCallback, IoTypeOK,
       NoTransfer
  <2>4. CancellationsAreAsked'
    BY <1>2, <1>f
  <2>5. ListIsFlying'
    <3>1. ASSUME NEW y \in Threads
          PROVE  /\ Submitting(y)' <=> Submitting(y)
                 /\ Completing(y)' <=> Completing(y) /\ y # x
        BY <1>2 DEF Submitting, Completing, TransfersAreHandled, Hands, Completes, NoTransfer
    <3>2. ~Submitting(x) /\ Completing(x)
        BY DEF Submitting, Completing, TransfersAreHandled
    <3> QED BY <3>1, <3>2 DEF ListIsFlying, IoTypeOK
  <2>6. WaitersAreWoken' /\ ClosersAreCounted' /\ HandlerIsActive'
    <3>1. Closers' = Closers
        BY <1>2 DEF Closers
    <3>2. lock'["events_lock"] = lock["events_lock"]
        BY <1>2
    <3> QED BY <1>2, <3>1, <3>2 DEF WaitersAreWoken, At, ClosersAreCounted, HandlerIsActive,
               Free
  <2> QED BY <1>d, <2>1, <2>2, <2>3, <2>4, <2>5, <2>6
<1>3. CASE /\ lock' = [lock EXCEPT !["event_waiters_lock"] = t] /\ UNCHANGED cur
           /\ completed' = [completed EXCEPT ![x] = TRUE] /\ pc' = [pc EXCEPT ![t] = "shut"]
           /\ UNCHANGED submits
  <2>1. IoTypeOK'
    BY <1>3 DEF IoTypeOK, Places, NoTransfer, IoAssumption
  <2>2. LocksAreHeld'
    BY <1>3 DEF LocksAreHeld, Polls, Callback, Completes, InCallback, At, SharedLocks,
       NoTransfer
  <2>3. TransfersAreHandled'
    BY <1>3 DEF TransfersAreHandled, Hands, Busy, Away, Completes, InCallback, IoTypeOK,
       NoTransfer
  <2>4. CancellationsAreAsked'
    BY <1>3, <1>f
  <2>5. ListIsFlying'
    <3>1. ASSUME NEW y \in Threads
          PROVE  /\ Submitting(y)' <=> Submitting(y)
                 /\ Completing(y)' <=> Completing(y) /\ y # x
        BY <1>3 DEF Submitting, Completing, TransfersAreHandled, Hands, Completes, NoTransfer
    <3>2. ~Submitting(x) /\ Completing(x)
        BY DEF Submitting, Completing, TransfersAreHandled
    <3> QED BY <3>1, <3>2 DEF ListIsFlying, IoTypeOK
  <2>6. WaitersAreWoken' /\ ClosersAreCounted' /\ HandlerIsActive'
    <3>1. Closers' = Closers
        BY <1>3 DEF Closers
    <3>2. lock'["events_lock"] = lock["events_lock"]
        BY <1>3
    <3> QED BY <1>3, <3>1, <3>2 DEF WaitersAreWoken, At, ClosersAreCounted, HandlerIsActive,
               Free
  <2> QED BY <1>d, <2>1, <2>2, <2>3, <2>4, <2>5, <2>6
<1> QED BY <1>c, <1>1, <1>2, <1>3

\* A callback submits a transfer that nobody else has.
LEMMA ResubmitKeeps ==
    ASSUME IoAssumption, IoInv, NEW t \in Threads, Resubmit(t)
    PROVE  IoInv'
<1>0. Typed /\ Never \in Nat
    BY Typing DEF IoInv
<1> USE <1>0 DEF Typed, IoInv, Resubmit, SubmitBegins, Cleared, Go, At, Free, Take, eventVars,
            handlerVars, deviceVars
<1>a. /\ cur[t].x \in Threads /\ ~Submitting(cur[t].x) /\ ~Completing(cur[t].x)
      /\ ~inFlight[cur[t].x]
    BY DEF TransfersAreHandled, Hands, Completes, Submitting, Completing
<1>b. /\ flying' \in Seq(Threads) /\ deadline' \in [Threads -> 0..Never] /\ ListIsOrdered'
      /\ \A y \in Threads : y \in ToSet(flying') <=> y \in ToSet(flying) \/ y = cur[t].x
    BY <1>a, SubmissionIsListed
<1>1. IoTypeOK'
    BY <1>a, <1>b DEF IoTypeOK, Places
<1>2. LocksAreHeld'
    BY DEF LocksAreHeld, Callback, InCallback, TransfersAreHandled, Hands, SharedLocks
<1>3. TransfersAreHandled'
    BY DEF TransfersAreHandled, Hands, Busy, Away, Completes, InCallback, LocksAreHeld,
       Callback
<1>4. CancellationsAreAsked'
    BY DEF CancellationsAreAsked, ForUser, ForTimeout, IoTypeOK, TransfersAreHandled,
       LocksAreHeld, Hands, Completes
<1>5. ListIsOrdered'
    BY <1>b
<1>6. ListIsFlying'
  <2>1. ASSUME NEW y \in Threads
        PROVE  /\ Completing(y)' <=> Completing(y)
               /\ Submitting(y)' <=> Submitting(y) \/ y = cur[t].x
    BY <1>a DEF Completing, Submitting
  <2>2. UNCHANGED inFlight
    OBVIOUS
  <2> HIDE DEF Resubmit, SubmitBegins
  <2> QED BY <1>a, <1>b, <2>1, <2>2 DEF ListIsFlying
<1>7. WaitersAreWoken'
    BY DEF WaitersAreWoken
<1>8. HandlerIsActive'
    BY DEF HandlerIsActive, Free, SharedLocks, TransfersAreHandled, Hands
<1>9. ClosersAreCounted'
    BY DEF ClosersAreCounted, Closers
<1>10. /\ PipeHasByte' /\ PollSetIsKnown'
    BY DEF PipeHasByte, PollSetIsKnown
<1> QED BY <1>1, <1>2, <1>3, <1>4, <1>5, <1>6, <1>7, <1>8, <1>9, <1>10

\* The thread gives the waiters back and goes on reaping.
LEMMA CallbackReturnsKeeps ==
    ASSUME IoAssumption, IoInv, NEW t \in Threads, CallbackReturns(t)
    PROVE  IoInv'
<1>0. Typed /\ Never \in Nat
    BY Typing DEF IoInv
<1> USE <1>0 DEF Typed, IoInv, CallbackReturns, Go, At, Give, Forget, markVars, transferVars,
            eventVars, handlerVars, deviceVars, NoTransfer
<1>1. IoTypeOK'
    BY DEF IoTypeOK, Places, SharedLocks
<1>2. LocksAreHeld'
    BY DEF LocksAreHeld, Polls, Callback, InCallback, SharedLocks
<1>3. TransfersAreHandled'
    BY DEF TransfersAreHandled, Hands, Busy, Away, Completes, LocksAreHeld, Callback
<1>4. CancellationsAreAsked'
    BY DEF CancellationsAreAsked, ForUser, ForTimeout, Completing, LocksAreHeld, SharedLocks
<1>5. ListIsFlying'
    BY FlyingStays
<1>6. WaitersAreWoken'
    BY DEF WaitersAreWoken, HandlerActive, HandlerIsActive, LocksAreHeld, Polls
<1>7. HandlerIsActive'
    BY DEF HandlerIsActive, Free
<1>8. ClosersAreCounted'
    BY DEF ClosersAreCounted, Closers
<1>9. /\ ListIsOrdered' /\ PipeHasByte' /\ PollSetIsKnown'
    BY DEF ListIsOrdered, PipeHasByte, PollSetIsKnown
<1> QED BY <1>1, <1>2, <1>3, <1>4, <1>5, <1>6, <1>7, <1>8, <1>9

\* A thread sleeps only if somebody is there to wake it.
LEMMA WaitKeeps ==
    ASSUME IoAssumption, IoInv, NEW t \in Threads, Wait(t)
    PROVE  IoInv'
<1>0. Typed /\ Never \in Nat
    BY Typing DEF IoInv
<1> USE <1>0 DEF Typed, IoInv, Wait, HandlerActive, Go, At, Free, threadVars, markVars,
            transferVars, eventVars, handlerVars, deviceVars
<1>1. IoTypeOK'
    BY DEF IoTypeOK, Places
<1>2. LocksAreHeld'
    BY DEF LocksAreHeld, Polls, Sweeps, Callback, Completes, InCallback
<1>3. TransfersAreHandled'
    BY DEF TransfersAreHandled, Hands, Busy, Away, Completes, InCallback
<1>4. CancellationsAreAsked'
    BY DEF CancellationsAreAsked, ForUser, ForTimeout, Completing
<1>5. ListIsFlying'
    BY FlyingStays
<1>6. WaitersAreWoken'
    BY DEF WaitersAreWoken, HandlerIsActive, LocksAreHeld, Polls
<1>7. ClosersAreCounted'
    BY DEF ClosersAreCounted, Closers
<1>8. /\ ListIsOrdered' /\ PipeHasByte' /\ PollSetIsKnown' /\ HandlerIsActive'
    BY DEF ListIsOrdered, PipeHasByte, PollSetIsKnown, HandlerIsActive
<1> QED BY <1>1, <1>2, <1>3, <1>4, <1>5, <1>6, <1>7, <1>8

\* A timeout wakes one, and no other.
LEMMA WaitTimesOutKeeps ==
    ASSUME IoAssumption, IoInv, NEW t \in Threads, WaitTimesOut(t)
    PROVE  IoInv'
<1>0. Typed /\ Never \in Nat
    BY Typing DEF IoInv
<1> USE <1>0 DEF Typed, IoInv, WaitTimesOut, Go, At, threadVars, markVars, transferVars,
            eventVars, handlerVars, deviceVars
<1>1. IoTypeOK'
    BY DEF IoTypeOK, Places
<1>2. LocksAreHeld'
    BY DEF LocksAreHeld, Polls, Sweeps, Callback, Completes, InCallback
<1>3. TransfersAreHandled'
    BY DEF TransfersAreHandled, Hands, Busy, Away, Completes, InCallback
<1>4. CancellationsAreAsked'
    BY DEF CancellationsAreAsked, ForUser, ForTimeout, Completing
<1>5. ListIsFlying'
    BY FlyingStays
<1>6. WaitersAreWoken'
    BY DEF WaitersAreWoken, HandlerActive, HandlerIsActive, LocksAreHeld, Polls
<1>7. ClosersAreCounted'
    BY DEF ClosersAreCounted, Closers
<1>8. /\ ListIsOrdered' /\ PipeHasByte' /\ PollSetIsKnown' /\ HandlerIsActive'
    BY DEF ListIsOrdered, PipeHasByte, PollSetIsKnown, HandlerIsActive, Free
<1> QED BY <1>1, <1>2, <1>3, <1>4, <1>5, <1>6, <1>7, <1>8

\* A thread that was woken looks again.
LEMMA WaitEndsKeeps ==
    ASSUME IoAssumption, IoInv, NEW t \in Threads, WaitEnds(t)
    PROVE  IoInv'
<1>0. Typed /\ Never \in Nat
    BY Typing DEF IoInv
<1> USE <1>0 DEF Typed, IoInv, WaitEnds, Go, Free, threadVars, markVars, transferVars,
            eventVars, handlerVars, deviceVars
<1>1. IoTypeOK'
    BY DEF IoTypeOK, Places
<1>2. LocksAreHeld'
    BY DEF LocksAreHeld, Polls, Sweeps, Callback, Completes, InCallback, At
<1>3. TransfersAreHandled'
    BY DEF TransfersAreHandled, Hands, Busy, Away, Completes, InCallback
<1>4. CancellationsAreAsked'
    BY DEF CancellationsAreAsked, ForUser, ForTimeout, Completing, At
<1>5. ListIsFlying'
    BY FlyingStays
<1>6. WaitersAreWoken'
    BY DEF WaitersAreWoken, At, HandlerActive, HandlerIsActive, LocksAreHeld, Polls
<1>7. ClosersAreCounted'
    BY DEF ClosersAreCounted, Closers
<1>8. /\ ListIsOrdered' /\ PipeHasByte' /\ PollSetIsKnown' /\ HandlerIsActive'
    BY DEF ListIsOrdered, PipeHasByte, PollSetIsKnown, HandlerIsActive
<1> QED BY <1>1, <1>2, <1>3, <1>4, <1>5, <1>6, <1>7, <1>8

\* Who gives the events lock back has a broadcast to make.
LEMMA UnlockKeeps ==
    ASSUME IoAssumption, IoInv, NEW t \in Threads, Unlock(t)
    PROVE  IoInv'
<1>0. Typed /\ Never \in Nat
    BY Typing DEF IoInv
<1> USE <1>0 DEF Typed, IoInv, Unlock, Go, Give, threadVars, markVars, transferVars, eventVars,
            deviceVars
<1>1. IoTypeOK'
    BY DEF IoTypeOK, Places, Completions, SharedLocks, Never
<1>2. LocksAreHeld'
    BY DEF LocksAreHeld, Polls, Callback, Completes, InCallback, At, SharedLocks
<1>3. TransfersAreHandled'
    BY DEF TransfersAreHandled, Hands, Busy, Away, Completes, InCallback
<1>4. CancellationsAreAsked'
    BY DEF CancellationsAreAsked, ForUser, ForTimeout, Completing, At
<1>5. ListIsFlying'
    BY FlyingStays
<1>6. WaitersAreWoken'
    BY DEF WaitersAreWoken, At, HandlerActive, HandlerIsActive, LocksAreHeld, Polls
<1>7. HandlerIsActive'
    BY DEF HandlerIsActive, Free, SharedLocks
<1>8. ClosersAreCounted'
    BY DEF ClosersAreCounted, Closers
<1>9. /\ ListIsOrdered' /\ PipeHasByte' /\ PollSetIsKnown'
    BY DEF ListIsOrdered, PipeHasByte, PollSetIsKnown
<1> QED BY <1>1, <1>2, <1>3, <1>4, <1>5, <1>6, <1>7, <1>8, <1>9

\* Nobody sleeps after a broadcast.
LEMMA BroadcastKeeps ==
    ASSUME IoAssumption, IoInv, NEW t \in Threads, Broadcast(t)
    PROVE  IoInv'
<1>0. Typed /\ Never \in Nat
    BY Typing DEF IoInv
<1> USE <1>0 DEF Typed, IoInv, Broadcast, Free, threadVars, markVars, transferVars, eventVars,
            handlerVars, deviceVars
<1>a. /\ pc[t] \in {"broadcast", "farewell"} /\ pc'[t] \in {"loop", "out"}
      /\ \A u \in Threads \ {t} : pc'[u] = pc[u] \/ (pc[u] = "cond" /\ pc'[u] = "woken")
    OBVIOUS
<1>1. IoTypeOK'
    BY DEF IoTypeOK, Places, Completions, SharedLocks, Never
<1>2. LocksAreHeld'
    BY DEF LocksAreHeld, Polls, Sweeps, Callback, Completes, InCallback, At
<1>3. TransfersAreHandled'
    BY DEF TransfersAreHandled, Hands, Busy, Away, Completes, InCallback
<1>4. CancellationsAreAsked'
  <2>1. \A u \in Threads, p \in {"mark", "land", "backend", "cancelled", "complete"} :
            pc'[u] = p <=> pc[u] = p
    BY <1>a
  <2>2. UNCHANGED <<asked, timedOut, inFlight, status, urb, cur>>
    OBVIOUS
  <2> HIDE DEF Broadcast
  <2>3. \A x \in Threads \cup {Nobody} :
            /\ ForUser(x)' <=> ForUser(x)
            /\ ForTimeout(x)' <=> ForTimeout(x)
            /\ Completing(x)' <=> Completing(x)
    BY <2>1, <2>2 DEF ForUser, ForTimeout, Completing, At
  <2> QED BY <2>1, <2>2, <2>3 DEF CancellationsAreAsked, At
<1>5. ListIsFlying'
    BY DEF ListIsFlying, Submitting, Completing, TransfersAreHandled, Hands, Completes, Busy,
       Away
<1>6. WaitersAreWoken'
    BY DEF WaitersAreWoken, At
<1>7. ClosersAreCounted'
    BY DEF ClosersAreCounted, Closers
<1>8. /\ ListIsOrdered' /\ PipeHasByte' /\ PollSetIsKnown' /\ HandlerIsActive'
    BY DEF ListIsOrdered, PipeHasByte, PollSetIsKnown, HandlerIsActive
<1> QED BY <1>1, <1>2, <1>3, <1>4, <1>5, <1>6, <1>7, <1>8

\* An opened handle has no transfer yet.
LEMMA OpenEndsKeeps ==
    ASSUME IoAssumption, IoInv, NEW t \in Threads, OpenEnds(t)
    PROVE  IoInv'
<1>0. Typed /\ Never \in Nat
    BY Typing DEF IoInv
<1> USE <1>0 DEF Typed, IoInv, OpenEnds, Go, At, Free, threadVars, markVars, transferVars,
            eventVars, handlerVars, deviceVars
<1>1. IoTypeOK'
    BY DEF IoTypeOK, Places
<1>2. LocksAreHeld'
    BY DEF LocksAreHeld, Polls, Sweeps, Callback, Completes, InCallback
<1>3. TransfersAreHandled'
    BY DEF TransfersAreHandled, Hands, Busy, Away, Completes, InCallback
<1>4. CancellationsAreAsked'
    BY DEF CancellationsAreAsked, ForUser, ForTimeout, Completing
<1>5. ListIsFlying'
    BY FlyingStays
<1>6. WaitersAreWoken'
    BY DEF WaitersAreWoken, HandlerActive, HandlerIsActive, LocksAreHeld, Polls
<1>7. ClosersAreCounted'
    BY DEF ClosersAreCounted, Closers
<1>8. /\ ListIsOrdered' /\ PipeHasByte' /\ PollSetIsKnown' /\ HandlerIsActive'
    BY DEF ListIsOrdered, PipeHasByte, PollSetIsKnown, HandlerIsActive
<1> QED BY <1>1, <1>2, <1>3, <1>4, <1>5, <1>6, <1>7, <1>8

\* The flag is up as long as somebody closes.
LEMMA CloseBeginsKeeps ==
    ASSUME IoAssumption, IoInv, NEW t \in Threads, CloseBegins(t)
    PROVE  IoInv'
<1>0. Typed /\ Never \in Nat
    BY Typing DEF IoInv
<1> USE <1>0 DEF Typed, IoInv, CloseBegins, Go, At, threadVars, markVars, transferVars,
            deviceVars
<1>a. /\ flags' \subseteq {"sources", "interrupt", "close"} /\ pipe' \in {0, 1}
      /\ PipeHasByte' /\ flags' = flags \cup {"close"}
    BY RaiseKeepsByte
<1>b. /\ pc[t] = "close" /\ pc' = [pc EXCEPT ![t] = "closing"] /\ closing' = closing + 1
      /\ closing \in Nat
    BY DEF IoTypeOK
<1>1. IoTypeOK'
  <2>1. closing' \in Nat /\ pc' \in [Threads -> Places]
    BY <1>b DEF Places
  <2> QED BY <1>a, <2>1 DEF IoTypeOK
<1>2. LocksAreHeld'
    BY DEF LocksAreHeld, Polls, Sweeps, Callback, Completes, InCallback
<1>3. TransfersAreHandled'
    BY DEF TransfersAreHandled, Hands, Busy, Away, Completes, InCallback
<1>4. CancellationsAreAsked'
    BY DEF CancellationsAreAsked, ForUser, ForTimeout, Completing
<1>5. ListIsFlying'
    BY FlyingStays
<1>6. PipeHasByte'
    BY <1>a
<1>7. WaitersAreWoken'
  <2>1. closing' > 0
    BY <1>b
  <2> QED BY <2>1 DEF WaitersAreWoken
<1>8. PollSetIsKnown'
    BY DEF PollSetIsKnown, Raise, Lower, AddSource, RemoveSource, HandleEventTrigger
<1>9. ClosersAreCounted'
  <2>1. t \notin Closers /\ Closers' = Closers \cup {t}
    BY <1>b DEF Closers
  <2>2. closing' = Cardinality(Closers')
    BY <1>b, <2>1, ClosersAdd
  <2>3. closing' > 0 /\ "close" \in flags'
    BY <1>a, <1>b
  <2> QED BY <2>2, <2>3 DEF ClosersAreCounted
<1>10. /\ ListIsOrdered' /\ HandlerIsActive'
    BY DEF ListIsOrdered, HandlerIsActive, Free
<1> QED BY <1>1, <1>2, <1>3, <1>4, <1>5, <1>6, <1>7, <1>8, <1>9, <1>10

\* The thread that closes has the events lock, and nobody else.
LEMMA CloseLocksKeeps ==
    ASSUME IoAssumption, IoInv, NEW t \in Threads, CloseLocks(t)
    PROVE  IoInv'
<1>0. Typed /\ Never \in Nat
    BY Typing DEF IoInv
<1> USE <1>0 DEF Typed, IoInv, CloseLocks, Go, At, Free, Take, threadVars, markVars,
            transferVars, eventVars, deviceVars
<1>1. IoTypeOK'
    BY DEF IoTypeOK, Places, SharedLocks
<1>2. LocksAreHeld'
    BY DEF LocksAreHeld, Polls, Callback, Completes, InCallback, SharedLocks
<1>3. TransfersAreHandled'
    BY DEF TransfersAreHandled, Hands, Busy, Away, Completes, InCallback
<1>4. CancellationsAreAsked'
    BY DEF CancellationsAreAsked, ForUser, ForTimeout, Completing
<1>5. ListIsFlying'
    BY FlyingStays
<1>6. WaitersAreWoken'
    BY DEF WaitersAreWoken, HandlerActive, HandlerIsActive, LocksAreHeld, Polls
<1>7. HandlerIsActive'
    BY DEF HandlerIsActive, SharedLocks
<1>8. ClosersAreCounted'
    BY DEF ClosersAreCounted, Closers
<1>9. /\ ListIsOrdered' /\ PipeHasByte' /\ PollSetIsKnown'
    BY DEF ListIsOrdered, PipeHasByte, PollSetIsKnown
<1> QED BY <1>1, <1>2, <1>3, <1>4, <1>5, <1>6, <1>7, <1>8, <1>9

\* The handle leaves the sources, and the flag is raised for the next poll.
LEMMA DoCloseKeeps ==
    ASSUME IoAssumption, IoInv, NEW t \in Threads, DoClose(t)
    PROVE  IoInv'
<1>0. Typed /\ Never \in Nat
    BY Typing DEF IoInv
<1> USE <1>0 DEF Typed, IoInv, DoClose, RemoveSource, Go, Free, threadVars, markVars,
            transferVars, handlerVars, deviceVars
<1>a. /\ flags' \subseteq {"sources", "interrupt", "close"} /\ pipe' \in {0, 1}
      /\ PipeHasByte' /\ ("close" \in flags' <=> "close" \in flags)
  <2>1. (flags' = flags /\ pipe' = pipe) \/ Raise("sources")
    OBVIOUS
  <2> QED BY <2>1, RaiseKeepsByte DEF IoTypeOK, PipeHasByte
<1>b. sources' \subseteq Threads
    BY DEF IoTypeOK
<1>1. IoTypeOK'
    BY <1>a, <1>b DEF IoTypeOK, Places
<1>2. LocksAreHeld'
    BY DEF LocksAreHeld, Polls, Callback, Completes, InCallback, At
<1>3. TransfersAreHandled'
    BY DEF TransfersAreHandled, Hands, Busy, Away, Completes, InCallback
<1>4. CancellationsAreAsked'
    BY DEF CancellationsAreAsked, ForUser, ForTimeout, Completing, At
<1>5. ListIsFlying'
    BY FlyingStays
<1>6. PipeHasByte'
    BY <1>a
<1>7. WaitersAreWoken'
    BY DEF WaitersAreWoken, At, HandlerActive, HandlerIsActive, LocksAreHeld, Polls
<1>8. PollSetIsKnown'
    BY DEF PollSetIsKnown, Raise, Lower, AddSource, HandleEventTrigger
<1>9. ClosersAreCounted'
  <2>1. Closers' = Closers /\ closing' = closing
    BY DEF Closers
  <2> QED BY <1>a, <2>1 DEF ClosersAreCounted
<1>10. /\ ListIsOrdered' /\ HandlerIsActive'
    BY DEF ListIsOrdered, HandlerIsActive
<1> QED BY <1>1, <1>2, <1>3, <1>4, <1>5, <1>6, <1>7, <1>8, <1>9, <1>10

\* The last one that closes lowers the flag.
LEMMA CloseEndsKeeps ==
    ASSUME IoAssumption, IoInv, NEW t \in Threads, CloseEnds(t)
    PROVE  IoInv'
<1>0. Typed /\ Never \in Nat
    BY Typing DEF IoInv
<1> USE <1>0 DEF Typed, IoInv, CloseEnds, Go, At, threadVars, markVars, transferVars, deviceVars
<1>a. /\ pc[t] = "unclose" /\ pc' = [pc EXCEPT ![t] = "closed"] /\ closing' = closing - 1
      /\ t \in Closers /\ Closers' = Closers \ {t}
    BY DEF Closers
<1>b. closing \in Nat /\ closing > 0 /\ closing' \in Nat /\ closing' = Cardinality(Closers')
  <2>1. closing \in Nat /\ closing > 0 /\ Cardinality(Closers \ {t}) = closing - 1
    BY <1>a, ClosersAdd
  <2> HIDE DEF CloseEnds
  <2> QED BY <1>a, <2>1
<1>c. /\ flags' \subseteq {"sources", "interrupt", "close"} /\ pipe' \in {0, 1} /\ PipeHasByte'
      /\ flags' = flags \ IF closing = 1 THEN {"close"} ELSE {}
  <2>1. "close" \in flags
    BY <1>b DEF ClosersAreCounted
  <2> QED BY <2>1, LowerKeepsByte
<1>1. IoTypeOK'
  <2>1. pc' \in [Threads -> Places]
    BY <1>a DEF Places
  <2> QED BY <1>b, <1>c, <2>1 DEF IoTypeOK
<1>2. LocksAreHeld'
    BY DEF LocksAreHeld, Polls, Callback, Completes, InCallback
<1>3. TransfersAreHandled'
    BY DEF TransfersAreHandled, Hands, Busy, Away, Completes, InCallback
<1>4. CancellationsAreAsked'
    BY DEF CancellationsAreAsked, ForUser, ForTimeout, Completing
<1>5. ListIsFlying'
    BY FlyingStays
<1>6. PipeHasByte'
    BY <1>c
<1>7. WaitersAreWoken'
  <2>1. active'
    BY <1>a DEF LocksAreHeld, Polls, HandlerIsActive, Free
  <2> QED BY <2>1 DEF WaitersAreWoken
<1>8. PollSetIsKnown'
    BY DEF PollSetIsKnown, Raise, Lower, AddSource, RemoveSource, HandleEventTrigger
<1>9. ClosersAreCounted'
  <2>1. closing' > 0 <=> "close" \in flags'
    <3>1. closing > 0 <=> "close" \in flags
        BY DEF ClosersAreCounted
    <3>2. closing' > 0 <=> closing # 1
        BY <1>a, <1>b
    <3> QED BY <1>b, <1>c, <3>1, <3>2
  <2> QED BY <1>b, <2>1 DEF ClosersAreCounted
<1>10. /\ ListIsOrdered' /\ HandlerIsActive'
    BY DEF ListIsOrdered, HandlerIsActive, Free
<1> QED BY <1>1, <1>2, <1>3, <1>4, <1>5, <1>6, <1>7, <1>8, <1>9, <1>10

\* A new handle joins the sources with the flag raised.
LEMMA OpenKeeps ==
    ASSUME IoAssumption, IoInv, NEW t \in Threads, Open(t)
    PROVE  IoInv'
<1>0. Typed /\ Never \in Nat
    BY Typing DEF IoInv
<1> USE <1>0 DEF Typed, IoInv, Open, AddSource, Go, At, threadVars, markVars, transferVars,
            handlerVars, deviceVars
<1>a. /\ flags' \subseteq {"sources", "interrupt", "close"} /\ pipe' \in {0, 1}
      /\ PipeHasByte' /\ ("close" \in flags' <=> "close" \in flags)
    BY RaiseKeepsByte
<1>1. IoTypeOK'
    BY <1>a DEF IoTypeOK, Places
<1>2. LocksAreHeld'
    BY DEF LocksAreHeld, Polls, Sweeps, Callback, Completes, InCallback
<1>3. TransfersAreHandled'
    BY DEF TransfersAreHandled, Hands, Busy, Away, Completes, InCallback
<1>4. CancellationsAreAsked'
    BY DEF CancellationsAreAsked, ForUser, ForTimeout, Completing
<1>5. ListIsFlying'
    BY FlyingStays
<1>6. PipeHasByte'
    BY <1>a
<1>7. WaitersAreWoken'
    BY DEF WaitersAreWoken, HandlerActive, HandlerIsActive, LocksAreHeld, Polls
<1>8. PollSetIsKnown'
    BY DEF PollSetIsKnown, Raise, Lower, RemoveSource, HandleEventTrigger
<1>9. ClosersAreCounted'
  <2>1. Closers' = Closers /\ closing' = closing
    BY DEF Closers
  <2> QED BY <1>a, <2>1 DEF ClosersAreCounted
<1>10. /\ ListIsOrdered' /\ HandlerIsActive'
    BY DEF ListIsOrdered, HandlerIsActive, Free
<1> QED BY <1>1, <1>2, <1>3, <1>4, <1>5, <1>6, <1>7, <1>8, <1>9, <1>10

\* A call submits the thread's own transfer, which nobody else has.
LEMMA CallKeeps ==
    ASSUME IoAssumption, IoInv, NEW t \in Threads, Call(t)
    PROVE  IoInv'
<1>0. Typed /\ Never \in Nat
    BY Typing DEF IoInv
<1> USE <1>0 DEF Typed, IoInv, Call, SubmitBegins, Cleared, Go, At, Free, Take, eventVars,
            handlerVars, deviceVars
<1>a. /\ t \in Threads /\ ~Submitting(t) /\ ~Completing(t) /\ ~inFlight[t]
    BY DEF TransfersAreHandled, Busy, Away, Hands, Completes, Submitting, Completing
<1>b. /\ flying' \in Seq(Threads) /\ deadline' \in [Threads -> 0..Never] /\ ListIsOrdered'
      /\ \A y \in Threads : y \in ToSet(flying') <=> y \in ToSet(flying) \/ y = t
    BY <1>a, SubmissionIsListed
<1>1. IoTypeOK'
    BY <1>a, <1>b DEF IoTypeOK, Places
<1>2. LocksAreHeld'
    BY DEF LocksAreHeld, Polls, Sweeps, Callback, Completes, InCallback, SharedLocks
<1>3. TransfersAreHandled'
    BY DEF TransfersAreHandled, Busy, Away, Completes, InCallback, IoTypeOK
<1>4. CancellationsAreAsked'
    BY DEF CancellationsAreAsked, ForUser, ForTimeout, IoTypeOK, TransfersAreHandled,
       LocksAreHeld, Completes
<1>5. ListIsOrdered'
    BY <1>b
<1>6. ListIsFlying'
  <2>1. ASSUME NEW y \in Threads
        PROVE  /\ Completing(y)' <=> Completing(y)
               /\ Submitting(y)' <=> Submitting(y) \/ y = t
    BY <1>a DEF Completing, Submitting
  <2>2. UNCHANGED inFlight
    OBVIOUS
  <2> HIDE DEF Call, SubmitBegins
  <2> QED BY <1>a, <1>b, <2>1, <2>2 DEF ListIsFlying
<1>7. WaitersAreWoken'
    BY DEF WaitersAreWoken
<1>8. HandlerIsActive'
    BY DEF HandlerIsActive, SharedLocks
<1>9. ClosersAreCounted'
    BY DEF ClosersAreCounted, Closers
<1>10. /\ PipeHasByte' /\ PollSetIsKnown'
    BY DEF PipeHasByte, PollSetIsKnown
<1> QED BY <1>1, <1>2, <1>3, <1>4, <1>5, <1>6, <1>7, <1>8, <1>9, <1>10

\* A cancellation by the user marks what the kernel then gives back killed.
LEMMA UserCancelsKeeps ==
    ASSUME IoAssumption, IoInv, NEW t \in Threads, UserCancels(t)
    PROVE  IoInv'
<1>0. Typed /\ Never \in Nat
    BY Typing DEF IoInv
<1> USE <1>0 DEF Typed, IoInv, UserCancels, Cancellable, Killed, At, Free, threadVars,
            eventVars, handlerVars
<1>1. IoTypeOK'
    BY DEF IoTypeOK, Completions
<1>2. TransfersAreHandled'
    BY DEF TransfersAreHandled, Busy, InCallback
<1>3. CancellationsAreAsked'
    BY DEF CancellationsAreAsked, ForUser, ForTimeout, Completing, IoTypeOK,
       TransfersAreHandled
<1>4. /\ LocksAreHeld' /\ ListIsOrdered' /\ ListIsFlying' /\ PipeHasByte' /\ WaitersAreWoken'
      /\ PollSetIsKnown' /\ HandlerIsActive' /\ ClosersAreCounted'
    BY DEF LocksAreHeld, InCallback, ListIsOrdered, ListIsFlying, Submitting, Completing,
       PipeHasByte, WaitersAreWoken, PollSetIsKnown, HandlerIsActive, ClosersAreCounted,
       Closers
<1> QED BY <1>1, <1>2, <1>3, <1>4

\* The device answers what the kernel has.
LEMMA AnswerKeeps ==
    ASSUME IoAssumption, IoInv, NEW x \in Threads, Answer(x)
    PROVE  IoInv'
<1>0. Typed /\ Never \in Nat
    BY Typing DEF IoInv
<1> USE <1>0 DEF Typed, IoInv, Answer, threadVars, markVars, transferVars, eventVars,
            handlerVars
<1>1. IoTypeOK'
    BY DEF IoTypeOK, Completions
<1>2. TransfersAreHandled'
    BY DEF TransfersAreHandled, Busy, InCallback
<1>3. CancellationsAreAsked'
    BY DEF CancellationsAreAsked, ForUser, ForTimeout, Completing, At
<1>4. /\ LocksAreHeld' /\ ListIsOrdered' /\ ListIsFlying' /\ PipeHasByte' /\ WaitersAreWoken'
      /\ PollSetIsKnown' /\ HandlerIsActive' /\ ClosersAreCounted'
    BY DEF LocksAreHeld, InCallback, At, ListIsOrdered, ListIsFlying, Submitting, Completing,
       PipeHasByte, WaitersAreWoken, PollSetIsKnown, HandlerIsActive, Free, ClosersAreCounted,
       Closers
<1> QED BY <1>1, <1>2, <1>3, <1>4

\* An interruption raises its flag.
LEMMA InterruptKeeps ==
    ASSUME IoAssumption, IoInv, Interrupt
    PROVE  IoInv'
<1>0. Typed /\ Never \in Nat
    BY Typing DEF IoInv
<1> USE <1>0 DEF Typed, IoInv, Interrupt, At, threadVars, markVars, transferVars, handlerVars,
            deviceVars
<1>a. /\ flags' \subseteq {"sources", "interrupt", "close"} /\ pipe' \in {0, 1}
      /\ PipeHasByte' /\ ("close" \in flags' <=> "close" \in flags)
    BY RaiseKeepsByte
<1>1. IoTypeOK'
    BY <1>a DEF IoTypeOK, Places
<1>2. PipeHasByte'
    BY <1>a
<1>3. PollSetIsKnown'
    BY DEF PollSetIsKnown, Raise, Lower, AddSource, RemoveSource, HandleEventTrigger
<1>4. ClosersAreCounted'
  <2>1. Closers' = Closers /\ closing' = closing
    BY DEF Closers
  <2> QED BY <1>a, <2>1 DEF ClosersAreCounted
<1>5. /\ LocksAreHeld' /\ TransfersAreHandled' /\ CancellationsAreAsked' /\ ListIsOrdered'
      /\ ListIsFlying' /\ WaitersAreWoken' /\ HandlerIsActive'
    BY DEF LocksAreHeld, InCallback, TransfersAreHandled, Busy, CancellationsAreAsked,
       ForUser, ForTimeout, Completing, ListIsOrdered, ListIsFlying, Submitting,
       WaitersAreWoken, HandlerIsActive, Free
<1> QED BY <1>1, <1>2, <1>3, <1>4, <1>5

\* The kernel gives all back, or forgets it.
LEMMA UnplugKeeps ==
    ASSUME IoAssumption, IoInv, Unplug
    PROVE  IoInv'
<1>0. Typed /\ Never \in Nat
    BY Typing DEF IoInv
<1> USE <1>0 DEF Typed, IoInv, Unplug, threadVars, markVars, transferVars, eventVars,
            handlerVars
<1>1. IoTypeOK'
    BY DEF IoTypeOK, Completions
<1>2. TransfersAreHandled'
    BY DEF TransfersAreHandled, Hands, Busy, InCallback
<1>3. CancellationsAreAsked'
    BY DEF CancellationsAreAsked, ForUser, ForTimeout, Completing, At
<1>4. /\ LocksAreHeld' /\ ListIsOrdered' /\ ListIsFlying' /\ PipeHasByte' /\ WaitersAreWoken'
      /\ PollSetIsKnown' /\ HandlerIsActive' /\ ClosersAreCounted'
    BY DEF LocksAreHeld, InCallback, At, ListIsOrdered, ListIsFlying, Submitting, Completing,
       PipeHasByte, WaitersAreWoken, PollSetIsKnown, HandlerIsActive, Free, ClosersAreCounted,
       Closers
<1> QED BY <1>1, <1>2, <1>3, <1>4

\* Time goes on below its bound.
LEMMA TickKeeps ==
    ASSUME IoAssumption, IoInv, Tick
    PROVE  IoInv'
<1>0. Typed /\ Never \in Nat
    BY Typing DEF IoInv
<1> USE <1>0 DEF Typed, IoInv, Tick, threadVars, markVars, transferVars, eventVars, handlerVars,
            deviceVars
<1>1. IoTypeOK'
    BY DEF IoTypeOK
<1>2. /\ LocksAreHeld' /\ TransfersAreHandled' /\ CancellationsAreAsked' /\ ListIsOrdered'
      /\ ListIsFlying' /\ PipeHasByte' /\ WaitersAreWoken' /\ PollSetIsKnown'
      /\ HandlerIsActive' /\ ClosersAreCounted'
    BY DEF LocksAreHeld, InCallback, At, TransfersAreHandled, Busy, CancellationsAreAsked,
       ForUser, ForTimeout, Completing, ListIsOrdered, ListIsFlying, Submitting, PipeHasByte,
       WaitersAreWoken, PollSetIsKnown, HandlerIsActive, Free, ClosersAreCounted, Closers
<1> QED BY <1>1, <1>2

\* Nobody is in the library at first, and the pipe has the byte of the first flag.
LEMMA InitHolds ==
    ASSUME IoAssumption, Init
    PROVE  IoInv
<1> USE DEF Init
<1>1. IoTypeOK
  <2>1. /\ pc \in [Threads -> Places] /\ until \in [Threads -> 0..Never]
        /\ deadline \in [Threads -> 0..Never]
        /\ submits \in 0..MaxSubmits /\ now \in 0..MaxTime
    BY DEF IoAssumption, Never, Places
  <2>2. /\ seen \in [Threads -> [ready : SUBSET Threads, error : BOOLEAN]]
        /\ cur \in [Threads -> [x : Threads \cup {Nobody},
                                status : Transfer!Statuses \cup {"none", "killed"}]]
    BY DEF NoPoll, NoTransfer
  <2>3. lock \in [SharedLocks \cup Threads -> Threads \cup {Nobody}] /\ flying \in Seq(Threads)
    OBVIOUS
  <2>4. sources \subseteq Threads /\ polled \subseteq Threads /\ again \subseteq Threads
    OBVIOUS
  <2> QED BY <2>1, <2>2, <2>3, <2>4 DEF IoTypeOK, Completions
<1>2. /\ \A t \in Threads : pc[t] \in {"out", "idle"} /\ cur[t] = NoTransfer /\ seen[t] = NoPoll
      /\ \A l \in SharedLocks \cup Threads : lock[l] = Nobody
      /\ Nobody \notin Threads
    BY DEF IoAssumption
<1>3. LocksAreHeld
    BY <1>2 DEF LocksAreHeld, Polls, Callback, Completes, InCallback, At, SharedLocks
<1>4. TransfersAreHandled
    BY <1>2 DEF TransfersAreHandled, Hands, Completes, Busy, NoPoll
<1>5. CancellationsAreAsked
    BY <1>2 DEF CancellationsAreAsked, At
<1>6. ListIsOrdered /\ ListIsFlying
    BY <1>2 DEF ListIsOrdered, ListIsFlying, Submitting, ToSet
<1>7. PipeHasByte /\ WaitersAreWoken /\ PollSetIsKnown /\ HandlerIsActive
    BY <1>2 DEF PipeHasByte, WaitersAreWoken, PollSetIsKnown, HandlerIsActive, Free,
       SharedLocks, At
<1>8. ClosersAreCounted
  <2>1. Closers = {}
    BY <1>2 DEF Closers
  <2> QED BY <2>1, FS_EmptySet DEF ClosersAreCounted
<1> QED BY <1>1, <1>3, <1>4, <1>5, <1>6, <1>7, <1>8 DEF IoInv

\* Every step of a thread, a user, the device or the clock keeps the bookkeeping.
LEMMA StepKeeps ==
    ASSUME IoAssumption, IoInv, [Next]_vars
    PROVE  IoInv'
<1>1. CASE UNCHANGED vars
    BY <1>1 DEF vars, threadVars, markVars, transferVars, eventVars, handlerVars, deviceVars,
       IoInv, IoTypeOK, LocksAreHeld, InCallback, At, TransfersAreHandled, Busy,
       CancellationsAreAsked, ForUser, ForTimeout, Completing, Submitting, ListIsOrdered,
       ListIsFlying, PipeHasByte, WaitersAreWoken, PollSetIsKnown, HandlerIsActive, Free,
       ClosersAreCounted, Closers
<1>2. ASSUME NEW t \in Threads, Step(t)
      PROVE  IoInv'
  <2>1. CASE BackendTakes(t) \/ BackendFails(t) \/ Unlist(t) \/ Resubmit(t)
    BY <2>1, BackendTakesKeeps, BackendFailsKeeps, UnlistKeeps, ResubmitKeeps
  <2>2. CASE HandleTimeouts(t) \/ SweepCancels(t) \/ Mark(t) \/ SweepEnds(t)
    BY <2>2, HandleTimeoutsKeeps, SweepCancelsKeeps, MarkKeeps, SweepEndsKeeps
  <2>3. CASE Return(t) \/ GetNextTimeout(t) \/ TryLock(t) \/ Poll(t) \/ LockDevices(t)
    BY <2>3, ReturnKeeps, GetNextTimeoutKeeps, TryLockKeeps, PollKeeps, LockDevicesKeeps
  <2>4. CASE (\E h \in Threads : PollError(t, h) \/ Reap(t, h) \/ Reaped(t, h)) \/ ReapEnds(t)
    BY <2>4, PollErrorKeeps, ReapKeeps, ReapedKeeps, ReapEndsKeeps
  <2>5. CASE HandleCancellation(t) \/ HandleCompletion(t) \/ Land(t) \/ CallbackReturns(t)
    BY <2>5, HandleCancellationKeeps, HandleCompletionKeeps, LandKeeps, CallbackReturnsKeeps
  <2>6. CASE Wait(t) \/ WaitTimesOut(t) \/ WaitEnds(t) \/ Unlock(t) \/ Broadcast(t)
    BY <2>6, WaitKeeps, WaitTimesOutKeeps, WaitEndsKeeps, UnlockKeeps, BroadcastKeeps
  <2>7. CASE OpenEnds(t) \/ CloseBegins(t) \/ CloseLocks(t) \/ DoClose(t) \/ CloseEnds(t)
    BY <2>7, OpenEndsKeeps, CloseBeginsKeeps, CloseLocksKeeps, DoCloseKeeps, CloseEndsKeeps
  <2> QED BY <1>2, <2>1, <2>2, <2>3, <2>4, <2>5, <2>6, <2>7 DEF Step
<1>3. ASSUME NEW t \in Threads, Open(t) \/ Call(t) \/ UserCancels(t) \/ Answer(t)
      PROVE  IoInv'
    BY <1>3, OpenKeeps, CallKeeps, UserCancelsKeeps, AnswerKeeps
<1>4. CASE Interrupt \/ Unplug \/ Tick
    BY <1>4, InterruptKeeps, UnplugKeeps, TickKeeps
<1> QED BY <1>1, <1>2, <1>3, <1>4 DEF Next

\* The bookkeeping that the threads of a context share holds however they
\* interleave, for any number of threads, timeouts and submissions, and whether
\* or not a callback may close its handle.
THEOREM IoHoldsInv == Spec => []IoInv
<1>1. Init => IoInv
    BY IoAssumption, InitHolds
<1>2. IoInv /\ [Next]_vars => IoInv'
    BY IoAssumption, StepKeeps
<1> QED BY <1>1, <1>2, PTL DEF Spec

-----------------------------------------------------------------------------
(* The transfers that the threads implement *)

\* A submission clears what the last one left.
LEMMA ClearedPrepares ==
    ASSUME NEW x \in Threads, ~inFlight[x], Cleared(x), UNCHANGED inFlight
    PROVE  Transfer!Next
<1>1. Transfer!Prepare(x)
    BY DEF Cleared, Transfer!Prepare
<1> QED BY <1>1 DEF Transfer!Next

\* What a step does to the transfers, in terms of LibusbTransfer.
LEMMA StepImplements ==
    ASSUME IoAssumption, IoInv, [Next]_vars
    PROVE  [Transfer!Next]_(Transfer!vars)
<1> USE DEF IoInv
<1>0. /\ inFlight \in [Threads -> BOOLEAN] /\ asked \in [Threads -> {"no", "user", "timeout"}]
      /\ status \in [Threads -> Transfer!Statuses \cup {"none"}]
    BY DEF IoTypeOK
<1>a. ASSUME UNCHANGED <<inFlight, asked, status>>
      PROVE  UNCHANGED Transfer!vars
    BY <1>a DEF Transfer!vars
<1>1. CASE UNCHANGED vars
    BY <1>1, <1>a DEF vars, transferVars, markVars
<1>2. ASSUME NEW t \in Threads, Step(t)
      PROVE  [Transfer!Next]_(Transfer!vars)
  <2>1. CASE BackendTakes(t)
    <3> DEFINE x == cur[t].x
    <3>1. x \in Threads /\ ~inFlight[x] /\ asked[x] = "no" /\ status[x] = "none"
        BY <2>1 DEF BackendTakes, At, TransfersAreHandled, Hands, CancellationsAreAsked
    <3>2. inFlight' = [inFlight EXCEPT ![x] = TRUE] /\ UNCHANGED <<asked, status>>
        BY <2>1 DEF BackendTakes, markVars
    <3>3. Transfer!Submit(x)
        BY <3>1, <3>2 DEF Transfer!Submit
    <3> QED BY <3>1, <3>3 DEF Transfer!Next
  <2>2. CASE SweepCancels(t)
    <3>1. CASE UNCHANGED asked
        BY <2>2, <3>1, <1>a DEF SweepCancels
    <3>2. CASE ~UNCHANGED asked
      <4> DEFINE x == NextUnhandled
      <4>1. x \in Threads
        BY <2>2, NextIsListed DEF SweepCancels, Expired
      <4>2. /\ inFlight[x] /\ asked[x] = "no" /\ asked' = [asked EXCEPT ![x] = "timeout"]
            /\ UNCHANGED <<inFlight, status>>
        BY <2>2, <3>2 DEF SweepCancels, Cancellable
      <4> HIDE DEF x
      <4>3. Transfer!Cancel(x, "timeout")
        BY <4>1, <4>2 DEF Transfer!Cancel
      <4> QED BY <4>1, <4>3 DEF Transfer!Next
    <3> QED BY <3>1, <3>2
  <2>3. CASE Return(t)
    <3>1. ~inFlight[t] /\ Cleared(t) /\ UNCHANGED inFlight
        BY <2>3 DEF Return, TransfersAreHandled, Busy
    <3> QED BY <3>1, ClearedPrepares
  <2>4. CASE Resubmit(t)
    <3>1. cur[t].x \in Threads
        BY <2>4 DEF Resubmit, At, TransfersAreHandled, Hands
    <3>2. ~inFlight[cur[t].x] /\ Cleared(cur[t].x) /\ UNCHANGED inFlight
        BY <2>4 DEF Resubmit, SubmitBegins
    <3> QED BY <3>1, <3>2, ClearedPrepares
  <2>5. CASE Land(t)
    <3> DEFINE x == cur[t].x
               s == cur[t].status
    <3>1. x \in Threads /\ inFlight[x] /\ s \in Transfer!Statuses
        BY <2>5 DEF Land, At, TransfersAreHandled, Hands, Completes, CancellationsAreAsked
    <3>2. (s = "cancelled" => asked[x] = "user") /\ (s = "timed_out" => asked[x] = "timeout")
        BY <2>5 DEF Land, At, CancellationsAreAsked, ForUser
    <3>3. /\ inFlight' = [inFlight EXCEPT ![x] = FALSE] /\ status' = [status EXCEPT ![x] = s]
          /\ UNCHANGED asked
        BY <2>5 DEF Land, markVars
    <3> HIDE DEF x, s
    <3>4. Transfer!Report(x, s)
        BY <3>1, <3>2, <3>3 DEF Transfer!Report
    <3> QED BY <3>1, <3>4 DEF Transfer!Next
  <2>6. CASE \/ BackendFails(t) \/ Unlist(t) \/ HandleTimeouts(t) \/ Mark(t) \/ SweepEnds(t)
             \/ GetNextTimeout(t) \/ TryLock(t) \/ Poll(t) \/ LockDevices(t)
             \/ \E h \in Threads : PollError(t, h) \/ Reap(t, h) \/ Reaped(t, h)
             \/ ReapEnds(t) \/ HandleCancellation(t) \/ HandleCompletion(t) \/ CallbackReturns(t)
             \/ Wait(t) \/ WaitTimesOut(t) \/ WaitEnds(t) \/ Unlock(t) \/ Broadcast(t)
             \/ OpenEnds(t) \/ CloseBegins(t) \/ CloseLocks(t) \/ DoClose(t) \/ CloseEnds(t)
    <3>1. UNCHANGED <<inFlight, asked, status>>
        BY <2>6 DEF transferVars, markVars, BackendFails, Unlist, HandleTimeouts, Mark,
           SweepEnds, GetNextTimeout, TryLock, Poll, LockDevices, PollError, Reap, Reaped,
           ReapEnds, HandleCancellation, HandleCompletion, CallbackReturns, Wait,
           WaitTimesOut, WaitEnds, Unlock, Broadcast, OpenEnds, CloseBegins, CloseLocks,
           DoClose, CloseEnds
    <3> QED BY <3>1, <1>a
  <2> QED BY <1>2, <2>1, <2>2, <2>3, <2>4, <2>5, <2>6 DEF Step
<1>3. ASSUME NEW t \in Threads, Call(t)
      PROVE  Transfer!Next
  <2>1. ~inFlight[t] /\ Cleared(t) /\ UNCHANGED inFlight
    BY <1>3 DEF Call, SubmitBegins
  <2> QED BY <2>1, ClearedPrepares
<1>4. ASSUME NEW t \in Threads, UserCancels(t)
      PROVE  Transfer!Next
  <2>1. /\ inFlight[t] /\ asked[t] = "no" /\ asked' = [asked EXCEPT ![t] = "user"]
        /\ UNCHANGED <<inFlight, status>>
    BY <1>4 DEF UserCancels, Cancellable
  <2>2. Transfer!Cancel(t, "user")
    BY <2>1 DEF Transfer!Cancel
  <2> QED BY <2>2 DEF Transfer!Next
<1>5. ASSUME NEW t \in Threads, Open(t) \/ Answer(t)
      PROVE  UNCHANGED Transfer!vars
    BY <1>5, <1>a DEF Open, Answer, transferVars, markVars
<1>6. CASE Interrupt \/ Unplug \/ Tick
    BY <1>6, <1>a DEF Interrupt, Unplug, Tick, transferVars, markVars
<1> QED BY <1>1, <1>2, <1>3, <1>4, <1>5, <1>6 DEF Next

\* Whichever threads submit, cancel, time out and complete it, a transfer is
\* reported once, and as cancelled or timed out only if that was asked for.
THEOREM IoImplementsTransfer == Spec => ImplementsTransfer
<1>1. Init => Transfer!Init
    BY DEF Init, Transfer!Init
<1>2. IoInv /\ [Next]_vars => [Transfer!Next]_(Transfer!vars)
    BY IoAssumption, StepImplements
<1> QED BY <1>1, <1>2, IoHoldsInv, PTL DEF Spec, ImplementsTransfer, Transfer!Spec

============================================================================
