--------------------------- MODULE SessionsProofs ---------------------------
(***************************************************************************)
(* Proofs about the parts that MCSessions composes, and of the             *)
(* composition: the permission requests, the session of the XBX and the    *)
(* connection of a phone application share no state, so an invariant that  *)
(* the steps of a part keep is one of every behaviour.                     *)
(***************************************************************************)
EXTENDS MCSessions, FiniteSetTheorems, WellFoundedInduction, TLAPS

-----------------------------------------------------------------------------
(* GlassesPermission                                                       *)

\* What one element more makes of a sequence ...
LEMMA Appended ==
    ASSUME NEW S, NEW s \in Seq(S), NEW x \in S
    PROVE  /\ Append(s, x) \in Seq(S) /\ Len(Append(s, x)) = Len(s) + 1
           /\ Len(s) \in Nat /\ Append(s, x)[Len(s) + 1] = x
           /\ DOMAIN Append(s, x) = 1..(Len(s) + 1) /\ DOMAIN s = 1..Len(s)
           /\ \A i \in 1..Len(s) : Append(s, x)[i] = s[i]
OBVIOUS

\* ... and one less.
LEMMA Shortened ==
    ASSUME NEW S, NEW s \in Seq(S), s # <<>>
    PROVE  /\ Head(s) \in S /\ Tail(s) \in Seq(S) /\ Len(s) \in Nat \ {0}
           /\ Head(s) = s[1] /\ Len(Tail(s)) = Len(s) - 1
           /\ DOMAIN s = 1..Len(s) /\ DOMAIN Tail(s) = 1..(Len(s) - 1)
           /\ \A i \in 1..(Len(s) - 1) : Tail(s)[i] = s[i + 1]
<1>1. Len(s) \in Nat \ {0} /\ DOMAIN s = 1..Len(s) /\ Head(s) = s[1]
    OBVIOUS
<1>2. /\ Len(Tail(s)) = Len(s) - 1 /\ DOMAIN Tail(s) = 1..(Len(s) - 1)
      /\ \A i \in 1..(Len(s) - 1) : Tail(s)[i] = s[i + 1]
    OBVIOUS
<1>3. Head(s) \in S /\ Tail(s) \in Seq(S)
    OBVIOUS
<1> QED BY <1>1, <1>2, <1>3

\* Every nonempty set of numbers has a least one.
LEMMA LeastOf ==
    ASSUME NEW T \in SUBSET Nat, T # {}
    PROVE  \E x \in T : \A y \in T : x <= y
<1> DEFINE R == {ss \in Nat \X Nat : ss[1] < ss[2]}
<1>1. R = OpToRel(<, Nat)
    BY DEF OpToRel
<1>2. IsWellFoundedOn(R, Nat)
    BY <1>1, NatLessThanWellFounded
<1> HIDE DEF R
<1>3. PICK x \in T : \A y \in T : <<y, x>> \notin R
    BY <1>2, WFMin
<1>4. ASSUME NEW y \in T PROVE x <= y
  <2>1. x \in Nat /\ y \in Nat
    OBVIOUS
  <2>2. y < x => <<y, x>> \in R
    BY <2>1 DEF R
  <2> QED BY <1>3, <2>1, <2>2
<1> QED BY <1>4

\* Glasses that lack a permission lack it for one of their devices.
LEMMA FirstMissingIsMissing ==
    ASSUME PermissionAssumption, NEW g \in Glasses, ~HasPermission(g)
    PROVE  FirstMissing(g) \in Devices \ granted
<1> DEFINE T == {i \in DOMAIN g : g[i] \notin granted}
<1>1. DOMAIN g = 1..Len(g) /\ Len(g) \in Nat /\ \A i \in DOMAIN g : g[i] \in Devices
    BY DEF PermissionAssumption
<1>2. T \in SUBSET Nat /\ T # {}
    BY <1>1 DEF HasPermission, Components
<1>3. PICK i \in T : \A j \in T : i <= j
    BY <1>2, LeastOf
<1>4. i \in DOMAIN g /\ g[i] \notin granted /\ \A j \in 1..(i - 1) : g[j] \in granted
    BY <1>1, <1>3
<1>5. \E k \in DOMAIN g : g[k] \notin granted /\ \A j \in 1..(k - 1) : g[j] \in granted
    BY <1>4
<1> QED BY <1>1, <1>5 DEF FirstMissing

\* As many questions as the user faces.
LEMMA QuestionsCount ==
    ASSUME TypeOK
    PROVE  /\ AllPrompts \in Nat
           /\ AllPrompts = 0 <=> \A d \in Devices : prompts[d] = 0
<1>1. IsFiniteSet(Questions) /\ prompts \in [Devices -> Nat]
    BY DEF TypeOK
<1>2. AllPrompts \in Nat
    BY <1>1, FS_CardinalityType DEF AllPrompts
<1>3. AllPrompts = 0 <=> Questions = {}
    BY <1>1, FS_EmptySet DEF AllPrompts
<1>4. Questions = {} <=> \A d \in Devices : prompts[d] = 0
  <2>1. ASSUME NEW d \in Devices, prompts[d] # 0 PROVE <<d, 1>> \in Questions
    BY <1>1, <2>1 DEF Questions
  <2>2. (\A d \in Devices : prompts[d] = 0) => Questions = {}
    BY <1>1 DEF Questions
  <2> QED BY <2>1, <2>2
<1> QED BY <1>2, <1>3, <1>4

\* A question more ...
LEMMA QuestionAsked ==
    ASSUME TypeOK, NEW d \in Devices, prompts' = [prompts EXCEPT ![d] = @ + 1]
    PROVE  /\ prompts' \in [Devices -> Nat] /\ IsFiniteSet(Questions')
           /\ AllPrompts' = AllPrompts + 1
           /\ \A e \in Devices \ {d} : prompts'[e] = prompts[e]
<1>1. IsFiniteSet(Questions) /\ prompts \in [Devices -> Nat]
    BY DEF TypeOK
<1>2. /\ prompts' \in [Devices -> Nat] /\ prompts'[d] = prompts[d] + 1
      /\ \A e \in Devices \ {d} : prompts'[e] = prompts[e]
    BY <1>1
<1>3. Questions' = Questions \cup {<<d, prompts[d] + 1>>}
  <2>1. ASSUME NEW q \in Questions' PROVE q \in Questions \cup {<<d, prompts[d] + 1>>}
    <3>1. PICK e \in Devices : q \in {e} \X (1..prompts'[e])
      BY DEF Questions
    <3>2. q = <<e, q[2]>> /\ q[2] \in 1..prompts'[e]
      BY <3>1
    <3>3. q[2] \in 1..prompts[e] \/ (e = d /\ q[2] = prompts[d] + 1)
      BY <1>1, <1>2, <3>2
    <3>4. q[2] \in 1..prompts[e] => q \in {e} \X (1..prompts[e])
      BY <3>2
    <3> QED BY <3>2, <3>3, <3>4 DEF Questions
  <2>2. ASSUME NEW q \in Questions PROVE q \in Questions'
    <3>1. PICK e \in Devices : q \in {e} \X (1..prompts[e])
      BY DEF Questions
    <3>2. 1..prompts[e] \subseteq 1..prompts'[e]
      BY <1>1, <1>2
    <3>3. q \in {e} \X (1..prompts'[e])
      BY <3>1, <3>2
    <3> QED BY <3>3 DEF Questions
  <2>3. <<d, prompts[d] + 1>> \in Questions'
    <3>1. prompts[d] + 1 \in 1..prompts'[d]
      BY <1>1, <1>2
    <3> QED BY <3>1 DEF Questions
  <2> QED BY <2>1, <2>2, <2>3
<1>4. <<d, prompts[d] + 1>> \notin Questions
  <2>1. SUFFICES ASSUME NEW e \in Devices, <<d, prompts[d] + 1>> \in {e} \X (1..prompts[e])
                 PROVE  FALSE
    BY DEF Questions
  <2>2. e = d /\ prompts[d] + 1 \in 1..prompts[e]
    BY <2>1
  <2> QED BY <1>1, <2>2
<1>5. /\ IsFiniteSet(Questions \cup {<<d, prompts[d] + 1>>})
      /\ Cardinality(Questions \cup {<<d, prompts[d] + 1>>}) = Cardinality(Questions) + 1
    BY <1>1, <1>4, FS_AddElement
<1> QED BY <1>2, <1>3, <1>5 DEF AllPrompts

\* ... and one less.
LEMMA QuestionAnswered ==
    ASSUME TypeOK, NEW d \in Devices, prompts[d] > 0, prompts' = [prompts EXCEPT ![d] = @ - 1]
    PROVE  /\ prompts' \in [Devices -> Nat] /\ IsFiniteSet(Questions')
           /\ AllPrompts' = AllPrompts - 1
           /\ \A e \in Devices : prompts'[e] > 0 => prompts[e] > 0
<1>1. IsFiniteSet(Questions) /\ prompts \in [Devices -> Nat]
    BY DEF TypeOK
<1>2. /\ prompts' \in [Devices -> Nat] /\ prompts'[d] = prompts[d] - 1
      /\ \A e \in Devices \ {d} : prompts'[e] = prompts[e]
    BY <1>1
<1>3. Questions' = Questions \ {<<d, prompts[d]>>}
  <2>1. ASSUME NEW q \in Questions' PROVE q \in Questions \ {<<d, prompts[d]>>}
    <3>1. PICK e \in Devices : q \in {e} \X (1..prompts'[e])
      BY DEF Questions
    <3>2. q = <<e, q[2]>> /\ q[2] \in 1..prompts'[e]
      BY <3>1
    <3>3. q[2] \in 1..prompts[e] /\ ~(e = d /\ q[2] = prompts[d])
      BY <1>1, <1>2, <3>2
    <3>4. q \in {e} \X (1..prompts[e])
      BY <3>2, <3>3
    <3>5. q # <<d, prompts[d]>>
      BY <3>2, <3>3
    <3> QED BY <3>4, <3>5 DEF Questions
  <2>2. ASSUME NEW q \in Questions, q # <<d, prompts[d]>> PROVE q \in Questions'
    <3>1. PICK e \in Devices : q \in {e} \X (1..prompts[e])
      BY DEF Questions
    <3>2. q = <<e, q[2]>> /\ q[2] \in 1..prompts[e]
      BY <3>1
    <3>3. q[2] \in 1..prompts'[e]
      BY <1>1, <1>2, <2>2, <3>2
    <3>4. q \in {e} \X (1..prompts'[e])
      BY <3>2, <3>3
    <3> QED BY <3>4 DEF Questions
  <2>3. <<d, prompts[d]>> \notin Questions'
    <3>1. SUFFICES ASSUME NEW e \in Devices, <<d, prompts[d]>> \in {e} \X (1..prompts'[e])
                   PROVE  FALSE
      BY DEF Questions
    <3>2. e = d /\ prompts[d] \in 1..prompts'[e]
      BY <3>1
    <3> QED BY <1>1, <1>2, <3>2
  <2> QED BY <2>1, <2>2, <2>3
<1>4. <<d, prompts[d]>> \in Questions
  <2>1. prompts[d] \in 1..prompts[d]
    BY <1>1
  <2> QED BY <2>1 DEF Questions
<1>5. /\ IsFiniteSet(Questions \ {<<d, prompts[d]>>})
      /\ Cardinality(Questions \ {<<d, prompts[d]>>}) = Cardinality(Questions) - 1
    BY <1>1, <1>4, FS_RemoveElement
<1> QED BY <1>1, <1>2, <1>3, <1>5 DEF AllPrompts

\* requestPermissionDevice(): one more question or answer is under way.
LEMMA AskStep ==
    ASSUME TypeOK, NEW d \in Devices, NEW rest \in Seq(Devices \cup {NoDevice}), Ask(d, rest)
    PROVE  /\ pendingPermission' = d
           /\ prompts' \in [Devices -> Nat] /\ IsFiniteSet(Questions')
           /\ broadcasts' \in Seq(Devices \cup {NoDevice})
           /\ AllPrompts' + Len(broadcasts') = AllPrompts + Len(rest) + 1
           /\ AllPrompts' \in Nat /\ Len(broadcasts') \in Nat /\ Len(rest) \in Nat
           /\ \A e \in Devices \ {d} : prompts'[e] = prompts[e]
<1>1. AllPrompts \in Nat /\ prompts \in [Devices -> Nat] /\ IsFiniteSet(Questions)
    BY QuestionsCount DEF TypeOK
<1>2. CASE d \in granted
  <2>1. pendingPermission' = d /\ broadcasts' = Append(rest, d) /\ prompts' = prompts
    BY <1>2 DEF Ask
  <2>2. /\ broadcasts' \in Seq(Devices \cup {NoDevice})
        /\ Len(broadcasts') = Len(rest) + 1 /\ Len(rest) \in Nat
    BY <2>1
  <2>3. Questions' = Questions /\ AllPrompts' = AllPrompts
    BY <2>1 DEF Questions, AllPrompts
  <2> QED BY <1>1, <2>1, <2>2, <2>3
<1>3. CASE d \notin granted
  <2>1. /\ pendingPermission' = d /\ broadcasts' = rest
        /\ prompts' = [prompts EXCEPT ![d] = @ + 1]
    BY <1>3 DEF Ask
  <2>2. Len(rest) \in Nat /\ Len(broadcasts') = Len(rest)
    BY <2>1
  <2>3. /\ prompts' \in [Devices -> Nat] /\ IsFiniteSet(Questions')
        /\ AllPrompts' = AllPrompts + 1
        /\ \A e \in Devices \ {d} : prompts'[e] = prompts[e]
    BY <2>1, QuestionAsked
  <2>4. AllPrompts' \in Nat /\ AllPrompts' + Len(broadcasts') = AllPrompts + Len(rest) + 1
    BY <1>1, <2>2, <2>3
  <2> QED BY <2>1, <2>2, <2>3, <2>4
<1> QED BY <1>2, <1>3

\* What a new request starts from: it does not overlap only if nothing is under way.
LEMMA NewRequestStep ==
    ASSUME PermissionInv, NEW target \in Targets, NewRequest(target)
    PROVE  /\ asked' \in Seq(Targets) /\ Len(asked') = Len(asked) + 1
           /\ asked'[Len(asked')] = target
           /\ \A i \in 1..Len(asked) : asked'[i] = asked[i]
           /\ overlapped' \in BOOLEAN /\ (~overlapped' => ~overlapped)
           /\ ~overlapped' => /\ AllPrompts = 0 /\ Len(broadcasts) = 0 /\ Len(tasks) = 0
                              /\ Len(asked) = Len(answers) + ignored
                              /\ \A d \in Devices : prompts[d] = 0
<1>1. /\ asked \in Seq(Targets) /\ asked' = Append(asked, target)
      /\ overlapped \in BOOLEAN /\ overlapped' = (overlapped \/ Outstanding > 0)
    BY DEF PermissionInv, TypeOK, NewRequest
<1>2. /\ Len(broadcasts) \in Nat /\ Len(tasks) \in Nat /\ AllPrompts \in Nat
      /\ Len(asked) \in Nat /\ Len(answers) \in Nat /\ ignored \in Nat
    BY QuestionsCount DEF PermissionInv, TypeOK
<1>3. Outstanding = AllPrompts + Len(broadcasts) + Len(tasks)
    BY DEF PermissionInv, NoRequestLost
<1>4. ~overlapped' => /\ AllPrompts = 0 /\ Len(broadcasts) = 0 /\ Len(tasks) = 0
                      /\ Len(asked) = Len(answers) + ignored
  <2> DEFINE out == Outstanding
  <2>1. ~overlapped' => ~(out > 0)
    BY <1>1
  <2>2. out = Len(asked) - Len(answers) - ignored
    BY DEF Outstanding
  <2>0. out = AllPrompts + Len(broadcasts) + Len(tasks)
    BY <1>3
  <2> HIDE DEF out
  <2>3. ~(out > 0) => /\ AllPrompts = 0 /\ Len(broadcasts) = 0 /\ Len(tasks) = 0
                      /\ Len(asked) = Len(answers) + ignored
    BY <1>2, <2>0, <2>2
  <2> QED BY <2>1, <2>3
<1>5. AllPrompts = 0 => \A d \in Devices : prompts[d] = 0
    BY QuestionsCount DEF PermissionInv
<1>6. /\ asked' \in Seq(Targets) /\ Len(asked') = Len(asked) + 1 /\ asked'[Len(asked')] = target
      /\ \A i \in 1..Len(asked) : asked'[i] = asked[i]
    BY <1>1, Appended
<1> QED BY <1>1, <1>4, <1>5, <1>6

\* Each of the manager's steps keeps its invariant: requestPermission(glasses), ...
LEMMA RequestStep ==
    ASSUME PermissionAssumption, PermissionInv, NEW g \in Glasses, Request(g)
    PROVE  PermissionInv'
<1> USE DEF PermissionInv
<1>1. g \in Targets /\ NewRequest(g) /\ g # NoGlasses
    BY DEF Targets, Request, PermissionAssumption
<1>2. /\ pendingGlasses' = g
      /\ UNCHANGED <<granted, detaches, answers, ignored, mixed>>
    BY DEF Request
<1>3. /\ AllPrompts \in Nat /\ Len(broadcasts) \in Nat /\ Len(tasks) \in Nat
      /\ Len(asked) \in Nat /\ Len(answers) \in Nat /\ ignored \in Nat
      /\ Len(asked) - Len(answers) - ignored = AllPrompts + Len(broadcasts) + Len(tasks)
    BY QuestionsCount DEF TypeOK, NoRequestLost, Outstanding
<1>4. AnswersNameRequest'
  <2>1. DOMAIN answers = 1..Len(answers)
    BY DEF TypeOK
  <2>2. ~overlapped /\ ~mixed => \A i \in DOMAIN answers : answers[i].of = asked[i]
    BY DEF AnswersNameRequest, AnswersMatch
  <2>3. Len(answers) <= Len(asked)
    BY <1>3
  <2>4. \A i \in DOMAIN answers : i \in 1..Len(asked)
    BY <1>3, <2>1, <2>3
  <2> QED BY <1>1, <1>2, <2>2, <2>4, NewRequestStep DEF AnswersNameRequest, AnswersMatch
<1>5. CASE HasPermission(g)
  <2> DEFINE t == [of |-> g, ok |-> TRUE, decided |-> TRUE]
  <2>1. /\ tasks' = Append(tasks, t)
        /\ UNCHANGED <<pendingPermission, prompts, broadcasts>>
    BY <1>5 DEF Request
  <2>2. t \in Task /\ t.of = g
    BY <1>1 DEF Task
  <2> HIDE DEF t
  <2>3. /\ tasks' \in Seq(Task) /\ Len(tasks') = Len(tasks) + 1
        /\ DOMAIN tasks' = 1..(Len(tasks) + 1) /\ tasks'[Len(tasks) + 1] = t
    BY <2>1, <2>2, Appended DEF TypeOK
  <2>4. Questions' = Questions /\ AllPrompts' = AllPrompts
    BY <2>1 DEF Questions, AllPrompts
  <2>5. TypeOK'
    BY <1>1, <1>2, <2>1, <2>3, <2>4, NewRequestStep DEF TypeOK
  <2>6. NoRequestLost'
    <3>1. Len(asked') = Len(asked) + 1
      BY <1>1, NewRequestStep
    <3>2. Outstanding' = (Len(asked) + 1) - Len(answers) - ignored
      BY <1>2, <3>1 DEF Outstanding
    <3> HIDE DEF PermissionInv
    <3>3. Outstanding' = AllPrompts + Len(broadcasts) + (Len(tasks) + 1)
      BY <1>3, <3>2
    <3> QED BY <2>1, <2>3, <2>4, <3>3 DEF NoRequestLost
  <2>7. ASSUME ~overlapped' PROVE /\ Outstanding' <= 1 /\ AllPrompts' + Len(broadcasts') = 0
                                  /\ ignored = Len(asked) - Len(answers) /\ Len(tasks) = 0
                                  /\ \A d \in Devices : prompts'[d] = 0
    BY <1>1, <1>2, <1>3, <2>1, <2>3, <2>4, <2>7, NewRequestStep DEF Outstanding
  <2>8. PromptsAreSerialized'
    BY <1>3, <2>4, <2>7, <2>1 DEF PromptsAreSerialized
  <2>9. OneAtATime'
    <3>1. SUFFICES ASSUME ~overlapped'
                   PROVE  ~mixed' => /\ ignored' = 0
                                     /\ \A i \in DOMAIN tasks' : tasks'[i].of = asked'[Len(asked')]
      BY <2>7 DEF OneAtATime
    <3>2. \A i \in DOMAIN tasks' : tasks'[i].of = g
      BY <2>2, <2>3, <2>7, <3>1
    <3>3. ~overlapped /\ asked'[Len(asked')] = g
      BY <1>1, <3>1, NewRequestStep
    <3> QED BY <1>2, <3>2, <3>3 DEF OneAtATime
  <2> QED BY <1>4, <2>5, <2>6, <2>8, <2>9
<1>6. CASE ~HasPermission(g)
  <2> DEFINE d == FirstMissing(g)
  <2>1. d \in Devices
    BY <1>6, FirstMissingIsMissing
  <2>2. Ask(d, broadcasts) /\ tasks' = tasks
    BY <1>6 DEF Request
  <2> HIDE DEF d
  <2>3. broadcasts \in Seq(Devices \cup {NoDevice})
    BY DEF TypeOK
  <2>4. /\ pendingPermission' = d
        /\ prompts' \in [Devices -> Nat] /\ IsFiniteSet(Questions')
        /\ broadcasts' \in Seq(Devices \cup {NoDevice})
        /\ AllPrompts' + Len(broadcasts') = AllPrompts + Len(broadcasts) + 1
        /\ AllPrompts' \in Nat /\ Len(broadcasts') \in Nat
        /\ \A e \in Devices \ {d} : prompts'[e] = prompts[e]
    BY <2>1, <2>2, <2>3, AskStep
  <2>5. TypeOK'
    BY <1>1, <1>2, <2>1, <2>2, <2>4, NewRequestStep DEF TypeOK
  <2>6. NoRequestLost'
    <3>1. Len(asked') = Len(asked) + 1
      BY <1>1, NewRequestStep
    <3>2. Outstanding' = (Len(asked) + 1) - Len(answers) - ignored
      BY <1>2, <3>1 DEF Outstanding
    <3> HIDE DEF PermissionInv
    <3>3. Outstanding' = AllPrompts + Len(broadcasts) + 1 + Len(tasks)
      BY <1>3, <3>2
    <3> QED BY <1>3, <2>2, <2>4, <3>3 DEF NoRequestLost
  <2>7. ASSUME ~overlapped' PROVE /\ Outstanding' <= 1 /\ AllPrompts' <= 1 /\ Len(tasks') = 0
                                  /\ \A e \in Devices : prompts'[e] > 0 => e = d
    <3>1. /\ AllPrompts = 0 /\ Len(broadcasts) = 0 /\ Len(tasks) = 0
          /\ Len(asked') = Len(asked) + 1
          /\ \A e \in Devices : prompts[e] = 0
      BY <1>1, <2>7, NewRequestStep
    <3>2. Outstanding' <= 1 /\ AllPrompts' <= 1 /\ Len(tasks') = 0
      BY <1>2, <1>3, <2>2, <2>4, <3>1 DEF Outstanding
    <3>3. \A e \in Devices : prompts'[e] > 0 => e = d
      BY <2>4, <3>1
    <3> QED BY <3>2, <3>3
  <2>8. PromptsAreSerialized'
    BY <2>4, <2>7 DEF PromptsAreSerialized
  <2>9. OneAtATime'
    <3>1. SUFFICES ASSUME ~overlapped'
                   PROVE  /\ pendingPermission' # NoDevice /\ pendingGlasses' = asked'[Len(asked')]
                          /\ ~mixed' => ignored' = 0
                          /\ \A i \in DOMAIN tasks' : tasks'[i].of = asked'[Len(asked')]
      BY <2>7 DEF OneAtATime
    <3>2. ~overlapped /\ asked'[Len(asked')] = g
      BY <1>1, <3>1, NewRequestStep
    <3>3. DOMAIN tasks' = {}
      BY <2>2, <2>7, <3>1 DEF TypeOK
    <3>4. ~mixed' => ignored' = 0
      BY <1>2, <3>2 DEF OneAtATime
    <3> QED BY <1>2, <2>1, <2>4, <3>2, <3>3, <3>4 DEF PermissionAssumption
  <2> QED BY <1>4, <2>5, <2>6, <2>8, <2>9
<1> QED BY <1>5, <1>6

\* ... requestPermission(device), ...
LEMMA RequestDeviceStep ==
    ASSUME PermissionAssumption, PermissionInv, NEW d \in Devices, RequestDevice(d)
    PROVE  PermissionInv'
<1> USE DEF PermissionInv
<1>1. Alone(d) \in Targets /\ NewRequest(Alone(d))
    BY DEF Targets, RequestDevice
<1>2. /\ Ask(d, broadcasts) /\ mixed'
      /\ UNCHANGED <<pendingGlasses, tasks, granted, detaches, answers, ignored>>
    BY DEF RequestDevice
<1>3. /\ AllPrompts \in Nat /\ Len(broadcasts) \in Nat /\ Len(tasks) \in Nat
      /\ Len(asked) \in Nat /\ Len(answers) \in Nat /\ ignored \in Nat
      /\ Len(asked) - Len(answers) - ignored = AllPrompts + Len(broadcasts) + Len(tasks)
    BY QuestionsCount DEF TypeOK, NoRequestLost, Outstanding
<1>4. /\ pendingPermission' = d
      /\ prompts' \in [Devices -> Nat] /\ IsFiniteSet(Questions')
      /\ broadcasts' \in Seq(Devices \cup {NoDevice})
      /\ AllPrompts' + Len(broadcasts') = AllPrompts + Len(broadcasts) + 1
      /\ AllPrompts' \in Nat /\ Len(broadcasts') \in Nat
      /\ \A e \in Devices \ {d} : prompts'[e] = prompts[e]
  <2>1. broadcasts \in Seq(Devices \cup {NoDevice})
    BY DEF TypeOK
  <2> QED BY <1>2, <2>1, AskStep
<1>5. TypeOK'
  <2>1. mixed' \in BOOLEAN
    BY DEF RequestDevice
  <2> QED BY <1>1, <1>2, <1>4, <2>1, NewRequestStep DEF TypeOK
<1>6. NoRequestLost'
  <2>1. Len(asked') = Len(asked) + 1
    BY <1>1, NewRequestStep
  <2> QED BY <1>2, <1>3, <1>4, <2>1 DEF NoRequestLost, Outstanding
<1>7. ASSUME ~overlapped' PROVE /\ Outstanding' <= 1 /\ AllPrompts' <= 1
                                /\ \A e \in Devices : prompts'[e] > 0 => e = d
  <2>1. /\ AllPrompts = 0 /\ Len(broadcasts) = 0 /\ Len(tasks) = 0
        /\ Len(asked') = Len(asked) + 1
        /\ \A e \in Devices : prompts[e] = 0
    BY <1>1, <1>7, NewRequestStep
  <2>2. Outstanding' <= 1 /\ AllPrompts' <= 1
    BY <1>2, <1>3, <1>4, <2>1 DEF Outstanding
  <2>3. \A e \in Devices : prompts'[e] > 0 => e = d
    BY <1>4, <2>1
  <2> QED BY <2>2, <2>3
<1>8. PromptsAreSerialized'
    BY <1>4, <1>7 DEF PromptsAreSerialized
<1>9. OneAtATime'
    BY <1>2, <1>4, <1>7 DEF OneAtATime, PermissionAssumption
<1>10. AnswersNameRequest'
    BY <1>2 DEF AnswersNameRequest
<1> QED BY <1>5, <1>6, <1>8, <1>9, <1>10

\* What the counts are before a step, and what they say of a request that is alone.
LEMMA PermissionCounts ==
    ASSUME PermissionInv
    PROVE  /\ AllPrompts \in Nat /\ Len(broadcasts) \in Nat /\ Len(tasks) \in Nat
           /\ Len(asked) \in Nat /\ Len(answers) \in Nat /\ ignored \in Nat
           /\ Len(asked) - Len(answers) - ignored = AllPrompts + Len(broadcasts) + Len(tasks)
           /\ ~overlapped => AllPrompts + Len(broadcasts) + Len(tasks) <= 1
           /\ AllPrompts = 0 => \A d \in Devices : prompts[d] = 0
<1>1. /\ AllPrompts \in Nat /\ Len(broadcasts) \in Nat /\ Len(tasks) \in Nat
      /\ Len(asked) \in Nat /\ Len(answers) \in Nat /\ ignored \in Nat
      /\ Len(asked) - Len(answers) - ignored = AllPrompts + Len(broadcasts) + Len(tasks)
    BY QuestionsCount DEF PermissionInv, TypeOK, NoRequestLost, Outstanding
<1>2. ~overlapped => Outstanding <= 1
    BY DEF PermissionInv, OneAtATime
<1>3. Outstanding = AllPrompts + Len(broadcasts) + Len(tasks)
    BY DEF PermissionInv, NoRequestLost
<1>4. ~overlapped => AllPrompts + Len(broadcasts) + Len(tasks) <= 1
    BY <1>2, <1>3
<1>5. AllPrompts = 0 => \A d \in Devices : prompts[d] = 0
    BY QuestionsCount DEF PermissionInv
<1> QED BY <1>1, <1>4, <1>5

\* A broadcast that is received was the only one of a request that is alone.
LEMMA ReceivedBroadcast ==
    ASSUME PermissionInv, broadcasts # <<>>
    PROVE  /\ Tail(broadcasts) \in Seq(Devices \cup {NoDevice})
           /\ Len(Tail(broadcasts)) = Len(broadcasts) - 1 /\ Len(broadcasts) \in Nat \ {0}
           /\ ReceivedDevice \in Devices \cup {NoDevice}
           /\ ~overlapped => /\ AllPrompts = 0 /\ Len(broadcasts) = 1 /\ Len(tasks) = 0
                             /\ ReceivedDevice # NoDevice
                             /\ ~mixed => pendingGlasses = asked[Len(asked)]
<1>1. broadcasts \in Seq(Devices \cup {NoDevice}) /\ pendingPermission \in Devices \cup {NoDevice}
    BY DEF PermissionInv, TypeOK
<1>2. /\ Tail(broadcasts) \in Seq(Devices \cup {NoDevice})
      /\ Head(broadcasts) \in Devices \cup {NoDevice}
      /\ Len(Tail(broadcasts)) = Len(broadcasts) - 1 /\ Len(broadcasts) \in Nat \ {0}
    BY <1>1, Shortened
<1>3. ReceivedDevice \in Devices \cup {NoDevice}
    BY <1>1, <1>2 DEF ReceivedDevice
<1>4. ASSUME ~overlapped
      PROVE  /\ AllPrompts = 0 /\ Len(broadcasts) = 1 /\ Len(tasks) = 0
             /\ pendingPermission # NoDevice
             /\ ~mixed => pendingGlasses = asked[Len(asked)]
  <2>1. AllPrompts = 0 /\ Len(broadcasts) = 1 /\ Len(tasks) = 0
    BY <1>2, <1>4, PermissionCounts
  <2>2. AllPrompts + Len(broadcasts) > 0
    BY <2>1
  <2> QED BY <1>4, <2>1, <2>2 DEF PermissionInv, OneAtATime
<1>5. ReceivedDevice = NoDevice => pendingPermission = NoDevice
    BY DEF ReceivedDevice
<1> QED BY <1>2, <1>3, <1>4, <1>5

\* A broadcast that names no device when none is remembered ...
LEMMA ReceiveNothingStep ==
    ASSUME PermissionAssumption, PermissionInv, ReceiveNothing
    PROVE  PermissionInv'
<1> USE DEF PermissionInv
<1>1. /\ broadcasts # <<>> /\ ReceivedDevice = NoDevice
      /\ broadcasts' = Tail(broadcasts) /\ ignored' = ignored + 1
      /\ UNCHANGED <<pendingPermission, pendingGlasses, tasks, granted, prompts, detaches, asked,
                    answers, overlapped, mixed>>
    BY DEF ReceiveNothing, managerVars, usage
<1>2. overlapped /\ overlapped'
    BY <1>1, ReceivedBroadcast DEF TypeOK
<1>3. Questions' = Questions /\ AllPrompts' = AllPrompts
    BY <1>1 DEF Questions, AllPrompts
<1>4. TypeOK'
    BY <1>1, <1>3, ReceivedBroadcast DEF TypeOK
<1>5. NoRequestLost'
  <2>1. Len(broadcasts') = Len(broadcasts) - 1
    BY <1>1, ReceivedBroadcast
  <2> QED BY <1>1, <1>3, <2>1, PermissionCounts DEF NoRequestLost, Outstanding
<1> QED BY <1>2, <1>4, <1>5 DEF PromptsAreSerialized, OneAtATime, AnswersNameRequest

\* ... one after which the next component is asked for ...
LEMMA ReceiveAndAskNextStep ==
    ASSUME PermissionAssumption, PermissionInv, ReceiveAndAskNext
    PROVE  PermissionInv'
<1> USE DEF PermissionInv
<1> DEFINE d == FirstMissing(pendingGlasses)
<1>1. /\ broadcasts # <<>> /\ Ask(d, Tail(broadcasts))
      /\ pendingGlasses # NoGlasses /\ ~HasPermission(pendingGlasses)
      /\ UNCHANGED <<pendingGlasses, tasks, granted, detaches, asked, answers, ignored,
                    overlapped, mixed>>
    BY DEF ReceiveAndAskNext, AskedMore, history
<1>2. d \in Devices
    BY <1>1, FirstMissingIsMissing DEF TypeOK
<1> HIDE DEF d
<1>3. /\ Tail(broadcasts) \in Seq(Devices \cup {NoDevice})
      /\ Len(Tail(broadcasts)) = Len(broadcasts) - 1 /\ Len(broadcasts) \in Nat \ {0}
    BY <1>1, ReceivedBroadcast
<1>4. /\ pendingPermission' = d
      /\ prompts' \in [Devices -> Nat] /\ IsFiniteSet(Questions')
      /\ broadcasts' \in Seq(Devices \cup {NoDevice})
      /\ AllPrompts' + Len(broadcasts') = AllPrompts + Len(Tail(broadcasts)) + 1
      /\ AllPrompts' \in Nat /\ Len(broadcasts') \in Nat
      /\ \A e \in Devices \ {d} : prompts'[e] = prompts[e]
    BY <1>1, <1>2, <1>3, AskStep
<1>5. AllPrompts' + Len(broadcasts') = AllPrompts + Len(broadcasts)
    BY <1>3, <1>4, PermissionCounts
<1>6. TypeOK'
    BY <1>1, <1>2, <1>4 DEF TypeOK
<1>7. NoRequestLost'
    BY <1>1, <1>4, <1>5, PermissionCounts DEF NoRequestLost, Outstanding
<1>8. PromptsAreSerialized'
  <2>1. SUFFICES ASSUME ~overlapped
                 PROVE  AllPrompts' <= 1 /\ \A e \in Devices : prompts'[e] > 0 => e = d
    BY <1>1, <1>4 DEF PromptsAreSerialized
  <2>2. AllPrompts' <= 1
    BY <1>4, <1>5, <2>1, PermissionCounts
  <2>3. \A e \in Devices : prompts[e] = 0
    BY <1>1, <2>1, ReceivedBroadcast, PermissionCounts
  <2> QED BY <1>4, <2>2, <2>3
<1>9. OneAtATime'
  <2>1. SUFFICES ASSUME ~overlapped
                 PROVE  /\ Outstanding' <= 1 /\ pendingPermission' # NoDevice
                        /\ ~mixed => /\ pendingGlasses = asked[Len(asked)] /\ ignored = 0
                                     /\ \A i \in DOMAIN tasks : tasks[i].of = asked[Len(asked)]
    BY <1>1 DEF OneAtATime
  <2>2. Outstanding' <= 1
    BY <1>1, <2>1 DEF OneAtATime, Outstanding
  <2>3. pendingPermission' # NoDevice
    BY <1>2, <1>4 DEF PermissionAssumption
  <2>4. ~mixed => pendingGlasses = asked[Len(asked)]
    BY <1>1, <2>1, ReceivedBroadcast
  <2> QED BY <2>1, <2>2, <2>3, <2>4 DEF OneAtATime
<1>10. AnswersNameRequest'
    BY <1>1 DEF AnswersNameRequest, AnswersMatch
<1> QED BY <1>6, <1>7, <1>8, <1>9, <1>10

\* ... and one that ends the request keep it too.
LEMMA ReceiveAndReportStep ==
    ASSUME PermissionAssumption, PermissionInv, ReceiveAndReport
    PROVE  PermissionInv'
<1> USE DEF PermissionInv
<1>1. /\ broadcasts # <<>> /\ ReceivedDevice # NoDevice
      /\ broadcasts' = Tail(broadcasts)
      /\ pendingPermission' = NoDevice /\ pendingGlasses' = NoGlasses
      /\ UNCHANGED <<granted, prompts, detaches, asked, answers, overlapped, mixed>>
    BY DEF ReceiveAndReport, usage
<1>2. /\ Tail(broadcasts) \in Seq(Devices \cup {NoDevice}) /\ ReceivedDevice \in Devices
      /\ Len(Tail(broadcasts)) = Len(broadcasts) - 1 /\ Len(broadcasts) \in Nat \ {0}
    BY <1>1, ReceivedBroadcast
<1>3. Questions' = Questions /\ AllPrompts' = AllPrompts
    BY <1>1 DEF Questions, AllPrompts
<1> DEFINE g == IF pendingGlasses # NoGlasses THEN pendingGlasses ELSE Alone(ReceivedDevice)
           t == [of |-> g, decided |-> FALSE, ok |-> ReceivedDevice \in granted]
<1>4. \/ tasks' = Append(tasks, t) /\ ignored' = ignored
      \/ pendingGlasses = NoGlasses /\ ignored' = ignored + 1 /\ tasks' = tasks
    BY DEF ReceiveAndReport
<1>5. t \in Task /\ t.of = g /\ (pendingGlasses # NoGlasses => g = pendingGlasses)
  <2>1. g \in Targets
    BY <1>2 DEF Targets, TypeOK
  <2> HIDE DEF g
  <2>2. (ReceivedDevice \in granted) \in BOOLEAN
    OBVIOUS
  <2>3. t \in Task /\ t.of = g
    BY <2>1, <2>2 DEF Task
  <2> QED BY <2>3 DEF g
<1> HIDE DEF t, g
<1>6. /\ tasks' \in Seq(Task) /\ ignored' \in Nat /\ Len(tasks') \in Nat
      /\ Len(tasks') + ignored' = Len(tasks) + ignored + 1
  <2>1. tasks \in Seq(Task) /\ Len(tasks) \in Nat /\ ignored \in Nat
    BY DEF TypeOK
  <2>2. Append(tasks, t) \in Seq(Task) /\ Len(Append(tasks, t)) = Len(tasks) + 1
    BY <1>5, <2>1, Appended
  <2> QED BY <1>4, <2>1, <2>2
<1>7. TypeOK'
    BY <1>1, <1>2, <1>3, <1>6 DEF TypeOK
<1>8. NoRequestLost'
  <2>1. Outstanding' = Len(asked) - Len(answers) - ignored'
    BY <1>1 DEF Outstanding
  <2>2. Len(broadcasts') = Len(broadcasts) - 1
    BY <1>1, <1>2
  <2>3. /\ AllPrompts \in Nat /\ Len(tasks) \in Nat /\ ignored \in Nat
        /\ Len(asked) \in Nat /\ Len(answers) \in Nat
        /\ Len(asked) - Len(answers) - ignored = AllPrompts + Len(broadcasts) + Len(tasks)
    BY PermissionCounts
  <2>4. /\ Len(tasks') \in Nat /\ ignored' \in Nat /\ Len(broadcasts) \in Nat
        /\ Len(tasks') + ignored' = Len(tasks) + ignored + 1
    BY <1>2, <1>6
  <2> HIDE DEF PermissionInv
  <2>5. Outstanding' = AllPrompts + (Len(broadcasts) - 1) + Len(tasks')
    BY <2>1, <2>3, <2>4
  <2> QED BY <1>3, <2>2, <2>5 DEF NoRequestLost
<1>9. ~overlapped => /\ AllPrompts' = 0 /\ Len(broadcasts') = 0
                     /\ Len(tasks) = 0 /\ \A d \in Devices : prompts[d] = 0
    BY <1>1, <1>2, <1>3, ReceivedBroadcast, PermissionCounts
<1>10. PromptsAreSerialized'
    BY <1>1, <1>9 DEF PromptsAreSerialized
<1>11. OneAtATime'
  <2>0. ignored \in Nat /\ Len(tasks) \in Nat /\ (ignored' = ignored \/ ignored' = ignored + 1)
    BY <1>4, PermissionCounts
  <2>1. ~overlapped => Outstanding' <= 1
    <3>1. Outstanding' = AllPrompts' + Len(broadcasts') + Len(tasks')
      BY <1>8 DEF NoRequestLost
    <3>2. ~overlapped => Len(tasks') <= 1
      BY <1>6, <1>9, <2>0
    <3>3. ~overlapped => AllPrompts' = 0 /\ Len(broadcasts') = 0
      BY <1>9
    <3> QED BY <1>6, <3>1, <3>2, <3>3
  <2>2. ASSUME ~overlapped, ~mixed
        PROVE  ignored' = 0 /\ \A i \in DOMAIN tasks' : tasks'[i].of = asked[Len(asked)]
    <3>1. pendingGlasses = asked[Len(asked)] /\ ignored = 0
      BY <1>1, <2>2, ReceivedBroadcast DEF OneAtATime
    <3>2. pendingGlasses # NoGlasses
      <4>1. Len(asked) \in Nat \ {0}
        BY <1>1, <1>2, <2>2, PermissionCounts
      <4>2. asked[Len(asked)] \in Targets
        BY <4>1 DEF TypeOK
      <4>3. NoGlasses \notin Targets
        BY DEF PermissionAssumption
      <4> QED BY <3>1, <4>2, <4>3
    <3>3. tasks' = Append(tasks, t) /\ t.of = asked[Len(asked)]
      BY <1>4, <1>5, <3>1, <3>2
    <3>4. DOMAIN tasks' = 1..1 /\ tasks'[1] = t
      BY <1>5, <1>9, <2>2, <3>3, Appended DEF TypeOK
    <3>5. ignored' = 0
      BY <1>4, <3>1, <3>2
    <3> QED BY <3>3, <3>4, <3>5
  <2>3. ~overlapped => ~(AllPrompts' + Len(broadcasts') > 0)
    BY <1>9
  <2> QED BY <1>1, <2>1, <2>2, <2>3 DEF OneAtATime
<1>12. AnswersNameRequest'
    BY <1>1 DEF AnswersNameRequest, AnswersMatch
<1> QED BY <1>7, <1>8, <1>10, <1>11, <1>12

\* The executor reports what was asked for.
LEMMA ReportResultStep ==
    ASSUME PermissionAssumption, PermissionInv, ReportResult
    PROVE  PermissionInv'
<1> USE DEF PermissionInv
<1> DEFINE t == Head(tasks)
           a == [of |-> t.of, ok |-> t.ok /\ (t.decided \/ HasPermission(t.of))]
<1>1. /\ tasks # <<>> /\ tasks' = Tail(tasks) /\ answers' = Append(answers, a)
      /\ UNCHANGED <<pendingPermission, pendingGlasses, granted, prompts, broadcasts, detaches,
                    asked, ignored, overlapped, mixed>>
    BY DEF ReportResult, systemVars, usage
<1>2. /\ t \in Task /\ Tail(tasks) \in Seq(Task) /\ Len(tasks) \in Nat \ {0}
      /\ t = tasks[1] /\ Len(Tail(tasks)) = Len(tasks) - 1 /\ DOMAIN tasks = 1..Len(tasks)
      /\ DOMAIN Tail(tasks) = 1..(Len(tasks) - 1)
      /\ \A i \in 1..(Len(tasks) - 1) : Tail(tasks)[i] = tasks[i + 1]
    BY <1>1, Shortened DEF TypeOK
<1>3. a \in [of: Targets, ok: BOOLEAN] /\ a.of = t.of
  <2>1. t.of \in Targets /\ t.ok \in BOOLEAN /\ t.decided \in BOOLEAN
    BY <1>2 DEF Task
  <2> QED BY <2>1 DEF HasPermission
<1> HIDE DEF t, a
<1>4. /\ answers' \in Seq([of: Targets, ok: BOOLEAN]) /\ Len(answers') = Len(answers) + 1
      /\ DOMAIN answers' = 1..(Len(answers) + 1) /\ answers'[Len(answers) + 1] = a
      /\ DOMAIN answers = 1..Len(answers)
      /\ \A i \in 1..Len(answers) : answers'[i] = answers[i]
    BY <1>1, <1>3, Appended DEF TypeOK
<1>5. Questions' = Questions /\ AllPrompts' = AllPrompts
    BY <1>1 DEF Questions, AllPrompts
<1>6. TypeOK'
    BY <1>1, <1>2, <1>4, <1>5 DEF TypeOK
<1>7. Len(tasks') = Len(tasks) - 1 /\ Outstanding' = Outstanding - 1 /\ Outstanding \in Int
    BY <1>1, <1>2, <1>4, PermissionCounts DEF Outstanding
<1>8. NoRequestLost'
    BY <1>1, <1>2, <1>5, <1>7, PermissionCounts DEF NoRequestLost
<1>9. PromptsAreSerialized'
    BY <1>1, <1>5 DEF PromptsAreSerialized
<1>10. ~overlapped => Len(tasks) = 1 /\ AllPrompts + Len(broadcasts) = 0
    BY <1>2, PermissionCounts
<1>11. OneAtATime'
  <2>1. ~overlapped => Outstanding' <= 1
    BY <1>7 DEF OneAtATime
  <2>2. ~overlapped => DOMAIN tasks' = {}
    BY <1>1, <1>2, <1>10
  <2>3. ~overlapped => ~(AllPrompts' + Len(broadcasts') > 0)
    BY <1>1, <1>5, <1>10
  <2> QED BY <1>1, <2>1, <2>2, <2>3 DEF OneAtATime
<1>12. AnswersNameRequest'
  <2>1. SUFFICES ASSUME ~overlapped, ~mixed, NEW i \in DOMAIN answers'
                 PROVE  answers'[i].of = asked[i]
    BY <1>1 DEF AnswersNameRequest, AnswersMatch
  <2>2. CASE i \in 1..Len(answers)
    BY <1>4, <2>1, <2>2 DEF AnswersNameRequest, AnswersMatch
  <2>3. CASE i \notin 1..Len(answers)
    <3>1. i = Len(answers) + 1 /\ answers'[i] = a
      BY <1>4, <2>3, PermissionCounts
    <3>2. ignored = 0 /\ t.of = asked[Len(asked)]
      BY <1>2, <2>1 DEF OneAtATime
    <3>3. Len(asked) = Len(answers) + 1
      <4>1. /\ AllPrompts \in Nat /\ Len(broadcasts) \in Nat /\ Len(tasks) \in Nat
            /\ Len(asked) \in Nat /\ Len(answers) \in Nat
            /\ Len(asked) - Len(answers) - ignored = AllPrompts + Len(broadcasts) + Len(tasks)
        BY PermissionCounts
      <4>2. Len(tasks) = 1 /\ AllPrompts + Len(broadcasts) = 0 /\ ignored = 0
        BY <1>10, <2>1, <3>2
      <4> HIDE DEF PermissionInv
      <4> QED BY <4>1, <4>2
    <3> QED BY <1>3, <3>1, <3>2, <3>3
  <2> QED BY <2>2, <2>3
<1> QED BY <1>6, <1>8, <1>9, <1>11, <1>12

\* The user's answer makes a broadcast of a question.
LEMMA AnswerStep ==
    ASSUME PermissionAssumption, PermissionInv, NEW d \in Devices, Answer(d)
    PROVE  PermissionInv'
<1> USE DEF PermissionInv
<1>1. /\ prompts[d] > 0 /\ prompts' = [prompts EXCEPT ![d] = @ - 1]
      /\ granted' \in {granted, granted \cup {d}}
      /\ UNCHANGED <<pendingPermission, pendingGlasses, tasks, detaches, asked, answers, ignored,
                    overlapped, mixed>>
    BY DEF Answer, managerVars, history
<1>2. PICK named \in Devices \cup {NoDevice} : broadcasts' = Append(broadcasts, named)
    BY DEF Answer
<1>3. /\ broadcasts' \in Seq(Devices \cup {NoDevice}) /\ Len(broadcasts') = Len(broadcasts) + 1
    BY <1>2, Appended DEF TypeOK
<1>4. /\ prompts' \in [Devices -> Nat] /\ IsFiniteSet(Questions')
      /\ AllPrompts' = AllPrompts - 1
      /\ \A e \in Devices : prompts'[e] > 0 => prompts[e] > 0
    BY <1>1, QuestionAnswered
<1>5. TypeOK'
    BY <1>1, <1>3, <1>4 DEF TypeOK
<1>6. AllPrompts' + Len(broadcasts') = AllPrompts + Len(broadcasts) /\ AllPrompts' <= AllPrompts
  <2>1. AllPrompts \in Nat /\ Len(broadcasts) \in Nat
    BY PermissionCounts
  <2> HIDE DEF PermissionInv
  <2> QED BY <1>3, <1>4, <2>1
<1>7. Outstanding' = Outstanding
    BY <1>1 DEF Outstanding
<1>8. NoRequestLost'
    BY <1>1, <1>6, <1>7 DEF NoRequestLost
<1>9. PromptsAreSerialized'
  <2>1. ~overlapped => AllPrompts' <= 1
    BY <1>4, PermissionCounts DEF PromptsAreSerialized
  <2> QED BY <1>1, <1>4, <2>1 DEF PromptsAreSerialized
<1>10. OneAtATime'
    BY <1>1, <1>6, <1>7 DEF OneAtATime
<1>11. AnswersNameRequest'
    BY <1>1 DEF AnswersNameRequest, AnswersMatch
<1> QED BY <1>5, <1>8, <1>9, <1>10, <1>11

\* A step of Android's that changes no more than what is granted.
LEMMA GrantedStep ==
    ASSUME PermissionInv, granted' \in SUBSET Devices, detaches' \in Nat,
           UNCHANGED <<managerVars, prompts, broadcasts, history>>
    PROVE  PermissionInv'
<1>1. UNCHANGED <<pendingPermission, pendingGlasses, tasks, prompts, broadcasts, asked, answers,
                  ignored, overlapped, mixed>>
    BY DEF managerVars, history
<1>2. Questions' = Questions /\ AllPrompts' = AllPrompts /\ Outstanding' = Outstanding
    BY <1>1 DEF Questions, AllPrompts, Outstanding
<1>3. TypeOK' /\ NoRequestLost'
    BY <1>1, <1>2 DEF PermissionInv, TypeOK, NoRequestLost
<1>4. PromptsAreSerialized' /\ OneAtATime'
    BY <1>1, <1>2 DEF PermissionInv, PromptsAreSerialized, OneAtATime
<1>5. AnswersNameRequest'
    BY <1>1 DEF PermissionInv, AnswersNameRequest, AnswersMatch
<1> QED BY <1>3, <1>4, <1>5 DEF PermissionInv

\* Every step of the manager or of Android keeps the invariant ...
LEMMA PermissionStep ==
    ASSUME PermissionAssumption, PermissionInv, Next
    PROVE  PermissionInv'
<1>1. ASSUME NEW g \in Glasses, Request(g) PROVE PermissionInv'
    BY <1>1, RequestStep
<1>2. ASSUME NEW d \in Devices, RequestDevice(d) PROVE PermissionInv'
    BY <1>2, RequestDeviceStep
<1>3. ASSUME NEW d \in Devices, Answer(d) PROVE PermissionInv'
    BY <1>3, AnswerStep
<1>4. ASSUME NEW d \in Devices, Detach(d) PROVE PermissionInv'
  <2>1. granted' \in SUBSET Devices /\ detaches' \in Nat
    BY <1>4 DEF Detach, PermissionInv, TypeOK
  <2> QED BY <1>4, <2>1, GrantedStep DEF Detach
<1> QED
    BY <1>1, <1>2, <1>3, <1>4, ReceiveNothingStep, ReceiveAndAskNextStep, ReceiveAndReportStep,
       ReportResultStep DEF Next, Receive

\* ... which holds at first ...
LEMMA PermissionInitial ==
    ASSUME PermissionAssumption, Init
    PROVE  PermissionInv
<1> USE DEF Init
<1>1. Questions = {}
    BY DEF Questions
<1>2. AllPrompts = 0 /\ IsFiniteSet(Questions)
    BY <1>1, FS_EmptySet DEF AllPrompts
<1>3. TypeOK
  <2>1. prompts \in [Devices -> Nat]
    OBVIOUS
  <2>2. /\ tasks \in Seq(Task) /\ broadcasts \in Seq(Devices \cup {NoDevice})
        /\ asked \in Seq(Targets) /\ answers \in Seq([of: Targets, ok: BOOLEAN])
    OBVIOUS
  <2> QED BY <1>2, <2>1, <2>2 DEF TypeOK
<1>4. /\ Len(asked) = 0 /\ Len(answers) = 0 /\ Len(broadcasts) = 0 /\ Len(tasks) = 0
      /\ Outstanding = 0
  <2>1. Len(asked) = 0 /\ Len(answers) = 0 /\ Len(broadcasts) = 0 /\ Len(tasks) = 0
    OBVIOUS
  <2> QED BY <2>1 DEF Outstanding
<1>5. NoRequestLost /\ PromptsAreSerialized /\ OneAtATime
    BY <1>2, <1>4 DEF NoRequestLost, PromptsAreSerialized, OneAtATime
<1>6. AnswersNameRequest
    BY DEF AnswersNameRequest, AnswersMatch
<1> QED BY <1>3, <1>5, <1>6 DEF PermissionInv

\* ... and while the other parts take their steps.
LEMMA PermissionStutters ==
    ASSUME PermissionInv, UNCHANGED vars
    PROVE  PermissionInv'
<1>1. granted' \in SUBSET Devices /\ detaches' \in Nat
    BY DEF PermissionInv, TypeOK, vars, systemVars
<1> QED BY <1>1, GrantedStep DEF vars, systemVars

-----------------------------------------------------------------------------
(* XrealXbxSession                                                         *)

\* What a thread leaves for the next thing it does keeps its type.
LEMMA XbxGoto ==
    ASSUME Xbx!XbxAssumption, Xbx!TypeOK, NEW t \in Xbx!Workers, NEW p \in Xbx!Pcs, Xbx!Goto(t, p)
    PROVE  /\ pc' \in [Xbx!Workers -> Xbx!Pcs] /\ left' \in [Xbx!Workers -> Nat]
           /\ pc'[t] = p /\ (p \in Xbx!CallPcs => left'[t] > 0)
           /\ \A u \in Xbx!Workers \ {t} : pc'[u] = pc[u] /\ left'[u] = left[u]
<1>1. p \in Xbx!CallPcs => Xbx!Calls(p) \in Nat \ {0}
    BY DEF Xbx!Calls, Xbx!XbxAssumption
<1>2. pc \in [Xbx!Workers -> Xbx!Pcs] /\ left \in [Xbx!Workers -> Nat]
    BY DEF Xbx!TypeOK
<1>3. (IF p \in Xbx!CallPcs THEN Xbx!Calls(p) ELSE 0) \in Nat
    BY <1>1
<1> HIDE DEF Xbx!Calls
<1> QED BY <1>1, <1>2, <1>3 DEF Xbx!Goto

\* Every step of the session's threads and of close() keeps its invariant.
LEMMA XbxStep ==
    ASSUME Xbx!XbxAssumption, Xbx!SessionInv, Xbx!Next
    PROVE  Xbx!SessionInv'
<1> USE DEF Xbx!SessionInv, Xbx!TypeOK, Xbx!CallsAreInPhase, Xbx!MonitorIsHeld, Xbx!ClosedInOrder,
        Xbx!HandshakeOnce, Xbx!HandleOutlivesCalls, Xbx!Workers, Xbx!Threads, Xbx!Pcs, Xbx!CallPcs,
        Xbx!ImuPhases, Xbx!HeartbeatPcs, Xbx!CloserPcs, Xbx!Proceed, Xbx!GiveUp,
        Xbx!HeartbeatAlive, Xbx!ImuAlive,
        Xbx!stateVars, Xbx!beatVars, Xbx!threadVars, Xbx!closeVars
<1>1. CASE Xbx!CallerStarts
  <2>1. Xbx!Goto("caller", "enter")
    BY <1>1 DEF Xbx!CallerStarts
  <2> QED BY <1>1, <2>1, XbxGoto DEF Xbx!CallerStarts
<1>2. CASE Xbx!CloseBegins
  <2>1. Xbx!TypeOK'
    BY <1>2 DEF Xbx!CloseBegins
  <2>2. Xbx!CallsAreInPhase'
    BY <1>2 DEF Xbx!CloseBegins
  <2>3. Xbx!MonitorIsHeld'
    BY <1>2 DEF Xbx!CloseBegins
  <2>4. Xbx!ClosedInOrder'
    BY <1>2 DEF Xbx!CloseBegins
  <2>5. Xbx!HandshakeOnce' /\ Xbx!HandleOutlivesCalls'
    BY <1>2 DEF Xbx!CloseBegins
  <2> QED BY <2>1, <2>2, <2>3, <2>4, <2>5
<1>3. ASSUME NEW t \in Xbx!Workers, Xbx!Enter(t)
      PROVE  Xbx!SessionInv'
  <2>1. CASE ready
    <3>1. Xbx!Goto(t, Xbx!Proceed(t)) /\ Xbx!Proceed(t) \in Xbx!Pcs
      BY <1>3, <2>1 DEF Xbx!Enter
    <3> QED BY <1>3, <2>1, <3>1, XbxGoto DEF Xbx!Enter
  <2>2. CASE ~ready
    <3>1. Xbx!Goto(t, "handshake")
      BY <1>3, <2>2 DEF Xbx!Enter
    <3> QED BY <1>3, <2>2, <3>1, XbxGoto DEF Xbx!Enter
  <2> QED BY <2>1, <2>2
<1>4. ASSUME NEW t \in Xbx!Workers, Xbx!BecomeReady(t)
      PROVE  Xbx!SessionInv'
  <2>1. ~ready /\ ~heartbeatRunning /\ heartbeats = 0 /\ heartbeat = "none"
    BY <1>4 DEF Xbx!BecomeReady
  <2>2. Xbx!Goto(t, "assign")
    BY <1>4, <2>1 DEF Xbx!BecomeReady
  <2> QED BY <1>4, <2>1, <2>2, XbxGoto DEF Xbx!BecomeReady
<1>5. ASSUME NEW t \in Xbx!Workers, Xbx!Assign(t)
      PROVE  Xbx!SessionInv'
  <2>1. Xbx!Goto(t, Xbx!Proceed(t)) /\ Xbx!Proceed(t) \in Xbx!Pcs
    BY <1>5 DEF Xbx!Assign
  <2> QED BY <1>5, <2>1, XbxGoto DEF Xbx!Assign
<1>6. ASSUME NEW t \in Xbx!Workers, Xbx!CallBegins(t)
      PROVE  Xbx!SessionInv'
    BY <1>6 DEF Xbx!CallBegins
<1>7. ASSUME NEW t \in Xbx!Workers, Xbx!CallReplies(t)
      PROVE  Xbx!SessionInv'
  <2>1. CASE pc[t] = "read"
    BY <1>7, <2>1 DEF Xbx!CallReplies
  <2>2. CASE pc[t] # "read" /\ (left[t] > 1 \/ pc[t] = "handshake")
    <3>1. left' = [left EXCEPT ![t] = @ - 1] /\ pc' = pc
      BY <1>7, <2>2 DEF Xbx!CallReplies
    <3>2. left[t] - 1 \in Nat
      BY <1>7 DEF Xbx!CallReplies
    <3> QED BY <1>7, <2>2, <3>1, <3>2 DEF Xbx!CallReplies
  <2>3. CASE pc[t] # "read" /\ ~(left[t] > 1 \/ pc[t] = "handshake")
    <3> DEFINE p == IF t = "imu" THEN Xbx!NextPhase(pc[t]) ELSE "idle"
    <3>1. Xbx!Goto(t, p)
      BY <1>7, <2>3 DEF Xbx!CallReplies
    <3>2. t = "imu" => pc[t] \in Xbx!ImuPhases
      BY <1>7, <2>3 DEF Xbx!CallReplies
    <3>3. t = "imu" => p \in Xbx!ImuPhases \cup {"read"}
      BY <3>2 DEF Xbx!NextPhase
    <3>4. t = "caller" => p = "idle"
      OBVIOUS
    <3>5. p \in Xbx!Pcs /\ p \notin {"handshake", "assign"}
      BY <3>3, <3>4
    <3> HIDE DEF p
    <3> QED BY <1>7, <2>3, <3>1, <3>3, <3>4, <3>5, XbxGoto DEF Xbx!CallReplies
  <2> QED BY <2>1, <2>2, <2>3
<1>8. ASSUME NEW t \in Xbx!Workers, Xbx!CallFails(t)
      PROVE  Xbx!SessionInv'
  <2>1. CASE pc[t] = "stop"
    <3>1. Xbx!Goto(t, "length")
      BY <1>8, <2>1 DEF Xbx!CallFails
    <3> QED BY <1>8, <2>1, <3>1, XbxGoto DEF Xbx!CallFails
  <2>2. CASE pc[t] = "read"
    BY <1>8, <2>2 DEF Xbx!CallFails
  <2>3. CASE pc[t] \notin {"stop", "read"}
    <3>1. Xbx!Goto(t, Xbx!GiveUp(t)) /\ Xbx!GiveUp(t) \in Xbx!Pcs
      BY <1>8, <2>3 DEF Xbx!CallFails
    <3> QED BY <1>8, <2>3, <3>1, XbxGoto DEF Xbx!CallFails
  <2> QED BY <2>1, <2>2, <2>3
<1>9. CASE Xbx!ImuStops
  <2>1. Xbx!Goto("imu", "done")
    BY <1>9 DEF Xbx!ImuStops
  <2> QED BY <1>9, <2>1, XbxGoto DEF Xbx!ImuStops, Xbx!AsksRunning
<1>10. CASE Xbx!HeartbeatTop
    BY <1>10 DEF Xbx!HeartbeatTop
<1>11. CASE Xbx!HeartbeatSends
    BY <1>11 DEF Xbx!HeartbeatSends
<1>12. CASE Xbx!HeartbeatSent
    BY <1>12 DEF Xbx!HeartbeatSent
<1>13. CASE Xbx!HeartbeatWakes
    BY <1>13 DEF Xbx!HeartbeatWakes
<1>14. CASE Xbx!CloseHeartbeat
    BY <1>14 DEF Xbx!CloseHeartbeat
<1>15. CASE Xbx!CloseJoinsHeartbeat
  <2>1. Xbx!TypeOK'
    BY <1>15 DEF Xbx!CloseJoinsHeartbeat
  <2>2. Xbx!CallsAreInPhase'
    BY <1>15 DEF Xbx!CloseJoinsHeartbeat
  <2>3. Xbx!MonitorIsHeld'
    BY <1>15 DEF Xbx!CloseJoinsHeartbeat
  <2>4. Xbx!ClosedInOrder'
    BY <1>15 DEF Xbx!CloseJoinsHeartbeat
  <2>5. Xbx!HandshakeOnce' /\ Xbx!HandleOutlivesCalls'
    BY <1>15 DEF Xbx!CloseJoinsHeartbeat
  <2> QED BY <2>1, <2>2, <2>3, <2>4, <2>5
<1>16. CASE Xbx!CloseJoinsImu
    BY <1>16 DEF Xbx!CloseJoinsImu
<1>17. CASE Xbx!CloseFrees
    BY <1>17 DEF Xbx!CloseFrees
<1> QED
    BY <1>1, <1>2, <1>3, <1>4, <1>5, <1>6, <1>7, <1>8, <1>9, <1>10, <1>11, <1>12, <1>13, <1>14,
       <1>15, <1>16, <1>17 DEF Xbx!Next, Xbx!WorkerStep, Xbx!HeartbeatStep, Xbx!CloserStep

\* It holds at first ...
LEMMA XbxInitial == Xbx!Init => Xbx!SessionInv
<1> USE DEF Xbx!Init, Xbx!Workers, Xbx!ImuPhases
<1>1. Xbx!Init => Xbx!TypeOK
  <2> SUFFICES ASSUME Xbx!Init PROVE Xbx!TypeOK
    OBVIOUS
  <2>1. pc \in [Xbx!Workers -> Xbx!Pcs]
    BY DEF Xbx!Pcs
  <2>2. left \in [Xbx!Workers -> Nat]
    OBVIOUS
  <2> QED BY <2>1, <2>2 DEF Xbx!TypeOK, Xbx!HeartbeatPcs, Xbx!CloserPcs
<1>2. Xbx!Init => Xbx!CallsAreInPhase /\ Xbx!MonitorIsHeld /\ Xbx!ClosedInOrder
    BY DEF Xbx!CallsAreInPhase, Xbx!MonitorIsHeld, Xbx!ClosedInOrder
<1>3. Xbx!Init => Xbx!HandshakeOnce /\ Xbx!HandleOutlivesCalls
    BY DEF Xbx!HandshakeOnce, Xbx!HandleOutlivesCalls
<1> QED BY <1>1, <1>2, <1>3 DEF Xbx!SessionInv

\* ... and while the other parts take their steps.
LEMMA XbxStutters == Xbx!SessionInv /\ UNCHANGED xbxVars => Xbx!SessionInv'
BY DEF xbxVars, Xbx!SessionInv, Xbx!TypeOK, Xbx!CallsAreInPhase, Xbx!MonitorIsHeld,
       Xbx!ClosedInOrder, Xbx!HandshakeOnce, Xbx!HandleOutlivesCalls

-----------------------------------------------------------------------------
(* PhoneAtwConnection                                                      *)

\* The tasks of the control executor are few: what adding and taking one makes.
LEMMA AtwTasks ==
    /\ Append(<<>>, "open") = <<"open">> /\ Append(<<>>, "close") = <<"close">>
    /\ Append(<<"open">>, "close") = <<"open", "close">>
    /\ Head(<<"open">>) = "open" /\ Tail(<<"open">>) = <<>>
    /\ Head(<<"close">>) = "close" /\ Tail(<<"close">>) = <<>>
    /\ Head(<<"open", "close">>) = "open" /\ Tail(<<"open", "close">>) = <<"close">>
    /\ <<"open">> # <<>> /\ <<"close">> # <<>> /\ <<"open">> # <<"close">>
    /\ <<"open", "close">> # <<>> /\ <<"open", "close">> # <<"open">>
    /\ <<"open", "close">> # <<"close">>
    /\ {<<>>, <<"open">>, <<"close">>, <<"open", "close">>} \subseteq Seq({"open", "close"})
<1>1. Append(<<"open">>, "close") = <<"open", "close">>
  <2>1. <<"open">> \in Seq({"open", "close"}) /\ <<"open", "close">> \in Seq({"open", "close"})
    OBVIOUS
  <2>2. /\ Len(<<"open">>) = 1 /\ Len(<<"open", "close">>) = 2
        /\ <<"open", "close">>[1] = "open" /\ <<"open", "close">>[2] = "close"
    OBVIOUS
  <2> DEFINE s == Append(<<"open">>, "close")
  <2>3. s \in Seq({"open", "close"}) /\ Len(s) = 2 /\ s[1] = "open" /\ s[2] = "close"
    BY <2>1, <2>2
  <2> HIDE DEF s
  <2>4. s = <<"open", "close">>
    BY <2>1, <2>2, <2>3
  <2> QED BY <2>4 DEF s
<1>2. Append(<<>>, "open") = <<"open">> /\ Append(<<>>, "close") = <<"close">>
    OBVIOUS
<1>3. /\ Head(<<"open">>) = "open" /\ Tail(<<"open">>) = <<>>
      /\ Head(<<"close">>) = "close" /\ Tail(<<"close">>) = <<>>
    OBVIOUS
<1>4. Head(<<"open", "close">>) = "open" /\ Tail(<<"open", "close">>) = <<"close">>
    OBVIOUS
<1>5. <<"open">> # <<>> /\ <<"close">> # <<>> /\ <<"open">> # <<"close">>
    OBVIOUS
<1>6. <<"open", "close">> \notin {<<>>, <<"open">>, <<"close">>}
    OBVIOUS
<1>7. {<<>>, <<"open">>, <<"close">>, <<"open", "close">>} \subseteq Seq({"open", "close"})
    OBVIOUS
<1> QED BY <1>1, <1>2, <1>3, <1>4, <1>5, <1>6, <1>7

\* A notice that is added is the only new one ...
LEMMA AtwNoticeAdded ==
    ASSUME NEW s \in Seq({"ready", "failed"}), NEW n \in {"ready", "failed"}
    PROVE  /\ Append(s, n) \in Seq({"ready", "failed"})
           /\ Atw!ElementsOf(Append(s, n)) = Atw!ElementsOf(s) \cup {n}
<1>1. DOMAIN s = 1..Len(s) /\ Len(s) \in Nat
    OBVIOUS
<1>2. DOMAIN Append(s, n) = 1..(Len(s) + 1) /\ Append(s, n)[Len(s) + 1] = n
    OBVIOUS
<1>3. Append(s, n) \in Seq({"ready", "failed"}) /\ \A i \in 1..Len(s) : Append(s, n)[i] = s[i]
    OBVIOUS
<1>4. \A x \in Atw!ElementsOf(Append(s, n)) : x \in Atw!ElementsOf(s) \cup {n}
    BY <1>1, <1>2, <1>3 DEF Atw!ElementsOf
<1>5. \A x \in Atw!ElementsOf(s) \cup {n} : x \in Atw!ElementsOf(Append(s, n))
    BY <1>1, <1>2, <1>3 DEF Atw!ElementsOf
<1> QED BY <1>3, <1>4, <1>5

\* ... and the one that is delivered was there.
LEMMA AtwNoticeTaken ==
    ASSUME NEW s \in Seq({"ready", "failed"}), s # <<>>
    PROVE  /\ Tail(s) \in Seq({"ready", "failed"})
           /\ Atw!ElementsOf(Tail(s)) \subseteq Atw!ElementsOf(s)
           /\ Head(s) \in Atw!ElementsOf(s) /\ Head(s) \in {"ready", "failed"}
<1>1. Len(s) \in Nat \ {0} /\ DOMAIN s = 1..Len(s) /\ Head(s) = s[1]
    OBVIOUS
<1>2. DOMAIN Tail(s) = 1..(Len(s) - 1) /\ \A i \in 1..(Len(s) - 1) : Tail(s)[i] = s[i + 1]
    OBVIOUS
<1>3. Tail(s) \in Seq({"ready", "failed"})
    OBVIOUS
<1> QED BY <1>1, <1>2, <1>3 DEF Atw!ElementsOf

\* Every step of the application and the three threads keeps the invariant.
LEMMA AtwStep ==
    ASSUME Atw!AtwAssumption, Atw!AtwInv, Atw!Next
    PROVE  Atw!AtwInv'
<1> USE AtwTasks DEF Atw!AtwInv, Atw!TypeOK, Atw!TasksInOrder, Atw!ControlHasReached,
        Atw!SampleHasReached, Atw!DriverIsOwned, Atw!AcceptFollowsInitialize,
        Atw!NoInitializeOnceClosed, Atw!ReadyAfterSample, Atw!AtMostOneLateAccept, Atw!ControlPcs,
        Atw!SamplerPcs, Atw!Closing, Atw!MonitorFree, Atw!Go, Atw!CloseSession, Atw!ControlRest,
        Atw!SamplerRest, Atw!appVars, Atw!sessionVars, Atw!driverVars, Atw!history
<1>1. CASE Atw!Start
  <2> DEFINE Kept   == opening' = opening /\ controlTasks' = controlTasks /\ notices' = notices
             Failed == /\ opening' = opening /\ controlTasks' = controlTasks
                       /\ notices' = Append(notices, "failed")
             Opens  == /\ ~opening /\ ~closed /\ opening'
                       /\ controlTasks' = Append(controlTasks, "open") /\ notices' = notices
  <2>1. Kept \/ Failed \/ Opens
    BY <1>1 DEF Atw!Start, Atw!OpenDevice, Atw!Fail
  <2>2. /\ starts' = starts + 1 /\ asking' \in {asking, asking + 1}
        /\ UNCHANGED <<closed, control, then, session, discoveryClosed, Atw!sessionVars,
                      Atw!driverVars, Atw!history>>
    BY <1>1 DEF Atw!Start
  <2>3. CASE Kept
    BY <2>2, <2>3
  <2>4. CASE Failed
    <3>1. /\ notices' \in Seq({"ready", "failed"})
          /\ "ready" \in Atw!ElementsOf(notices') => "ready" \in Atw!ElementsOf(notices)
      BY <2>4, AtwNoticeAdded
    <3> QED BY <2>2, <2>4, <3>1
  <2>5. CASE Opens
    <3>1. controlTasks = <<>> /\ controlTasks' = <<"open">> /\ control = "idle"
      BY <2>5
    <3> QED BY <2>2, <2>5, <3>1
  <2> QED BY <2>1, <2>3, <2>4, <2>5
<1>2. CASE Atw!PermissionResult
  <2> DEFINE Kept   == opening' = opening /\ controlTasks' = controlTasks /\ notices' = notices
             Failed == /\ opening' = opening /\ controlTasks' = controlTasks
                       /\ notices' = Append(notices, "failed")
             Opens  == /\ ~opening /\ ~closed /\ opening'
                       /\ controlTasks' = Append(controlTasks, "open") /\ notices' = notices
  <2>1. Kept \/ Failed \/ Opens
    BY <1>2 DEF Atw!PermissionResult, Atw!OpenDevice, Atw!Fail
  <2>2. /\ asking' = asking - 1 /\ asking' \in Nat /\ starts' = starts
        /\ UNCHANGED <<closed, control, then, session, discoveryClosed, Atw!sessionVars,
                      Atw!driverVars, Atw!history>>
    BY <1>2 DEF Atw!PermissionResult
  <2>3. CASE Kept
    BY <2>2, <2>3
  <2>4. CASE Failed
    <3>1. /\ notices' \in Seq({"ready", "failed"})
          /\ "ready" \in Atw!ElementsOf(notices') => "ready" \in Atw!ElementsOf(notices)
      BY <2>4, AtwNoticeAdded
    <3> QED BY <2>2, <2>4, <3>1
  <2>5. CASE Opens
    <3>1. controlTasks = <<>> /\ controlTasks' = <<"open">> /\ control = "idle"
      BY <2>5
    <3> QED BY <2>2, <2>5, <3>1
  <2> QED BY <2>1, <2>3, <2>4, <2>5
<1>3. CASE Atw!Close
  <2>1. Atw!TypeOK'
    BY <1>3 DEF Atw!Close
  <2>2. Atw!TasksInOrder'
    BY <1>3 DEF Atw!Close
  <2>3. Atw!ControlHasReached'
    BY <1>3 DEF Atw!Close
  <2>4. Atw!SampleHasReached'
    BY <1>3 DEF Atw!Close
  <2>5. Atw!DriverIsOwned'
    BY <1>3 DEF Atw!Close
  <2>6. Atw!AcceptFollowsInitialize'
    BY <1>3 DEF Atw!Close
  <2>7. Atw!NoInitializeOnceClosed'
    BY <1>3 DEF Atw!Close
  <2>8. Atw!ReadyAfterSample'
    BY <1>3 DEF Atw!Close
  <2>9. Atw!AtMostOneLateAccept'
    BY <1>3 DEF Atw!Close
  <2> QED BY <2>1, <2>2, <2>3, <2>4, <2>5, <2>6, <2>7, <2>8, <2>9
<1>4. CASE Atw!Notice
  <2>1. /\ notices' \in Seq({"ready", "failed"})
        /\ "ready" \in Atw!ElementsOf(notices') => "ready" \in Atw!ElementsOf(notices)
        /\ Head(notices) \in Atw!ElementsOf(notices) /\ Head(notices) \in {"ready", "failed"}
    BY <1>4, AtwNoticeTaken DEF Atw!Notice
  <2>2. told' \subseteq told \cup {Head(notices)} /\ (closed => told' = told)
    BY <1>4 DEF Atw!Notice
  <2>3. /\ notices # <<>>
        /\ UNCHANGED <<Atw!appVars, controlTasks, control, then, session, discoveryClosed,
                      Atw!sessionVars, Atw!driverVars, initialized, accepted, lateAccepts>>
    BY <1>4 DEF Atw!Notice
  <2>4. Atw!TypeOK'
    BY <2>1, <2>2, <2>3
  <2>5. Atw!SampleHasReached' /\ Atw!ReadyAfterSample'
    BY <2>1, <2>2, <2>3
  <2> QED BY <2>3, <2>4, <2>5
<1>5. CASE Atw!NextTask
  <2>1. Atw!TypeOK'
    BY <1>5 DEF Atw!NextTask
  <2>2. Atw!TasksInOrder'
    BY <1>5 DEF Atw!NextTask
  <2>3. Atw!ControlHasReached'
    BY <1>5 DEF Atw!NextTask
  <2>4. Atw!SampleHasReached'
    BY <1>5 DEF Atw!NextTask
  <2>5. Atw!DriverIsOwned'
    BY <1>5 DEF Atw!NextTask
  <2>6. Atw!AcceptFollowsInitialize'
    BY <1>5 DEF Atw!NextTask
  <2>7. Atw!NoInitializeOnceClosed'
    BY <1>5 DEF Atw!NextTask
  <2>8. Atw!ReadyAfterSample'
    BY <1>5 DEF Atw!NextTask
  <2>9. Atw!AtMostOneLateAccept'
    BY <1>5 DEF Atw!NextTask
  <2> QED BY <2>1, <2>2, <2>3, <2>4, <2>5, <2>6, <2>7, <2>8, <2>9
<1>6. CASE Atw!OpenBegins
    BY <1>6 DEF Atw!OpenBegins
<1>7. CASE Atw!OpenDriver
    BY <1>7 DEF Atw!OpenDriver
<1>8. CASE Atw!OpenFails
    BY <1>8 DEF Atw!OpenFails
<1>9. CASE Atw!Opened
    BY <1>9 DEF Atw!Opened
<1>10. CASE Atw!Lock
    BY <1>10 DEF Atw!Lock
<1>11. CASE Atw!Initialized
    BY <1>11 DEF Atw!Initialized
<1>12. CASE Atw!InitializeFails
    BY <1>12 DEF Atw!InitializeFails
<1>13. CASE Atw!StartSamples
    BY <1>13 DEF Atw!StartSamples
<1>14. CASE Atw!FirstSample
    BY <1>14, AtwNoticeAdded DEF Atw!FirstSample
<1>15. CASE Atw!NoSample
    BY <1>15 DEF Atw!NoSample
<1>16. CASE Atw!Report
    BY <1>16, AtwNoticeAdded DEF Atw!Report, Atw!Fail
<1>17. CASE Atw!Finally
    BY <1>17 DEF Atw!Finally
<1>18. CASE Atw!StopAccepting
  <2>1. Atw!TypeOK'
    BY <1>18 DEF Atw!StopAccepting
  <2>2. Atw!TasksInOrder'
    BY <1>18 DEF Atw!StopAccepting
  <2>3. Atw!ControlHasReached'
    BY <1>18 DEF Atw!StopAccepting
  <2>4. Atw!SampleHasReached'
    BY <1>18 DEF Atw!StopAccepting
  <2>5. Atw!DriverIsOwned'
    BY <1>18 DEF Atw!StopAccepting
  <2>6. Atw!AcceptFollowsInitialize'
    BY <1>18 DEF Atw!StopAccepting
  <2>7. Atw!NoInitializeOnceClosed'
    BY <1>18 DEF Atw!StopAccepting
  <2>8. Atw!ReadyAfterSample'
    BY <1>18 DEF Atw!StopAccepting
  <2>9. Atw!AtMostOneLateAccept'
    BY <1>18 DEF Atw!StopAccepting
  <2> QED BY <2>1, <2>2, <2>3, <2>4, <2>5, <2>6, <2>7, <2>8, <2>9
<1>19. CASE Atw!Invalidate
    BY <1>19 DEF Atw!Invalidate
<1>20. CASE Atw!JoinDriver
    BY <1>20 DEF Atw!JoinDriver
<1>21. CASE Atw!CloseDiscovery
    BY <1>21 DEF Atw!CloseDiscovery
<1>22. CASE Atw!Calibration
    BY <1>22 DEF Atw!Calibration
<1>23. CASE Atw!SampleArrives
    BY <1>23 DEF Atw!SampleArrives
<1>24. CASE Atw!PassesActive
    BY <1>24 DEF Atw!PassesActive, Atw!Pass
<1>25. CASE Atw!PassesAccepting
    BY <1>25 DEF Atw!PassesAccepting, Atw!Pass
<1>26. CASE Atw!PassesOpen
    BY <1>26 DEF Atw!PassesOpen
<1>27. CASE Atw!Accept
    BY <1>27 DEF Atw!Accept
<1>28. CASE Atw!CountDown
    BY <1>28 DEF Atw!CountDown
<1> QED
    BY <1>1, <1>2, <1>3, <1>4, <1>5, <1>6, <1>7, <1>8, <1>9, <1>10, <1>11, <1>12, <1>13, <1>14,
       <1>15, <1>16, <1>17, <1>18, <1>19, <1>20, <1>21, <1>22, <1>23, <1>24, <1>25, <1>26, <1>27,
       <1>28 DEF Atw!Next, Atw!ControlStep, Atw!SamplerStep

\* It holds at first ...
LEMMA AtwInitial == Atw!Init => Atw!AtwInv
<1> SUFFICES ASSUME Atw!Init PROVE Atw!AtwInv
    OBVIOUS
<1> USE AtwTasks DEF Atw!Init
<1>1. Atw!TypeOK
  <2>1. notices \in Seq({"ready", "failed"}) /\ told \in SUBSET {"ready", "failed"}
    OBVIOUS
  <2> QED BY <2>1 DEF Atw!TypeOK, Atw!ControlPcs, Atw!SamplerPcs
<1>2. Atw!TasksInOrder /\ Atw!ControlHasReached /\ Atw!DriverIsOwned
    BY DEF Atw!TasksInOrder, Atw!ControlHasReached, Atw!DriverIsOwned, Atw!Closing
<1>3. Atw!SampleHasReached
    BY DEF Atw!SampleHasReached, Atw!ElementsOf
<1>4. Atw!AcceptFollowsInitialize /\ Atw!NoInitializeOnceClosed
    BY DEF Atw!AcceptFollowsInitialize, Atw!NoInitializeOnceClosed
<1>5. Atw!ReadyAfterSample /\ Atw!AtMostOneLateAccept
    BY DEF Atw!ReadyAfterSample, Atw!AtMostOneLateAccept
<1> QED BY <1>1, <1>2, <1>3, <1>4, <1>5 DEF Atw!AtwInv

\* ... and while the other parts take their steps.
LEMMA AtwStutters == Atw!AtwInv /\ UNCHANGED atwVars => Atw!AtwInv'
BY DEF atwVars, Atw!AtwInv, Atw!TypeOK, Atw!TasksInOrder, Atw!ControlHasReached,
   Atw!SampleHasReached, Atw!DriverIsOwned, Atw!AcceptFollowsInitialize, Atw!NoInitializeOnceClosed,
   Atw!ReadyAfterSample, Atw!AtMostOneLateAccept, Atw!ElementsOf, Atw!Closing

-----------------------------------------------------------------------------
(* The composition                                                         *)

\* A step of the composition is one of the part it is about.
LEMMA SessionsStep ==
    ASSUME [SessionsNext]_sessionsVars
    PROVE  /\ Next \/ UNCHANGED vars
           /\ Xbx!Next \/ UNCHANGED xbxVars
           /\ Atw!Next \/ UNCHANGED atwVars
<1>1. CASE UNCHANGED sessionsVars
    BY <1>1 DEF sessionsVars
<1>2. CASE SessionsNext
    BY <1>2 DEF SessionsNext
<1> QED BY <1>1, <1>2

\* GlassesPermission: however requests overlap each is under way once, and glasses
\* that are asked for one after the other get the answer about themselves.
THEOREM SessionsPermissionInv == SessionsSpec => []PermissionInv
<1>1. SessionsInit => PermissionInv
    BY PermissionAssumption, PermissionInitial DEF SessionsInit
<1>2. PermissionInv /\ [SessionsNext]_sessionsVars => PermissionInv'
    BY PermissionAssumption, SessionsStep, PermissionStep, PermissionStutters
<1> QED BY <1>1, <1>2, PTL DEF SessionsSpec

\* XrealXbxSession: the handshake is done once, and the handle outlives the calls on
\* it unless close() gave up on a thread or did not see it.
THEOREM SessionsSessionInv == SessionsSpec => []SessionInv
<1>1. SessionsInit => SessionInv
    BY XbxInitial DEF SessionsInit, SessionInv
<1>2. SessionInv /\ [SessionsNext]_sessionsVars => SessionInv'
    BY SessionsAssumption, SessionsStep, XbxStep, XbxStutters DEF SessionInv
<1> QED BY <1>1, <1>2, PTL DEF SessionsSpec

\* PhoneAtwConnection: the consumer is initialized before it is given samples, never
\* once the connection is closed, and the driver belongs to what closes it.
THEOREM SessionsAtwInv == SessionsSpec => []AtwInv
<1>1. SessionsInit => AtwInv
    BY AtwInitial DEF SessionsInit, AtwInv
<1>2. AtwInv /\ [SessionsNext]_sessionsVars => AtwInv'
    BY SessionsAssumption, SessionsStep, AtwStep, AtwStutters DEF AtwInv
<1> QED BY <1>1, <1>2, PTL DEF SessionsSpec

=============================================================================
