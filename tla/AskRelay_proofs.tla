--------------------------- MODULE AskRelay_proofs ---------------------------
(***************************************************************************)
(* Proofs about AskRelay: a question ends once, everybody is told that     *)
(* end, and its hook hears of it at most once, for any questions, PWAs and *)
(* limits.  And about Receipts: what a card says of a request that is over *)
(* is what was asked and what was sent from here, after any steps, and a   *)
(* command in tokens is the command.                                       *)
(***************************************************************************)
EXTENDS MCAskRelay, Folding, FiniteSetTheorems, TLAPS

AnswerFrame == [type : {"ask_user_question_answer"}, id : Questions, answer : Answers]
Kinds == {"answered", "expired"}

(* Facts about data. *)

\* How the hook is told that a question ended is nothing else it may be.
LEMMA ResultsApart == {None, New, Waiting, Gone, Unknown} \cap Results = {}
BY DEF None, New, Waiting, Gone, Unknown, Results

LEMMA HookStatesApart ==
    /\ New # Waiting /\ New # Gone /\ New # Unknown
    /\ Waiting # Gone /\ Waiting # Unknown /\ Gone # Unknown
BY DEF New, Waiting, Gone, Unknown

LEMMA ResultKind == \A r \in Results : r[1] \in Kinds
BY DEF Results, Kinds

\* SetToSeq lists the elements of a finite set, all of them.
LEMMA SetToSeqLists ==
    ASSUME NEW S, IsFiniteSet(S)
    PROVE  /\ Cardinality(S) \in Nat
           /\ \A i \in 1..Cardinality(S) : SetToSeq(S)[i] \in S
           /\ \A x \in S : \E i \in 1..Cardinality(S) : SetToSeq(S)[i] = x
<1> DEFINE n == Cardinality(S)
           q == SetToSeq(S)
<1>1. n \in Nat /\ ExistsBijection(1..n, S)
  BY FS_CardinalityType
<1>2. PICK f \in Bijection(1..n, S) : TRUE
  BY <1>1 DEF ExistsBijection
<1>3. f \in [1..n -> S] /\ IsInjective(f)
  BY <1>2 DEF Bijection, Injection, IsInjective
<1>4. q \in [1..n -> S] /\ IsInjective(q)
  BY <1>3 DEF SetToSeq
<1> HIDE DEF q
<1>5. q \in Injection(1..n, S)
  BY <1>4 DEF Injection
<1>6. IsFiniteSet(1..n) /\ Cardinality(1..n) = n
  BY <1>1, FS_Interval
<1>7. q \in Surjection(1..n, S)
  BY <1>5, <1>6, FS_Injection
<1>8. \A x \in S : \E i \in 1..n : q[i] = x
  BY <1>7 DEF Surjection
<1> HIDE DEF n
<1> QED BY <1>1, <1>4, <1>8 DEF n, q

\* The list without the card at i, where it is the only one of its question.
LEMMA RemoveFirstShape ==
    ASSUME NEW s \in Seq(Questions), IsInjective(s), NEW i \in 1..Len(s)
    PROVE  LET left == RemoveFirst(s, s[i])
           IN  /\ left \in Seq(Questions) /\ Len(left) = Len(s) - 1
               /\ \A k \in 1..Len(left) : left[k] = IF k < i THEN s[k] ELSE s[k + 1]
<1> DEFINE q == s[i]
           left == RemoveAt(s, i)
<1>1. {j \in 1..Len(s) : s[j] = q} = {i}
  BY DEF IsInjective
<1>2. Min({i}) = i
  BY DEF Min
<1>3. SelectInSeq(s, LAMBDA v : v = q) = i
  BY <1>1, <1>2 DEF SelectInSeq
<1>4. RemoveFirst(s, q) = RemoveAt(s, i)
  BY <1>3 DEF RemoveFirst
<1>5. /\ left \in Seq(Questions) /\ Len(left) = Len(s) - 1
      /\ \A k \in 1..Len(left) : left[k] = IF k < i THEN s[k] ELSE s[k + 1]
  <2> DEFINE a == SubSeq(s, 1, i - 1)
             b == SubSeq(s, i + 1, Len(s))
  <2>1. /\ a \in Seq(Questions) /\ Len(a) = i - 1
        /\ \A k \in 1..(i - 1) : a[k] = s[k]
    OBVIOUS
  <2>2. /\ b \in Seq(Questions) /\ Len(b) = Len(s) - i
        /\ \A k \in 1..(Len(s) - i) : b[k] = s[i + k]
    OBVIOUS
  <2>3. left = a \o b
    BY DEF RemoveAt
  <2> HIDE DEF a, b, left
  <2>4. i \in Nat /\ Len(s) \in Nat /\ 1 <= i /\ i <= Len(s)
    OBVIOUS
  <2>5. left \in Seq(Questions) /\ Len(left) = Len(a) + Len(b)
    BY <2>1, <2>2, <2>3, ConcatProperties
  <2>6. Len(left) = Len(s) - 1
    BY <2>1, <2>2, <2>4, <2>5
  <2>7. ASSUME NEW k \in 1..Len(left)
        PROVE  left[k] = IF k < i THEN s[k] ELSE s[k + 1]
    <3>1. left[k] = IF k <= Len(a) THEN a[k] ELSE b[k - Len(a)]
      BY <2>1, <2>2, <2>3, <2>5
    <3>2. CASE k < i
      BY <3>1, <3>2, <2>1, <2>4
    <3>3. CASE ~ k < i
      <4>1. k - Len(a) \in 1..(Len(s) - i) /\ i + (k - Len(a)) = k + 1
        BY <2>1, <2>4, <2>6, <3>3
      <4> QED BY <3>1, <3>3, <4>1, <2>1, <2>2, <2>4
    <3> QED BY <3>2, <3>3
  <2> QED BY <2>5, <2>6, <2>7
<1> QED BY <1>4, <1>5

\* A card that is dropped leaves the others in their order, each once.
LEMMA RemoveFirstCards ==
    ASSUME NEW s \in Seq(Questions), IsInjective(s), NEW q
    PROVE  /\ RemoveFirst(s, q) \in Seq(Questions) /\ IsInjective(RemoveFirst(s, q))
           /\ \A r \in Range(s) : r # q => r \in Range(RemoveFirst(s, q))
           /\ \A r \in Range(RemoveFirst(s, q)) : r \in Range(s) /\ r # q
<1>1. CASE ~ \E i \in 1..Len(s) : s[i] = q
  <2>1. RemoveFirst(s, q) = s
    BY <1>1 DEF RemoveFirst
  <2>2. \A r \in Range(s) : r # q
    BY <1>1 DEF Range
  <2> QED BY <2>1, <2>2
<1>2. ASSUME NEW i \in 1..Len(s), s[i] = q
      PROVE  /\ RemoveFirst(s, q) \in Seq(Questions) /\ IsInjective(RemoveFirst(s, q))
             /\ \A r \in Range(s) : r # q => r \in Range(RemoveFirst(s, q))
             /\ \A r \in Range(RemoveFirst(s, q)) : r \in Range(s) /\ r # q
  <2> DEFINE left == RemoveFirst(s, q)
  <2>1. /\ left \in Seq(Questions) /\ Len(left) = Len(s) - 1
        /\ \A k \in 1..Len(left) : left[k] = IF k < i THEN s[k] ELSE s[k + 1]
    BY <1>2, RemoveFirstShape
  <2> HIDE DEF left
  <2>2. IsInjective(left)
    <3> SUFFICES ASSUME NEW j \in 1..Len(left), NEW k \in 1..Len(left), left[j] = left[k]
                 PROVE  j = k
      BY <2>1 DEF IsInjective
    <3>1. \A m, n \in 1..Len(s) : s[m] = s[n] => m = n
      BY DEF IsInjective
    <3>2. Len(left) = Len(s) - 1 /\ Len(s) \in Nat
      BY <2>1
    <3>3. CASE j < i /\ k < i
      BY <2>1, <3>1, <3>2, <3>3
    <3>4. CASE j < i /\ ~ k < i
      BY <2>1, <3>1, <3>2, <3>4
    <3>5. CASE ~ j < i /\ k < i
      BY <2>1, <3>1, <3>2, <3>5
    <3>6. CASE ~ j < i /\ ~ k < i
      BY <2>1, <3>1, <3>2, <3>6
    <3> QED BY <3>3, <3>4, <3>5, <3>6
  <2>3. ASSUME NEW r \in Range(s), r # q
        PROVE  r \in Range(left)
    <3>1. Len(s) \in Nat /\ DOMAIN s = 1..Len(s) /\ DOMAIN left = 1..Len(left)
      BY <2>1
    <3>2. PICK j \in 1..Len(s) : s[j] = r
      BY <2>3, <3>1 DEF Range
    <3>3. CASE j < i
      BY <2>1, <3>1, <3>2, <3>3 DEF Range
    <3>4. CASE ~ j < i
      <4>1. j # i
        BY <1>2, <2>3, <3>2
      <4>2. j - 1 \in 1..Len(left) /\ ~ j - 1 < i /\ (j - 1) + 1 = j
        BY <2>1, <3>1, <3>4, <4>1
      <4>3. left[j - 1] = r
        BY <2>1, <3>2, <4>2
      <4> QED BY <3>1, <4>2, <4>3 DEF Range
    <3> QED BY <3>3, <3>4
  <2>4. ASSUME NEW r \in Range(left)
        PROVE  r \in Range(s) /\ r # q
    <3>1. Len(s) \in Nat /\ DOMAIN s = 1..Len(s) /\ DOMAIN left = 1..Len(left)
      BY <2>1
    <3>2. PICK k \in 1..Len(left) : left[k] = r
      BY <2>4, <3>1 DEF Range
    <3>3. PICK j \in 1..Len(s) : j # i /\ s[j] = r
      <4>1. CASE k < i
        <5>1. k \in 1..Len(s) /\ k # i /\ s[k] = r
          BY <2>1, <3>1, <3>2, <4>1
        <5> QED BY <5>1
      <4>2. CASE ~ k < i
        <5>1. k + 1 \in 1..Len(s) /\ k + 1 # i /\ s[k + 1] = r
          BY <2>1, <3>1, <3>2, <4>2
        <5> QED BY <5>1
      <4> QED BY <4>1, <4>2
    <3>4. r # q
      BY <1>2, <3>1, <3>3 DEF IsInjective
    <3>5. r \in Range(s)
      BY <3>1, <3>3 DEF Range
    <3> QED BY <3>4, <3>5
  <2> QED BY <2>1, <2>2, <2>3, <2>4 DEF left
<1> QED BY <1>1, <1>2

-----------------------------------------------------------------------------
(* The inductive invariant, in parts by the variables they speak of.       *)

QuestionTypes ==
    /\ hook \in [Questions -> {New, Waiting, Gone, Unknown} \cup Results]
    /\ reply \in [Questions -> Seq(Results \cup {Unknown})]
    /\ ended \in [Questions -> Results \cup {None}]
    /\ askToClient \subseteq Questions /\ late \subseteq Questions

\* A question that is held has no end yet and its hook waits; a hook hears at
\* most once, and of nothing but the end.
HeldIsOpen ==
    \A q \in Questions :
        /\ q \in askToClient => hook[q] = Waiting /\ ended[q] = None /\ reply[q] = <<>>
        /\ hook[q] = New => ended[q] = None /\ reply[q] = <<>>
        /\ hook[q] \in Results => hook[q] = ended[q]
        /\ reply[q] # <<>> =>
              /\ hook[q] = Waiting
              /\ \/ reply[q] = <<Unknown>>
                 \/ ended[q] \in Results /\ reply[q] = <<ended[q]>>

HookInv == QuestionTypes /\ HeldIsOpen

\* A frame that says a question has ended says how it did.
Tells(f, table) ==
    f.type = "ask_user_question_resolved" =>
        table[f.id] \in Results /\ f.resolution = table[f.id][1]

SaysEnd(c, table) == \A i \in 1..Len(c) : Tells(c[i], table)

QueueInv ==
    /\ queued \in Seq(HubFrame) /\ toHub \in Seq(HubFrame)
    /\ SaysEnd(queued, ended) /\ SaysEnd(toHub, ended)

AnswerInv == answers \in Seq(AnswerFrame)

NoHello(c) == \A i \in 1..Len(c) : c[i].type # "hello"

HubInv ==
    /\ cache \subseteq Questions
    /\ toPwa \in [Pwas -> Seq(HubFrame)]
    /\ \A p \in Pwas : SaysEnd(toPwa[p], ended) /\ NoHello(toPwa[p])

View == [cards : {c \in Seq(Questions) : IsInjective(c)},
         sent : SUBSET Questions, picked : SUBSET Questions,
         told : [Questions -> {"none"} \cup Kinds]]

Told(view, table) ==
    \A q \in Questions :
        view.told[q] # "none" => table[q] \in Results /\ view.told[q] = table[q][1]

ViewInv ==
    /\ pwa = [p \in Pwas |-> [online |-> pwa[p].online, view |-> pwa[p].view]]
    /\ \A p \in Pwas : pwa[p].view \in View /\ Told(pwa[p].view, ended)

AskInv == HookInv /\ QueueInv /\ AnswerInv /\ HubInv /\ ViewInv

\* The ends a PWA will not be told are of questions.
UnheardTyped == unheard \in [Pwas -> SUBSET Questions]

LEMMA AskInvImplies == AskInv => ToldIsEnd /\ (UnheardTyped => TypeOK)
<1> SUFFICES ASSUME AskInv PROVE ToldIsEnd /\ (UnheardTyped => TypeOK)
  OBVIOUS
<1>1. ASSUME UnheardTyped PROVE TypeOK
  <2>1. unheard \in [Pwas -> SUBSET Questions]
    BY <1>1 DEF UnheardTyped
  <2> QED BY <2>1 DEF AskInv, HookInv, QuestionTypes, QueueInv, AnswerInv, HubInv, ViewInv,
             View, AnswerFrame, TypeOK, Range
<1>2. ToldIsEnd
  BY DEF AskInv, QueueInv, HubInv, ViewInv, SaysEnd, Tells, Told, ToldIsEnd
<1> QED BY <1>1, <1>2

LEMMA AskInvInit == Init => AskInv
<1> SUFFICES ASSUME Init PROVE AskInv
  OBVIOUS
<1>1. HookInv
  BY ResultsApart, HookStatesApart DEF Init, HookInv, QuestionTypes, HeldIsOpen
<1>2. QueueInv /\ AnswerInv /\ HubInv
  BY DEF Init, QueueInv, AnswerInv, HubInv, SaysEnd, NoHello
<1>3. NoView \in View /\ Told(NoView, ended)
  BY DEF NoView, View, Told, IsInjective
<1>4. ViewInv
  BY <1>3 DEF Init, ViewInv
<1> QED BY <1>1, <1>2, <1>4 DEF AskInv

-----------------------------------------------------------------------------
(* Channels. *)

\* No end of the first table is another in the second.
Stands(table, later) == \A q \in Questions : table[q] \in Results => later[q] = table[q]

LEMMA HubFrameIds ==
    ASSUME NEW f \in HubFrame
    PROVE  /\ f.type \in {"hello", "ask_user_question_request", "ask_user_question_resolved"}
           /\ f.type # "hello" => f.id \in Questions
           /\ f.type = "ask_user_question_resolved" => f.resolution \in Kinds
BY DEF HubFrame, Kinds

LEMMA SaysKept ==
    ASSUME NEW c \in Seq(HubFrame), NEW table, NEW later,
           SaysEnd(c, table), Stands(table, later)
    PROVE  SaysEnd(c, later)
<1> SUFFICES ASSUME NEW i \in 1..Len(c), c[i].type = "ask_user_question_resolved"
             PROVE  later[c[i].id] \in Results /\ c[i].resolution = later[c[i].id][1]
  BY DEF SaysEnd, Tells
<1>1. c[i].id \in Questions
  BY HubFrameIds
<1>2. table[c[i].id] \in Results /\ c[i].resolution = table[c[i].id][1]
  BY DEF SaysEnd, Tells
<1> QED BY <1>1, <1>2 DEF Stands

LEMMA SaysAppend ==
    ASSUME NEW c \in Seq(HubFrame), NEW f \in HubFrame, NEW table,
           SaysEnd(c, table), Tells(f, table)
    PROVE  Append(c, f) \in Seq(HubFrame) /\ SaysEnd(Append(c, f), table)
BY DEF SaysEnd

LEMMA SaysTail ==
    ASSUME NEW c \in Seq(HubFrame), c # <<>>, NEW table, SaysEnd(c, table)
    PROVE  /\ Tail(c) \in Seq(HubFrame) /\ SaysEnd(Tail(c), table)
           /\ Head(c) \in HubFrame /\ Tells(Head(c), table)
BY DEF SaysEnd

LEMMA SaysConcat ==
    ASSUME NEW c \in Seq(HubFrame), NEW d \in Seq(HubFrame), NEW table,
           SaysEnd(c, table), SaysEnd(d, table)
    PROVE  c \o d \in Seq(HubFrame) /\ SaysEnd(c \o d, table)
BY DEF SaysEnd

\* A list of open questions says nothing of an end.
LEMMA RequestsSayNothing ==
    ASSUME NEW S \in SUBSET Questions, NEW table
    PROVE  LET c == [i \in 1..Cardinality(S) |-> Request(SetToSeq(S)[i])]
           IN  c \in Seq(HubFrame) /\ SaysEnd(c, table)
<1>1. IsFiniteSet(S)
  BY QuestionsAssumption, FS_Subset
<1>2. Cardinality(S) \in Nat /\ \A i \in 1..Cardinality(S) : SetToSeq(S)[i] \in Questions
  BY <1>1, SetToSeqLists
<1>3. \A i \in 1..Cardinality(S) :
        Request(SetToSeq(S)[i]) \in HubFrame /\ Tells(Request(SetToSeq(S)[i]), table)
  BY <1>2 DEF Request, HubFrame, Tells
<1> HIDE DEF Request
<1> DEFINE c == [i \in 1..Cardinality(S) |-> Request(SetToSeq(S)[i])]
<1>4. c \in Seq(HubFrame) /\ Len(c) = Cardinality(S)
  BY <1>2, <1>3
<1>5. SaysEnd(c, table)
  BY <1>3, <1>4 DEF SaysEnd
<1> QED BY <1>4, <1>5

LEMMA HelloSaysNothing ==
    ASSUME NEW table
    PROVE  <<Hello>> \in Seq(HubFrame) /\ SaysEnd(<<Hello>>, table)
BY DEF Hello, HubFrame, SaysEnd, Tells

\* hub.send() of a frame that tells the truth.
LEMMA SendKeepsQueues ==
    ASSUME QueueInv, Stands(ended, ended'), NEW f \in HubFrame, Tells(f, ended'), HubSend(f)
    PROVE  QueueInv'
<1>1. SaysEnd(queued, ended') /\ SaysEnd(toHub, ended')
  BY SaysKept DEF QueueInv
<1>2. CASE link = "up"
  BY <1>1, <1>2, SaysAppend DEF QueueInv, HubSend
<1>3. CASE link # "up"
  BY <1>1, <1>3, SaysAppend DEF QueueInv, HubSend
<1> QED BY <1>2, <1>3

\* What is untouched still tells the truth where ends stand.
LEMMA UntouchedTells ==
    ASSUME AskInv, Stands(ended, ended')
    PROVE  /\ UNCHANGED <<queued, toHub>> => QueueInv'
           /\ UNCHANGED <<cache, toPwa>> => HubInv'
           /\ UNCHANGED pwa => ViewInv'
           /\ UNCHANGED answers => AnswerInv'
<1>1. UNCHANGED <<queued, toHub>> => QueueInv'
  BY SaysKept DEF AskInv, QueueInv
<1>2. UNCHANGED <<cache, toPwa>> => HubInv'
  BY SaysKept DEF AskInv, HubInv
<1>3. UNCHANGED pwa => ViewInv'
  BY DEF AskInv, ViewInv, Told, Stands
<1> QED BY <1>1, <1>2, <1>3 DEF AskInv, AnswerInv

LEMMA EndsStand == ASSUME UNCHANGED ended PROVE Stands(ended, ended')
BY DEF Stands

-----------------------------------------------------------------------------
(* The hook and the daemon. *)

LEMMA AskKeeps ==
    ASSUME AskInv, NEW q \in Questions, HookAsks(q)
    PROVE  AskInv'
<1>1. /\ hook[q] = New /\ hook' = [hook EXCEPT ![q] = Waiting]
      /\ UNCHANGED <<late, ended, answers, cache, toPwa, pwa>>
  BY DEF HookAsks, pwaVars
<1>2. Stands(ended, ended')
  BY <1>1, EndsStand
<1>3. HookInv'
  <2>1. CASE live
    BY <1>1, <2>1, ResultsApart, HookStatesApart DEF AskInv, HookInv, QuestionTypes, HeldIsOpen, HookAsks
  <2>2. CASE ~live
    <3>1. reply' = [reply EXCEPT ![q] = <<Unknown>>] /\ askToClient' = askToClient
      BY <2>2 DEF HookAsks
    <3>2. <<Unknown>> \in Seq(Results \cup {Unknown})
      OBVIOUS
    <3>3. QuestionTypes'
      BY <1>1, <3>1, <3>2 DEF AskInv, HookInv, QuestionTypes
    <3>4. HeldIsOpen'
      BY <1>1, <3>1, ResultsApart, HookStatesApart DEF AskInv, HookInv, QuestionTypes, HeldIsOpen
    <3> QED BY <3>3, <3>4 DEF HookInv
  <2> QED BY <2>1, <2>2
<1>4. QueueInv'
  <2>1. Request(q) \in HubFrame /\ Tells(Request(q), ended')
    BY DEF Request, HubFrame, Tells
  <2>2. CASE live
    BY <1>2, <2>1, <2>2, SendKeepsQueues DEF HookAsks, AskInv
  <2>3. CASE ~live
    BY <1>2, <2>3, UntouchedTells DEF HookAsks
  <2> QED BY <2>2, <2>3
<1> QED BY <1>1, <1>2, <1>3, <1>4, UntouchedTells DEF AskInv

\* The one frame on the socket of a hook is how its question ended.
LEMMA HearKeeps ==
    ASSUME AskInv, NEW q \in Questions, HookHears(q)
    PROVE  AskInv'
<1>1. /\ reply[q] # <<>> /\ hook' = [hook EXCEPT ![q] = Head(reply[q])]
      /\ reply' = [reply EXCEPT ![q] = Tail(@)]
      /\ UNCHANGED <<askToClient, late, ended, queued, toHub, answers, cache, toPwa, pwa>>
  BY DEF HookHears, daemonVars, linkVars, pwaVars
<1>2. PICK r \in Results \cup {Unknown} :
        reply[q] = <<r>> /\ (r = Unknown \/ (r \in Results /\ ended[q] = r))
  BY <1>1 DEF AskInv, HookInv, HeldIsOpen
<1>3. hook' = [hook EXCEPT ![q] = r] /\ reply' = [reply EXCEPT ![q] = <<>>]
  BY <1>1, <1>2
<1>4. q \notin askToClient
  BY <1>1 DEF AskInv, HookInv, HeldIsOpen
<1>5. QuestionTypes'
  BY <1>1, <1>3 DEF AskInv, HookInv, QuestionTypes
<1>6. HeldIsOpen'
  BY <1>1, <1>2, <1>3, <1>4, ResultsApart, HookStatesApart DEF AskInv, HookInv, QuestionTypes, HeldIsOpen
<1> QED BY <1>1, <1>5, <1>6, EndsStand, UntouchedTells DEF AskInv, HookInv

LEMMA HangUpKeeps ==
    ASSUME AskInv, NEW q \in Questions, HookHangsUp(q)
    PROVE  AskInv'
<1>1. /\ hook[q] = Waiting /\ hook' = [hook EXCEPT ![q] = Gone]
      /\ reply' = [reply EXCEPT ![q] = <<>>] /\ askToClient' = askToClient \ {q}
      /\ UNCHANGED <<late, ended, queued, toHub, answers, cache, toPwa, pwa>>
  BY DEF HookHangsUp, linkVars, pwaVars
<1>2. HookInv'
  BY <1>1, ResultsApart, HookStatesApart DEF AskInv, HookInv, QuestionTypes, HeldIsOpen
<1> QED BY <1>1, <1>2, EndsStand, UntouchedTells DEF AskInv

\* The end of a question that is held.
LEMMA EndKeeps ==
    ASSUME AskInv, NEW q \in askToClient, NEW result \in Results, End(q, result),
           UNCHANGED <<hook, late>>
    PROVE  HookInv' /\ QueueInv' /\ Stands(ended, ended')
<1>1. /\ q \in Questions /\ hook[q] = Waiting /\ ended[q] = None /\ reply[q] = <<>>
  BY DEF AskInv, HookInv, QuestionTypes, HeldIsOpen
<1>2. /\ askToClient' = askToClient \ {q} /\ ended' = [ended EXCEPT ![q] = result]
      /\ HubSend(Resolved(q, result[1]))
  BY DEF End
<1>3. reply' = [reply EXCEPT ![q] = <<result>>]
  BY <1>1 DEF End, ReplyTo
<1>4. Stands(ended, ended')
  BY <1>1, <1>2, ResultsApart DEF AskInv, HookInv, QuestionTypes, Stands
<1>5. <<result>> \in Seq(Results \cup {Unknown})
  OBVIOUS
<1>6. QuestionTypes'
  BY <1>2, <1>3, <1>5 DEF AskInv, HookInv, QuestionTypes
<1>7. HeldIsOpen'
  BY <1>1, <1>2, <1>3, ResultsApart, HookStatesApart DEF AskInv, HookInv, QuestionTypes, HeldIsOpen
<1>8. ended'[q] = result
  BY <1>1, <1>2 DEF AskInv, HookInv, QuestionTypes
<1>9. Resolved(q, result[1]) \in HubFrame /\ Tells(Resolved(q, result[1]), ended')
  BY <1>1, <1>8, ResultKind DEF Resolved, HubFrame, Kinds, Tells
<1>10. QueueInv'
  BY <1>2, <1>4, <1>9, SendKeepsQueues DEF AskInv
<1> QED BY <1>4, <1>6, <1>7, <1>10 DEF HookInv

LEMMA ExpireKeeps ==
    ASSUME AskInv, NEW q \in Questions, Deadline(q) \/ Expire(q)
    PROVE  AskInv'
<1>1. CASE Deadline(q)
  <2>1. /\ late' = late \cup {q}
        /\ UNCHANGED <<hook, reply, askToClient, ended, queued, toHub, answers, cache, toPwa, pwa>>
    BY <1>1 DEF Deadline, hookVars, linkVars, pwaVars
  <2>2. HookInv'
    BY <2>1 DEF AskInv, HookInv, QuestionTypes, HeldIsOpen
  <2> QED BY <2>1, <2>2, EndsStand, UntouchedTells DEF AskInv
<1>2. CASE Expire(q)
  <2>1. /\ q \in askToClient /\ End(q, <<"expired">>)
        /\ UNCHANGED <<hook, late, answers, cache, toPwa, pwa>>
    BY <1>2 DEF Expire, pwaVars
  <2>2. <<"expired">> \in Results
    BY DEF Results
  <2>3. HookInv' /\ QueueInv' /\ Stands(ended, ended')
    BY <2>1, <2>2, EndKeeps
  <2> QED BY <2>1, <2>3, UntouchedTells DEF AskInv
<1> QED BY <1>1, <1>2

\* An answer ends a question that is held, and is dropped otherwise.
LEMMA AnswerEnds ==
    ASSUME AskInv, OnAnswer
    PROVE  LET f == Head(answers)
           IN  \/ /\ f.id \in askToClient /\ <<"answered", f.answer>> \in Results
                  /\ End(f.id, <<"answered", f.answer>>)
               \/ UNCHANGED <<askToClient, ended, reply, queued, toHub>>
<1> DEFINE f == Head(answers)
<1>1. f \in AnswerFrame
  BY DEF OnAnswer, AskInv, AnswerInv
<1>2. <<"answered", f.answer>> \in Results
  BY <1>1 DEF AnswerFrame, Results
<1> QED BY <1>2 DEF OnAnswer

LEMMA OnAnswerKeeps ==
    ASSUME AskInv, OnAnswer
    PROVE  AskInv'
<1>1. /\ answers # <<>> /\ answers' = Tail(answers)
      /\ UNCHANGED <<hook, late, cache, toPwa, pwa>>
  BY DEF OnAnswer, pwaVars
<1>2. AnswerInv'
  BY <1>1 DEF AskInv, AnswerInv
<1>3. HookInv' /\ QueueInv' /\ Stands(ended, ended')
  <2>1. CASE UNCHANGED <<askToClient, ended, reply, queued, toHub>>
    <3>1. HookInv'
      BY <1>1, <2>1 DEF AskInv, HookInv, QuestionTypes, HeldIsOpen
    <3> QED BY <2>1, <3>1, EndsStand, UntouchedTells
  <2> QED BY <1>1, <2>1, AnswerEnds, EndKeeps
<1> QED BY <1>1, <1>2, <1>3, UntouchedTells DEF AskInv

\* With the process of the daemon all sockets end.
LEMMA RestartKeeps ==
    ASSUME AskInv, DaemonRestart
    PROVE  AskInv'
<1>1. /\ hook' = [q \in Questions |-> IF hook[q] = Waiting THEN Gone ELSE hook[q]]
      /\ reply' = [q \in Questions |-> <<>>] /\ askToClient' = {}
      /\ queued' = <<>> /\ toHub' = <<>> /\ answers' = <<>> /\ cache' = {}
      /\ UNCHANGED <<late, ended, toPwa, pwa>>
  BY DEF DaemonRestart, pwaVars
<1>2. HookInv'
  BY <1>1, ResultsApart, HookStatesApart DEF AskInv, HookInv, QuestionTypes, HeldIsOpen
<1>3. QueueInv' /\ AnswerInv'
  BY <1>1 DEF QueueInv, AnswerInv, SaysEnd
<1>4. HubInv'
  BY <1>1 DEF AskInv, HubInv
<1> QED BY <1>1, <1>2, <1>3, <1>4, EndsStand, UntouchedTells DEF AskInv

-----------------------------------------------------------------------------
(* The hub and the PWAs. *)

LEMMA LinkKeeps ==
    ASSUME AskInv, LinkUp \/ LinkDown
    PROVE  AskInv'
<1>1. UNCHANGED <<hook, reply, askToClient, late, ended, toPwa, pwa>>
  BY DEF LinkUp, LinkDown, hookVars, daemonVars, pwaVars
<1>2. HookInv'
  BY <1>1 DEF AskInv, HookInv, QuestionTypes, HeldIsOpen
<1>3. Stands(ended, ended')
  BY <1>1, EndsStand
<1>4. CASE LinkUp
  <2> DEFINE c == [i \in 1..Cardinality(askToClient \ late) |->
                      Request(SetToSeq(askToClient \ late)[i])]
  <2>1. askToClient \ late \in SUBSET Questions
    BY DEF AskInv, HookInv, QuestionTypes
  <2>2. c \in Seq(HubFrame) /\ SaysEnd(c, ended)
    BY <2>1, RequestsSayNothing
  <2>3. toHub' = <<Hello>> \o c \o queued /\ queued' = <<>> /\ UNCHANGED <<answers, cache>>
    BY <1>4 DEF LinkUp
  <2> HIDE DEF c
  <2>4. <<Hello>> \o c \in Seq(HubFrame) /\ SaysEnd(<<Hello>> \o c, ended)
    BY <2>2, HelloSaysNothing, SaysConcat
  <2>5. toHub' \in Seq(HubFrame) /\ SaysEnd(toHub', ended)
    BY <2>3, <2>4, SaysConcat DEF AskInv, QueueInv
  <2>6. QueueInv'
    BY <1>1, <2>3, <2>5 DEF QueueInv, SaysEnd
  <2> QED BY <1>1, <1>2, <1>3, <2>3, <2>6, UntouchedTells DEF AskInv
<1>5. CASE LinkDown
  <2>1. toHub' = <<>> /\ answers' = <<>> /\ cache' = {} /\ UNCHANGED queued
    BY <1>5 DEF LinkDown
  <2>2. QueueInv' /\ AnswerInv' /\ HubInv'
    BY <1>1, <2>1 DEF AskInv, QueueInv, AnswerInv, HubInv, SaysEnd
  <2> QED BY <1>1, <1>2, <1>3, <2>2, UntouchedTells DEF AskInv
<1> QED BY <1>4, <1>5

LEMMA HubReceiveKeeps ==
    ASSUME AskInv, HubReceive
    PROVE  AskInv'
<1> DEFINE f == Head(toHub)
<1>1. /\ toHub # <<>> /\ toHub' = Tail(toHub)
      /\ UNCHANGED <<hook, reply, askToClient, late, ended, queued, answers, pwa>>
  BY DEF HubReceive, hookVars, daemonVars
<1>2. HookInv'
  BY <1>1 DEF AskInv, HookInv, QuestionTypes, HeldIsOpen
<1>3. f \in HubFrame /\ Tells(f, ended)
  BY <1>1, SaysTail DEF AskInv, QueueInv
<1>4. QueueInv'
  BY <1>1, SaysTail DEF AskInv, QueueInv
<1>5. cache' \subseteq Questions
  BY <1>3, HubFrameIds DEF HubReceive, AskInv, HubInv
<1>6. \/ UNCHANGED toPwa
      \/ f.type # "hello" /\ toPwa' = [p \in Pwas |-> IF pwa[p].online THEN Append(toPwa[p], f) ELSE toPwa[p]]
  BY DEF HubReceive, ToEveryPwa
<1> HIDE DEF f
<1>7. \A p \in Pwas :
        toPwa'[p] \in Seq(HubFrame) /\ SaysEnd(toPwa'[p], ended) /\ NoHello(toPwa'[p])
  <2> SUFFICES ASSUME NEW p \in Pwas
               PROVE  toPwa'[p] \in Seq(HubFrame) /\ SaysEnd(toPwa'[p], ended) /\ NoHello(toPwa'[p])
    OBVIOUS
  <2>1. toPwa[p] \in Seq(HubFrame) /\ SaysEnd(toPwa[p], ended) /\ NoHello(toPwa[p])
    BY DEF AskInv, HubInv
  <2>2. Append(toPwa[p], f) \in Seq(HubFrame) /\ SaysEnd(Append(toPwa[p], f), ended)
    BY <1>3, <2>1, SaysAppend
  <2>3. toPwa'[p] = toPwa[p] \/ (f.type # "hello" /\ toPwa'[p] = Append(toPwa[p], f))
    BY <1>6
  <2>4. f.type # "hello" => NoHello(Append(toPwa[p], f))
    BY <1>3, <2>1 DEF NoHello
  <2> QED BY <2>1, <2>2, <2>3, <2>4
<1>8. HubInv'
  <2>1. toPwa' = [p \in Pwas |-> toPwa'[p]]
    BY <1>6 DEF AskInv, HubInv
  <2> QED BY <1>1, <1>5, <1>7, <2>1 DEF HubInv
<1> QED BY <1>1, <1>2, <1>4, <1>8, EndsStand, UntouchedTells DEF AskInv

\* The reducer keeps the view well formed and believes what it is told.
LEMMA ReduceKeeps ==
    ASSUME NEW view \in View, NEW f \in HubFrame, f.type # "hello", NEW table,
           Told(view, table), Tells(f, table)
    PROVE  Reduce(view, f) \in View /\ Told(Reduce(view, f), table)
<1>1. f.id \in Questions
  BY HubFrameIds
<1>2. CASE f.type = "ask_user_question_request"
  <2>1. CASE f.id \in Range(view.cards)
    BY <1>2, <2>1 DEF Reduce, AddCard
  <2>2. CASE f.id \notin Range(view.cards)
    <3> DEFINE cards == Append(view.cards, f.id)
    <3>1. cards \in Seq(Questions)
      BY <1>1 DEF View
    <3>2. IsInjective(cards)
      BY <1>1, <2>2 DEF View, IsInjective, Range
    <3>3. Reduce(view, f) = [view EXCEPT !.cards = cards]
      BY <1>2, <2>2 DEF Reduce, AddCard
    <3> HIDE DEF cards
    <3> QED BY <3>1, <3>2, <3>3 DEF View, Told
  <2> QED BY <2>1, <2>2
<1>3. CASE f.type # "ask_user_question_request"
  <2> DEFINE left == RemoveFirst(view.cards, f.id)
             picked == IF left = <<>> THEN {} ELSE view.picked
  <2>1. left \in Seq(Questions) /\ IsInjective(left)
    BY RemoveFirstCards DEF View
  <2>2. Reduce(view, f) = [cards |-> left, sent |-> view.sent \ {f.id}, picked |-> picked,
                           told |-> [view.told EXCEPT ![f.id] = f.resolution]]
    BY <1>3 DEF Reduce, DropCard, View
  <2>3. f.type = "ask_user_question_resolved" /\ f.resolution \in Kinds
    BY <1>3, HubFrameIds
  <2> HIDE DEF left
  <2>4. picked \in SUBSET Questions
    BY DEF View
  <2> HIDE DEF picked
  <2>5. Reduce(view, f) \in View
    BY <1>1, <2>1, <2>2, <2>3, <2>4 DEF View
  <2>6. Told(Reduce(view, f), table)
    BY <1>1, <2>2, <2>3 DEF View, Told, Tells
  <2> QED BY <2>5, <2>6
<1> QED BY <1>2, <1>3

\* The PWAs' part of a step that leaves the daemon and its ends alone.
LEMMA PwaStep ==
    ASSUME AskInv, HubInv', ViewInv', AnswerInv',
           UNCHANGED <<hook, reply, askToClient, late, ended, queued, toHub>>
    PROVE  AskInv'
<1>1. HookInv'
  BY DEF AskInv, HookInv, QuestionTypes, HeldIsOpen
<1>2. QueueInv'
  BY DEF AskInv, QueueInv
<1> QED BY <1>1, <1>2 DEF AskInv

\* One view is replaced by one that is as well formed and as true.
LEMMA ViewChange ==
    ASSUME ViewInv, UNCHANGED ended, NEW p \in Pwas,
           pwa' = [o \in Pwas |-> IF o = p THEN pwa'[p] ELSE pwa[o]],
           pwa'[p] = [online |-> pwa'[p].online, view |-> pwa'[p].view],
           pwa'[p].view \in View, Told(pwa'[p].view, ended)
    PROVE  ViewInv'
<1>1. \A o \in Pwas : pwa[o] = [online |-> pwa[o].online, view |-> pwa[o].view]
  BY DEF ViewInv
<1>2. \A o \in Pwas : pwa'[o] = [online |-> pwa'[o].online, view |-> pwa'[o].view]
  BY <1>1
<1>3. pwa' = [o \in Pwas |-> pwa'[o]]
  OBVIOUS
<1>4. pwa' = [o \in Pwas |-> [online |-> pwa'[o].online, view |-> pwa'[o].view]]
  BY <1>2, <1>3
<1>5. \A o \in Pwas : pwa'[o].view \in View /\ Told(pwa'[o].view, ended')
  BY DEF ViewInv
<1> QED BY <1>4, <1>5 DEF ViewInv

\* A step that gives a PWA another view.
LEMMA NewView ==
    ASSUME ViewInv, UNCHANGED ended, NEW p \in Pwas, NEW view \in View, Told(view, ended),
           pwa' = [pwa EXCEPT ![p].view = view]
    PROVE  ViewInv'
<1>1. DOMAIN pwa = Pwas /\ pwa[p] = [online |-> pwa[p].online, view |-> pwa[p].view]
  BY DEF ViewInv
<1>2. pwa'[p] = [pwa[p] EXCEPT !.view = view]
  BY <1>1
<1>3. pwa'[p] = [online |-> pwa[p].online, view |-> view]
  BY <1>1, <1>2
<1>4. pwa' = [o \in Pwas |-> IF o = p THEN pwa'[p] ELSE pwa[o]]
  BY <1>1
<1> QED BY <1>3, <1>4, ViewChange

\* A view whose cards stand and whose marks are questions is a view still.
LEMMA MarksKeep ==
    ASSUME NEW old \in View, NEW S \in SUBSET Questions, Told(old, ended)
    PROVE  /\ [old EXCEPT !.sent = S] \in View /\ Told([old EXCEPT !.sent = S], ended)
           /\ [old EXCEPT !.picked = S] \in View /\ Told([old EXCEPT !.picked = S], ended)
BY DEF View, Told

LEMMA PwaReceiveKeeps ==
    ASSUME AskInv, NEW p \in Pwas, PwaReceive(p)
    PROVE  AskInv'
<1> DEFINE f == Head(toPwa[p])
           view == Reduce(pwa[p].view, f)
<1>1. /\ toPwa[p] # <<>> /\ toPwa' = [toPwa EXCEPT ![p] = Tail(@)]
      /\ pwa' = [pwa EXCEPT ![p].view = view]
      /\ UNCHANGED <<hook, reply, askToClient, late, ended, queued, toHub, answers, cache>>
  BY DEF PwaReceive, hookVars, daemonVars, linkVars
<1>2. /\ toPwa[p] \in Seq(HubFrame) /\ SaysEnd(toPwa[p], ended) /\ NoHello(toPwa[p])
      /\ pwa[p].view \in View /\ Told(pwa[p].view, ended)
  BY DEF AskInv, HubInv, ViewInv
<1>3. /\ Tail(toPwa[p]) \in Seq(HubFrame) /\ SaysEnd(Tail(toPwa[p]), ended)
      /\ f \in HubFrame /\ Tells(f, ended)
  BY <1>1, <1>2, SaysTail
<1>4. f.type # "hello" /\ NoHello(Tail(toPwa[p]))
  BY <1>1, <1>2 DEF NoHello
<1>5. view \in View /\ Told(view, ended)
  BY <1>2, <1>3, <1>4, ReduceKeeps
<1> HIDE DEF f, view
<1>7. ViewInv'
  BY <1>1, <1>5, NewView DEF AskInv
<1>8. HubInv'
  BY <1>1, <1>3, <1>4 DEF AskInv, HubInv
<1>9. AnswerInv'
  BY <1>1 DEF AskInv, AnswerInv
<1> QED BY <1>1, <1>7, <1>8, <1>9, PwaStep

\* The first card of a view is one of the questions.
LEMMA FirstCard ==
    ASSUME NEW view \in View, view.cards # <<>>
    PROVE  Head(view.cards) \in Questions
BY DEF View

LEMMA PickKeeps ==
    ASSUME AskInv, NEW p \in Pwas, Pick(p)
    PROVE  AskInv'
<1> DEFINE old == pwa[p].view
           view == [old EXCEPT !.picked = {Head(old.cards)}]
<1>1. /\ old.cards # <<>>
      /\ pwa' = [pwa EXCEPT ![p].view.picked = {Head(old.cards)}]
      /\ UNCHANGED <<hook, reply, askToClient, late, ended, queued, toHub, answers, cache, toPwa>>
  BY DEF Pick, hookVars, daemonVars, linkVars
<1>2. old \in View /\ Told(old, ended)
  BY DEF AskInv, ViewInv
<1>3. view \in View /\ Told(view, ended)
  BY <1>1, <1>2, FirstCard, MarksKeep
<1>4. pwa' = [pwa EXCEPT ![p].view = view]
  BY <1>1
<1> HIDE DEF view
<1>5. ViewInv'
  BY <1>1, <1>3, <1>4, NewView DEF AskInv
<1>6. HubInv' /\ AnswerInv'
  BY <1>1 DEF AskInv, HubInv, AnswerInv
<1> QED BY <1>1, <1>5, <1>6, PwaStep

\* A change of the pending answers of a view.
LEMMA SentKeeps ==
    ASSUME AskInv, NEW p \in Pwas, NEW S \in SUBSET Questions,
           pwa' = [pwa EXCEPT ![p].view.sent = S], UNCHANGED ended
    PROVE  ViewInv'
<1> DEFINE view == [pwa[p].view EXCEPT !.sent = S]
<1>1. pwa[p].view \in View /\ Told(pwa[p].view, ended)
  BY DEF AskInv, ViewInv
<1>2. view \in View /\ Told(view, ended)
  BY <1>1, MarksKeep
<1>3. pwa' = [pwa EXCEPT ![p].view = view]
  OBVIOUS
<1> HIDE DEF view
<1> QED BY <1>2, <1>3, NewView DEF AskInv

LEMMA SendKeeps ==
    ASSUME AskInv, NEW p \in Pwas, SendAskAnswer(p)
    PROVE  AskInv'
<1> DEFINE view == pwa[p].view
           q == Head(view.cards)
<1>1. /\ view.cards # <<>> /\ pwa' = [pwa EXCEPT ![p].view.sent = view.sent \cup {q}]
      /\ UNCHANGED <<hook, reply, askToClient, late, ended, queued, toHub, cache, toPwa>>
  BY DEF SendAskAnswer, hookVars, daemonVars, linkVars
<1>2. view \in View
  BY DEF AskInv, ViewInv
<1>3. q \in Questions /\ view.sent \cup {q} \in SUBSET Questions
  BY <1>1, <1>2, FirstCard DEF View
<1>4. ViewInv'
  BY <1>1, <1>3, SentKeeps
<1>5. PICK of \in view.picked :
        answers' = IF link = "up" THEN Append(answers, Answer(q, [by |-> p, of |-> of]))
                   ELSE answers
  BY DEF SendAskAnswer
<1>6. of \in Questions
  BY <1>2, <1>5 DEF View
<1>7. Answer(q, [by |-> p, of |-> of]) \in AnswerFrame
  BY <1>3, <1>6 DEF Answer, AnswerFrame, Answers
<1>8. AnswerInv'
  BY <1>5, <1>7 DEF AskInv, AnswerInv
<1>9. HubInv'
  BY <1>1 DEF AskInv, HubInv
<1> QED BY <1>1, <1>4, <1>8, <1>9, PwaStep

LEMMA TimeoutKeeps ==
    ASSUME AskInv, NEW p \in Pwas, NEW q \in Questions, CommandTimeout(p, q)
    PROVE  AskInv'
<1>1. /\ pwa' = [pwa EXCEPT ![p].view.sent = pwa[p].view.sent \ {q}]
      /\ UNCHANGED <<hook, reply, askToClient, late, ended, queued, toHub, answers, cache, toPwa>>
  BY DEF CommandTimeout, hookVars, daemonVars, linkVars
<1>2. pwa[p].view.sent \ {q} \in SUBSET Questions
  BY DEF AskInv, ViewInv, View
<1>3. ViewInv'
  BY <1>1, <1>2, SentKeeps
<1>4. HubInv' /\ AnswerInv'
  BY <1>1 DEF AskInv, HubInv, AnswerInv
<1> QED BY <1>1, <1>3, <1>4, PwaStep

LEMMA AwayKeeps ==
    ASSUME AskInv, NEW p \in Pwas, PwaOffline(p)
    PROVE  AskInv'
<1>1. /\ pwa' = [pwa EXCEPT ![p].online = FALSE] /\ toPwa' = [toPwa EXCEPT ![p] = <<>>]
      /\ UNCHANGED <<hook, reply, askToClient, late, ended, queued, toHub, answers, cache>>
  BY DEF PwaOffline, hookVars, daemonVars, linkVars
<1>2. pwa[p].view \in View /\ Told(pwa[p].view, ended)
  BY DEF AskInv, ViewInv
<1>3. /\ DOMAIN pwa = Pwas /\ pwa[p] = [online |-> pwa[p].online, view |-> pwa[p].view]
      /\ pwa'[p] = [pwa[p] EXCEPT !.online = FALSE]
      /\ pwa' = [o \in Pwas |-> IF o = p THEN pwa'[p] ELSE pwa[o]]
  BY <1>1 DEF AskInv, ViewInv
<1>4. pwa'[p] = [online |-> FALSE, view |-> pwa[p].view]
  BY <1>3
<1>5. ViewInv'
  BY <1>1, <1>2, <1>3, <1>4, ViewChange DEF AskInv
<1>6. HubInv' /\ AnswerInv'
  BY <1>1 DEF AskInv, HubInv, AnswerInv, SaysEnd, NoHello
<1> QED BY <1>1, <1>5, <1>6, PwaStep

LEMMA BackKeeps ==
    ASSUME AskInv, NEW p \in Pwas, PwaOnline(p)
    PROVE  AskInv'
<1> DEFINE c == [i \in 1..Cardinality(cache) |-> Request(SetToSeq(cache)[i])]
<1>1. PICK view \in {pwa[p].view, NoView} :
        pwa' = [pwa EXCEPT ![p] = [online |-> TRUE, view |-> view]]
  BY DEF PwaOnline
<1>2. /\ toPwa' = [toPwa EXCEPT ![p] = c]
      /\ UNCHANGED <<hook, reply, askToClient, late, ended, queued, toHub, answers, cache>>
  BY DEF PwaOnline, hookVars, daemonVars, linkVars
<1>3. view \in View /\ Told(view, ended)
  <2>1. NoView \in View /\ Told(NoView, ended)
    BY DEF NoView, View, Told, IsInjective
  <2>2. pwa[p].view \in View /\ Told(pwa[p].view, ended)
    BY DEF AskInv, ViewInv
  <2> QED BY <1>1, <2>1, <2>2
<1>4. ViewInv'
  <2>1. DOMAIN pwa = Pwas
    BY DEF AskInv, ViewInv
  <2>2. /\ pwa' = [o \in Pwas |-> IF o = p THEN pwa'[p] ELSE pwa[o]]
        /\ pwa'[p] = [online |-> TRUE, view |-> view]
    BY <1>1, <2>1
  <2> QED BY <1>2, <1>3, <2>2, ViewChange DEF AskInv
<1>5. cache \in SUBSET Questions
  BY DEF AskInv, HubInv
<1>6. c \in Seq(HubFrame) /\ SaysEnd(c, ended)
  BY <1>5, RequestsSayNothing
<1>7. NoHello(c)
  <2>1. Cardinality(cache) \in Nat
    BY <1>5, QuestionsAssumption, FS_Subset, FS_CardinalityType
  <2>2. \A i \in 1..Cardinality(cache) : c[i].type # "hello"
    BY DEF Request
  <2>3. Len(c) = Cardinality(cache)
    BY <2>1
  <2> QED BY <2>2, <2>3 DEF NoHello
<1> HIDE DEF c
<1>8. HubInv' /\ AnswerInv'
  BY <1>2, <1>6, <1>7 DEF AskInv, HubInv, AnswerInv
<1> QED BY <1>2, <1>4, <1>8, PwaStep

LEMMA SessionKeeps ==
    ASSUME AskInv, SessionLeaves \/ SessionReturns
    PROVE  AskInv'
<1>1. UNCHANGED <<hook, reply, askToClient, late, ended, queued, toHub, answers, cache, toPwa, pwa>>
  BY DEF SessionLeaves, SessionReturns, hookVars, linkVars, pwaVars
<1> QED BY <1>1, PwaStep, EndsStand, UntouchedTells

LEMMA StutterKeeps ==
    ASSUME AskInv, UNCHANGED vars
    PROVE  AskInv'
<1>1. UNCHANGED <<hook, reply, askToClient, late, ended, queued, toHub, answers, cache, toPwa, pwa>>
  BY DEF vars
<1> QED BY <1>1, PwaStep, EndsStand, UntouchedTells

LEMMA AskInvStep == AskInv /\ [Next]_vars => AskInv'
<1> SUFFICES ASSUME AskInv, [Next]_vars PROVE AskInv'
  OBVIOUS
<1>1. ASSUME NEW q \in Questions, HookAsks(q) PROVE AskInv'
  BY <1>1, AskKeeps
<1>2. ASSUME NEW q \in Questions, HookHears(q) PROVE AskInv'
  BY <1>2, HearKeeps
<1>3. ASSUME NEW q \in Questions, HookHangsUp(q) PROVE AskInv'
  BY <1>3, HangUpKeeps
<1>4. ASSUME NEW q \in Questions, Deadline(q) \/ Expire(q) PROVE AskInv'
  BY <1>4, ExpireKeeps
<1>5. ASSUME NEW q \in Questions, NEW p \in Pwas, CommandTimeout(p, q) PROVE AskInv'
  BY <1>5, TimeoutKeeps
<1>6. CASE OnAnswer
  BY <1>6, OnAnswerKeeps
<1>7. CASE SessionLeaves \/ SessionReturns
  BY <1>7, SessionKeeps
<1>8. CASE DaemonRestart
  BY <1>8, RestartKeeps
<1>9. CASE LinkUp \/ LinkDown
  BY <1>9, LinkKeeps
<1>10. CASE HubReceive
  BY <1>10, HubReceiveKeeps
<1>11. ASSUME NEW p \in Pwas, PwaReceive(p) PROVE AskInv'
  BY <1>11, PwaReceiveKeeps
<1>12. ASSUME NEW p \in Pwas, Pick(p) PROVE AskInv'
  BY <1>12, PickKeeps
<1>13. ASSUME NEW p \in Pwas, SendAskAnswer(p) PROVE AskInv'
  BY <1>13, SendKeeps
<1>14. ASSUME NEW p \in Pwas, PwaOffline(p) PROVE AskInv'
  BY <1>14, AwayKeeps
<1>15. ASSUME NEW p \in Pwas, PwaOnline(p) PROVE AskInv'
  BY <1>15, BackKeeps
<1>16. CASE UNCHANGED vars
  BY <1>16, StutterKeeps
<1> QED BY <1>1, <1>2, <1>3, <1>4, <1>5, <1>6, <1>7, <1>8, <1>9, <1>10, <1>11, <1>12,
          <1>13, <1>14, <1>15, <1>16 DEF Next

\* The invariant, in every behaviour.
LEMMA AskInvariant == Spec => []AskInv
BY AskInvInit, AskInvStep, PTL DEF Spec

\* A queue tells the end of questions.
LEMMA EndsOfQuestions ==
    ASSUME NEW c \in Seq(HubFrame)
    PROVE  Ends(c) \subseteq Questions
<1>1. \A i \in 1..Len(c) : c[i].type = "ask_user_question_resolved" => c[i].id \in Questions
  BY HubFrameIds
<1> QED BY <1>1 DEF Ends

\* What is missed is missed by those who miss it, on top of what they had.
LEMMA MissesAdds ==
    ASSUME UnheardTyped, NEW some, NEW S \in SUBSET Questions, Misses(some, S)
    PROVE  /\ UnheardTyped'
           /\ \A p \in Pwas : unheard[p] \subseteq unheard'[p]
           /\ \A p \in Pwas : p \in some => S \subseteq unheard'[p]
<1>1. \A p \in Pwas : unheard'[p] = IF p \in some THEN unheard[p] \cup S ELSE unheard[p]
  BY DEF Misses
<1>2. unheard' \in [Pwas -> SUBSET Questions]
  BY DEF Misses, UnheardTyped
<1> QED BY <1>1, <1>2 DEF UnheardTyped

\* An end that a PWA will not be told is never told it later.
LEMMA UnheardStep ==
    ASSUME AskInv, UnheardTyped, [Next]_vars
    PROVE  UnheardTyped' /\ \A p \in Pwas : unheard[p] \subseteq unheard'[p]
<1>1. /\ queued \in Seq(HubFrame) /\ toHub \in Seq(HubFrame)
      /\ \A p \in Pwas : toPwa[p] \in Seq(HubFrame)
      /\ askToClient \subseteq Questions
  BY DEF AskInv, QueueInv, HubInv, HookInv, QuestionTypes
<1>2. ASSUME NEW some, NEW S \in SUBSET Questions, Misses(some, S)
      PROVE  UnheardTyped' /\ \A p \in Pwas : unheard[p] \subseteq unheard'[p]
  BY <1>2, MissesAdds
<1>3. ASSUME UNCHANGED unheard
      PROVE  UnheardTyped' /\ \A p \in Pwas : unheard[p] \subseteq unheard'[p]
  BY <1>3 DEF UnheardTyped
<1>4. ASSUME NEW q \in Questions, HookHangsUp(q)
      PROVE  UnheardTyped' /\ \A p \in Pwas : unheard[p] \subseteq unheard'[p]
  <2>1. Misses(Pwas, askToClient \cap {q}) /\ askToClient \cap {q} \in SUBSET Questions
    BY <1>4 DEF HookHangsUp
  <2> QED BY <1>2, <2>1
<1>5. ASSUME LinkDown
      PROVE  UnheardTyped' /\ \A p \in Pwas : unheard[p] \subseteq unheard'[p]
  <2>1. Misses(Pwas, Ends(toHub)) /\ Ends(toHub) \in SUBSET Questions
    BY <1>1, <1>5, EndsOfQuestions DEF LinkDown
  <2> QED BY <1>2, <2>1
<1>6. ASSUME DaemonRestart
      PROVE  UnheardTyped' /\ \A p \in Pwas : unheard[p] \subseteq unheard'[p]
  <2>1. /\ Misses(Pwas, askToClient \cup Ends(toHub) \cup Ends(queued))
        /\ askToClient \cup Ends(toHub) \cup Ends(queued) \in SUBSET Questions
    BY <1>1, <1>6, EndsOfQuestions DEF DaemonRestart
  <2> QED BY <1>2, <2>1
<1>7. ASSUME HubReceive
      PROVE  UnheardTyped' /\ \A p \in Pwas : unheard[p] \subseteq unheard'[p]
  <2>1. /\ toHub # <<>>
        /\ Misses({p \in Pwas : ~ pwa[p].online}, Ends(<<Head(toHub)>>))
    BY <1>7 DEF HubReceive
  <2>2. Head(toHub) \in HubFrame
    BY <1>1, <2>1
  <2>3. <<Head(toHub)>> \in Seq(HubFrame)
    BY <2>2
  <2> QED BY <1>2, <2>1, <2>3, EndsOfQuestions
<1>8. ASSUME NEW p \in Pwas, PwaOffline(p)
      PROVE  UnheardTyped' /\ \A o \in Pwas : unheard[o] \subseteq unheard'[o]
  <2>1. Misses({p}, Ends(toPwa[p])) /\ Ends(toPwa[p]) \in SUBSET Questions
    BY <1>1, <1>8, EndsOfQuestions DEF PwaOffline
  <2> QED BY <1>2, <2>1
<1>9. ASSUME NEW q \in Questions, HookAsks(q) \/ HookHears(q) \/ Deadline(q) \/ Expire(q)
      PROVE  UNCHANGED unheard
  BY <1>9 DEF HookAsks, HookHears, Deadline, Expire
<1>10. ASSUME NEW p \in Pwas, NEW q \in Questions, CommandTimeout(p, q)
       PROVE  UNCHANGED unheard
  BY <1>10 DEF CommandTimeout
<1>11. ASSUME NEW p \in Pwas, PwaReceive(p) \/ Pick(p) \/ SendAskAnswer(p) \/ PwaOnline(p)
       PROVE  UNCHANGED unheard
  BY <1>11 DEF PwaReceive, Pick, SendAskAnswer, PwaOnline
<1>12. CASE OnAnswer \/ SessionLeaves \/ SessionReturns \/ LinkUp \/ UNCHANGED vars
  <2>1. UNCHANGED unheard
    BY <1>12 DEF OnAnswer, SessionLeaves, SessionReturns, LinkUp, vars
  <2> QED BY <1>3, <2>1
<1> QED BY <1>3, <1>4, <1>5, <1>6, <1>7, <1>8, <1>9, <1>10, <1>11, <1>12 DEF Next

LEMMA UnheardInvariant == Spec => []UnheardTyped
<1>1. Init => UnheardTyped
  BY DEF Init, UnheardTyped
<1> QED BY <1>1, UnheardStep, AskInvariant, PTL DEF Spec

\* Frames, cards and records are what the code knows, in every behaviour, for
\* any questions, PWAs and limits.
THEOREM TypeCorrect == Spec => []TypeOK
BY AskInvariant, UnheardInvariant, AskInvImplies, PTL

\* What a PWA is told of a question is how the daemon ended it: the answers of
\* onHubFrame and the timer of the question never both end one.
THEOREM ToldCorrect == Spec => []ToldIsEnd
BY AskInvariant, AskInvImplies, PTL

-----------------------------------------------------------------------------
(* The relay decides each question once. *)

RecordedOf == {q \in Questions : hook[q] # New}
HeardOf == [q \in Questions |-> IF hook[q] \in Results THEN hook[q] ELSE None]

\* What neither asks, nor ends, nor is heard does not show.
LEMMA HookStutters ==
    ASSUME UNCHANGED ended,
           \A q \in Questions :
               \/ hook'[q] = hook[q]
               \/ /\ hook[q] # New /\ hook'[q] # New
                  /\ hook[q] \notin Results /\ hook'[q] \notin Results
    PROVE  UNCHANGED <<RecordedOf, ended, HeardOf>>
<1>1. UNCHANGED RecordedOf
  BY DEF RecordedOf
<1>2. \A q \in Questions :
        (IF hook'[q] \in Results THEN hook'[q] ELSE None)
        = IF hook[q] \in Results THEN hook[q] ELSE None
  OBVIOUS
<1>3. UNCHANGED HeardOf
  BY <1>2, Zenon DEF HeardOf
<1> QED BY <1>1, <1>3

LEMMA AskMaps ==
    ASSUME AskInv, NEW q \in Questions, HookAsks(q)
    PROVE  Decision!Record(q)
<1>1. /\ hook[q] = New /\ hook' = [hook EXCEPT ![q] = Waiting] /\ UNCHANGED ended
  BY DEF HookAsks
<1>2. DOMAIN hook = Questions
  BY DEF AskInv, HookInv, QuestionTypes
<1>3. RecordedOf' = RecordedOf \cup {q}
  BY <1>1, <1>2, HookStatesApart DEF RecordedOf
<1>4. \A r \in Questions :
        (IF hook'[r] \in Results THEN hook'[r] ELSE None)
        = IF hook[r] \in Results THEN hook[r] ELSE None
  BY <1>1, <1>2, ResultsApart
<1>5. UNCHANGED HeardOf
  BY <1>4, Zenon DEF HeardOf
<1> QED BY <1>1, <1>3, <1>5 DEF Decision!Record, RecordedOf, HeardOf

LEMMA HearMaps ==
    ASSUME AskInv, NEW q \in Questions, HookHears(q)
    PROVE  Decision!Hear(q) \/ UNCHANGED <<RecordedOf, ended, HeardOf>>
<1>1. /\ reply[q] # <<>> /\ hook' = [hook EXCEPT ![q] = Head(reply[q])] /\ UNCHANGED ended
  BY DEF HookHears, daemonVars
<1>2. PICK r \in Results \cup {Unknown} :
        reply[q] = <<r>> /\ (r = Unknown \/ (r \in Results /\ ended[q] = r))
  BY <1>1 DEF AskInv, HookInv, HeldIsOpen
<1>3. hook[q] = Waiting /\ DOMAIN hook = Questions
  BY <1>1 DEF AskInv, HookInv, HeldIsOpen, QuestionTypes
<1>4. hook'[q] = r /\ \A t \in Questions \ {q} : hook'[t] = hook[t]
  BY <1>1, <1>2, <1>3
<1>5. CASE r = Unknown
  <2>1. hook[q] # New /\ hook'[q] # New /\ hook[q] \notin Results /\ hook'[q] \notin Results
    BY <1>3, <1>4, <1>5, ResultsApart, HookStatesApart
  <2> QED BY <1>1, <1>4, <2>1, HookStutters
<1>6. CASE r # Unknown
  <2>1. r \in Results /\ ended[q] = r
    BY <1>2, <1>6
  <2>2. r # New /\ r # None /\ Waiting # New /\ Waiting \notin Results
    BY <2>1, ResultsApart, HookStatesApart
  <2>3. UNCHANGED RecordedOf
    BY <1>3, <1>4, <2>2 DEF RecordedOf
  <2>4. HeardOf[q] = None
    BY <1>3, <2>2 DEF HeardOf
  <2>5. HeardOf' = [HeardOf EXCEPT ![q] = ended[q]]
    <3>1. HeardOf'[q] = ended[q]
      BY <1>4, <2>1 DEF HeardOf
    <3>2. \A t \in Questions \ {q} : HeardOf'[t] = HeardOf[t]
      BY <1>4 DEF HeardOf
    <3>3. DOMAIN HeardOf = Questions /\ DOMAIN HeardOf' = Questions
      BY DEF HeardOf
    <3>4. /\ HeardOf = [t \in Questions |-> HeardOf[t]]
          /\ HeardOf' = [t \in Questions |-> HeardOf'[t]]
      BY Zenon DEF HeardOf
    <3> HIDE DEF HeardOf
    <3> QED BY <3>1, <3>2, <3>3, <3>4
  <2> QED BY <1>1, <2>1, <2>2, <2>3, <2>4, <2>5 DEF Decision!Hear, RecordedOf, HeardOf
<1> QED BY <1>5, <1>6

\* The end of a question that is held.
LEMMA EndMaps ==
    ASSUME AskInv, NEW q \in askToClient, NEW result \in Results, End(q, result), UNCHANGED hook
    PROVE  q \in Questions /\ Decision!Decide(q, result)
<1>1. q \in Questions /\ hook[q] = Waiting /\ ended[q] = None
  BY DEF AskInv, HookInv, HeldIsOpen, QuestionTypes
<1>2. ended' = [ended EXCEPT ![q] = result]
  BY DEF End
<1>3. q \in RecordedOf
  BY <1>1, HookStatesApart DEF RecordedOf
<1>4. UNCHANGED <<RecordedOf, HeardOf>>
  BY DEF RecordedOf, HeardOf
<1> QED BY <1>1, <1>2, <1>3, <1>4 DEF Decision!Decide, RecordedOf, HeardOf

\* All the other steps stutter.
LEMMA OthersStutter ==
    ASSUME AskInv,
           \/ \E q \in Questions : \/ HookHangsUp(q) \/ Deadline(q)
                                 \/ \E p \in Pwas : CommandTimeout(p, q)
           \/ SessionLeaves \/ SessionReturns \/ DaemonRestart
           \/ LinkUp \/ LinkDown \/ HubReceive
           \/ \E p \in Pwas : \/ PwaReceive(p) \/ Pick(p) \/ SendAskAnswer(p)
                            \/ PwaOffline(p) \/ PwaOnline(p)
           \/ UNCHANGED vars
    PROVE  UNCHANGED <<RecordedOf, ended, HeardOf>>
<1>1. UNCHANGED ended
  BY DEF HookHangsUp, Deadline, CommandTimeout, SessionLeaves, SessionReturns, DaemonRestart,
         LinkUp, LinkDown, HubReceive, PwaReceive, Pick, SendAskAnswer, PwaOffline, PwaOnline,
         vars, daemonVars
<1>2. Waiting # New /\ Gone # New /\ Waiting \notin Results /\ Gone \notin Results
  BY ResultsApart, HookStatesApart
<1>3. DOMAIN hook = Questions
  BY DEF AskInv, HookInv, QuestionTypes
<1>4. CASE UNCHANGED hook
  BY <1>1, <1>4, HookStutters
<1>5. ASSUME NEW q \in Questions, HookHangsUp(q) PROVE UNCHANGED <<RecordedOf, ended, HeardOf>>
  <2>1. hook[q] = Waiting /\ hook' = [hook EXCEPT ![q] = Gone]
    BY <1>5 DEF HookHangsUp
  <2>2. hook'[q] = Gone /\ \A t \in Questions \ {q} : hook'[t] = hook[t]
    BY <1>3, <2>1
  <2> QED BY <1>1, <1>2, <2>1, <2>2, HookStutters
<1>6. CASE DaemonRestart
  <2>1. hook' = [q \in Questions |-> IF hook[q] = Waiting THEN Gone ELSE hook[q]]
    BY <1>6 DEF DaemonRestart
  <2> QED BY <1>1, <1>2, <2>1, HookStutters
<1>7. \/ UNCHANGED hook \/ DaemonRestart \/ \E q \in Questions : HookHangsUp(q)
  BY DEF Deadline, CommandTimeout, SessionLeaves, SessionReturns,
         LinkUp, LinkDown, HubReceive, PwaReceive, Pick, SendAskAnswer, PwaOffline, PwaOnline,
         vars, hookVars
<1> QED BY <1>4, <1>5, <1>6, <1>7

\* The first end of a question, an answer that arrives or its deadline, is the
\* one, nothing changes it, and its hook hears of it at most once.
THEOREM DecisionRefinement == Spec => ImplementsDecision
<1>1. Init => Decision!Init
  <2> SUFFICES ASSUME Init PROVE Decision!Init
    OBVIOUS
  <2>1. RecordedOf = {} /\ HeardOf = [q \in Questions |-> None]
    BY ResultsApart DEF Init, RecordedOf, HeardOf
  <2> QED BY <2>1 DEF Init, Decision!Init, RecordedOf, HeardOf
<1>2. AskInv /\ [Next]_vars => [Decision!Next]_(Decision!vars)
  <2> SUFFICES ASSUME AskInv, [Next]_vars PROVE [Decision!Next]_(Decision!vars)
    OBVIOUS
  <2>1. CASE UNCHANGED <<RecordedOf, ended, HeardOf>>
    BY <2>1 DEF Decision!vars, RecordedOf, HeardOf
  <2>2. ASSUME NEW q \in Questions, HookAsks(q) PROVE Decision!Next
    BY <2>2, AskMaps DEF Decision!Next
  <2>3. ASSUME NEW q \in Questions, HookHears(q)
        PROVE  Decision!Next \/ UNCHANGED <<RecordedOf, ended, HeardOf>>
    BY <2>3, HearMaps DEF Decision!Next
  <2>4. ASSUME NEW q \in Questions, Expire(q) PROVE Decision!Next
    <3>1. q \in askToClient /\ <<"expired">> \in Results /\ End(q, <<"expired">>) /\ UNCHANGED hook
      BY <2>4 DEF Expire, Results
    <3> QED BY <3>1, EndMaps DEF Decision!Next
  <2>5. ASSUME OnAnswer PROVE Decision!Next \/ UNCHANGED <<RecordedOf, ended, HeardOf>>
    <3>1. UNCHANGED hook
      BY <2>5 DEF OnAnswer
    <3>2. CASE UNCHANGED <<askToClient, ended, reply, queued, toHub>>
      BY <3>1, <3>2, HookStutters
    <3>3. CASE ~ UNCHANGED <<askToClient, ended, reply, queued, toHub>>
      <4> DEFINE f == Head(answers)
                 r == <<"answered", f.answer>>
      <4>1. f.id \in askToClient /\ r \in Results /\ End(f.id, r)
        BY <2>5, <3>3, AnswerEnds
      <4> HIDE DEF f, r
      <4>2. f.id \in Questions /\ Decision!Decide(f.id, r)
        BY <3>1, <4>1, EndMaps
      <4> QED BY <4>1, <4>2 DEF Decision!Next
    <3> QED BY <3>2, <3>3
  <2> QED BY <2>1, <2>2, <2>3, <2>4, <2>5, OthersStutter DEF Next
<1> QED BY <1>1, <1>2, AskInvariant, PTL DEF Spec, Decision!Spec, ImplementsDecision

-----------------------------------------------------------------------------
(* The cards of the PWAs and the cache of the hub.                         *)

\* A frame that asks q, a frame that speaks of q, and q asked in a queue.
Asks(f, q) == f.type = "ask_user_question_request" /\ f.id = q
About(f, q) == f.type # "hello" /\ f.id = q
AskedIn(c, q) == \E i \in 1..Len(c) : Asks(c[i], q)

\* Who has the questions S and receives all of c has q then: the last frame
\* about q asks it, or there is none and it has q already.
WillHold(S, c, q) ==
    \/ q \in S /\ \A i \in 1..Len(c) : ~ About(c[i], q)
    \/ \E i \in 1..Len(c) :
          Asks(c[i], q) /\ \A j \in 1..Len(c) : j > i => ~ About(c[j], q)

\* While the link is up nothing waits, while it is down nothing is in flight
\* and the hub has nothing; hello comes first, to a hub that has nothing.
LinkInv ==
    /\ link = "up" => queued = <<>>
    /\ link = "down" => toHub = <<>> /\ cache = {}
    /\ NoHello(queued)
    /\ \A i \in 1..Len(toHub) : toHub[i].type = "hello" => i = 1 /\ cache = {}

\* A question that can be answered is in the hub or before it, and before or in
\* front of every PWA that is online.
OfferInv ==
    link = "up" =>
        \A q \in askToClient \ late :
            /\ q \in cache \/ AskedIn(toHub, q)
            /\ \A p \in Pwas : pwa[p].online =>
                  \/ q \in Range(pwa[p].view.cards)
                  \/ AskedIn(toPwa[p], q)
                  \/ AskedIn(toHub, q)

\* Nobody will be told of the end of a question whose hook went away.
Excused(q) == hook[q] = Gone /\ \A p \in Pwas : q \in unheard[p]

\* What the hub has, once it has received all that is before it, is held by the
\* daemon, unless its hook went away.
HeldInv ==
    \A q \in Questions :
        WillHold(cache, toHub \o queued, q) => q \in askToClient \/ Excused(q)

\* The questions somebody with S has once all of c has come.
Coming(S, c) == {q \in Questions : WillHold(S, c, q)}

\* What a PWA shows once it has received all that is before it, at the hub and
\* behind it, is held by the daemon, unless its end was lost on the way to it.
ShownInv ==
    \A p \in Pwas :
        /\ ~ pwa[p].online => toPwa[p] = <<>>
        /\ \A q \in Questions :
              WillHold(Coming(Range(pwa[p].view.cards), toPwa[p]), toHub \o queued, q) =>
                  q \in askToClient \/ q \in unheard[p]

\* The inductive invariant behind the cards, beside AskInv.
CardInv == LinkInv /\ OfferInv /\ HeldInv /\ ShownInv

\* What was asked stays asked, and what is added is.
LEMMA AppendAsks ==
    ASSUME NEW c \in Seq(HubFrame), NEW f \in HubFrame, NEW q
    PROVE  /\ AskedIn(c, q) \/ Asks(f, q) => AskedIn(Append(c, f), q)
           /\ NoHello(c) /\ f.type # "hello" => NoHello(Append(c, f))
<1> DEFINE d == Append(c, f)
<1>1. /\ Len(d) = Len(c) + 1 /\ Len(c) \in Nat
      /\ \A i \in 1..Len(c) : d[i] = c[i]
      /\ d[Len(c) + 1] = f
  BY AppendProperties
<1> HIDE DEF d
<1>2. /\ \A i \in 1..Len(c) : i \in 1..Len(d)
      /\ Len(c) + 1 \in 1..Len(d)
      /\ \A i \in 1..Len(d) : i \in 1..Len(c) \/ i = Len(c) + 1
  BY <1>1
<1>3. AskedIn(c, q) \/ Asks(f, q) => AskedIn(d, q)
  BY <1>1, <1>2 DEF AskedIn
<1>4. NoHello(c) /\ f.type # "hello" => NoHello(d)
  BY <1>1, <1>2 DEF NoHello
<1> QED BY <1>3, <1>4 DEF d

\* All but the frame that is taken are still to come.
LEMMA TailAsks ==
    ASSUME NEW c \in Seq(HubFrame), c # <<>>, NEW q, AskedIn(c, q)
    PROVE  Asks(Head(c), q) \/ AskedIn(Tail(c), q)
<1> DEFINE d == Tail(c)
<1>1. /\ Len(d) = Len(c) - 1 /\ Len(c) \in Nat
      /\ \A i \in 1..Len(d) : d[i] = c[i + 1]
      /\ Head(c) = c[1]
  BY HeadTailProperties
<1> HIDE DEF d
<1>2. PICK i \in 1..Len(c) : Asks(c[i], q)
  BY DEF AskedIn
<1>3. CASE i = 1
  BY <1>1, <1>2, <1>3
<1>4. CASE i # 1
  <2>1. i - 1 \in 1..Len(d) /\ (i - 1) + 1 = i
    BY <1>1, <1>4
  <2>2. d[i - 1] = c[i]
    BY <1>1, <2>1
  <2> QED BY <1>2, <2>1, <2>2 DEF AskedIn, d
<1> QED BY <1>3, <1>4

\* What one more frame changes about who will have q.
LEMMA HoldAppend ==
    ASSUME NEW c \in Seq(HubFrame), NEW f \in HubFrame, NEW S, NEW q,
           WillHold(S, Append(c, f), q)
    PROVE  Asks(f, q) \/ (~ About(f, q) /\ WillHold(S, c, q))
<1> DEFINE d == Append(c, f)
<1>1. /\ Len(d) = Len(c) + 1 /\ Len(c) \in Nat
      /\ \A i \in 1..Len(c) : d[i] = c[i]
      /\ d[Len(c) + 1] = f
  BY AppendProperties
<1> HIDE DEF d
<1>2. /\ \A i \in 1..Len(c) : i \in 1..Len(d) /\ Len(c) + 1 > i
      /\ Len(c) + 1 \in 1..Len(d)
      /\ \A i \in 1..Len(d) : i \in 1..Len(c) \/ i = Len(c) + 1
  BY <1>1
<1>3. CASE q \in S /\ \A i \in 1..Len(d) : ~ About(d[i], q)
  BY <1>1, <1>2, <1>3 DEF WillHold
<1>4. ASSUME NEW i \in 1..Len(d), Asks(d[i], q),
             \A j \in 1..Len(d) : j > i => ~ About(d[j], q)
      PROVE  Asks(f, q) \/ (~ About(f, q) /\ WillHold(S, c, q))
  <2>1. CASE i = Len(c) + 1
    BY <1>1, <1>4, <2>1
  <2>2. CASE i \in 1..Len(c)
    <3>1. ~ About(f, q)
      BY <1>1, <1>2, <1>4, <2>2
    <3>2. Asks(c[i], q) /\ \A j \in 1..Len(c) : j > i => ~ About(c[j], q)
      BY <1>1, <1>2, <1>4, <2>2
    <3> QED BY <2>2, <3>1, <3>2 DEF WillHold
  <2> QED BY <1>2, <2>1, <2>2
<1> QED BY <1>3, <1>4 DEF WillHold, d

\* Who took the frame, and has now T, will hold what it would have held before.
LEMMA HoldTail ==
    ASSUME NEW c \in Seq(HubFrame), c # <<>>, NEW S, NEW T, NEW q,
           q \in T => Asks(Head(c), q) \/ (~ About(Head(c), q) /\ q \in S),
           WillHold(T, Tail(c), q)
    PROVE  WillHold(S, c, q)
<1> DEFINE d == Tail(c)
<1>1. /\ Len(d) = Len(c) - 1 /\ Len(c) \in Nat /\ 1 \in 1..Len(c)
      /\ \A i \in 1..Len(d) : d[i] = c[i + 1] /\ i + 1 \in 1..Len(c)
      /\ Head(c) = c[1]
  <2>1. Len(c) \in Nat /\ Len(c) # 0
    BY EmptySeq
  <2> QED BY <2>1, HeadTailProperties
<1> HIDE DEF d
<1>2. \A j \in 1..Len(c) : j = 1 \/ (j - 1 \in 1..Len(d) /\ c[j] = d[j - 1])
  <2> SUFFICES ASSUME NEW j \in 1..Len(c), j # 1
               PROVE  j - 1 \in 1..Len(d) /\ c[j] = d[j - 1]
    OBVIOUS
  <2>1. j - 1 \in 1..Len(d) /\ (j - 1) + 1 = j
    BY <1>1
  <2> QED BY <1>1, <2>1
<1>3. CASE q \in T /\ \A i \in 1..Len(d) : ~ About(d[i], q)
  <2>1. \A j \in 1..Len(c) : j # 1 => ~ About(c[j], q)
    BY <1>2, <1>3
  <2>2. CASE Asks(c[1], q)
    BY <1>1, <2>1, <2>2 DEF WillHold
  <2>3. CASE ~ About(c[1], q) /\ q \in S
    BY <2>1, <2>3 DEF WillHold
  <2> QED BY <1>1, <1>3, <2>2, <2>3
<1>4. ASSUME NEW i \in 1..Len(d), Asks(d[i], q),
             \A j \in 1..Len(d) : j > i => ~ About(d[j], q)
      PROVE  WillHold(S, c, q)
  <2>1. Asks(c[i + 1], q) /\ i + 1 \in 1..Len(c)
    BY <1>1, <1>4
  <2>2. ASSUME NEW j \in 1..Len(c), j > i + 1
        PROVE  ~ About(c[j], q)
    <3>1. j # 1 /\ j - 1 > i
      BY <1>1, <2>2
    <3> QED BY <1>2, <1>4, <3>1
  <2> QED BY <2>1, <2>2 DEF WillHold
<1> QED BY <1>3, <1>4 DEF WillHold, d

\* Frames that do not ask q give nobody q who did not have it.
LEMMA HoldSuffix ==
    ASSUME NEW c \in Seq(HubFrame), NEW d \in Seq(HubFrame), NEW q,
           NEW S, ~ AskedIn(c, q), WillHold(S, c \o d, q)
    PROVE  WillHold(S, d, q)
<1> DEFINE e == c \o d
<1>1. /\ Len(c) \in Nat /\ Len(d) \in Nat /\ Len(e) = Len(c) + Len(d)
      /\ \A i \in 1..Len(c) : e[i] = c[i]
      /\ \A i \in 1..Len(d) : e[Len(c) + i] = d[i]
  OBVIOUS
<1> HIDE DEF e
<1>2. CASE q \in S /\ \A i \in 1..Len(e) : ~ About(e[i], q)
  <2>1. \A j \in 1..Len(d) : Len(c) + j \in 1..Len(e)
    BY <1>1
  <2> QED BY <1>1, <1>2, <2>1 DEF WillHold
<1>3. ASSUME NEW i \in 1..Len(e), Asks(e[i], q),
             \A j \in 1..Len(e) : j > i => ~ About(e[j], q)
      PROVE  WillHold(S, d, q)
  <2>1. i \notin 1..Len(c)
    BY <1>1, <1>3 DEF AskedIn
  <2> DEFINE k == i - Len(c)
  <2>2. k \in 1..Len(d) /\ i = Len(c) + k
    BY <1>1, <2>1
  <2> HIDE DEF k
  <2>3. Asks(d[k], q)
    BY <1>1, <1>3, <2>2
  <2>4. ASSUME NEW j \in 1..Len(d), j > k
        PROVE  ~ About(d[j], q)
    <3>1. Len(c) + j \in 1..Len(e) /\ Len(c) + j > i
      BY <1>1, <2>2, <2>4
    <3> QED BY <1>1, <1>3, <3>1
  <2> QED BY <2>2, <2>3, <2>4 DEF WillHold
<1> QED BY <1>2, <1>3 DEF WillHold, e

\* Who has more will have no less.
LEMMA HoldMore ==
    ASSUME NEW S, NEW T, NEW c, NEW q, q \in S => q \in T, WillHold(S, c, q)
    PROVE  WillHold(T, c, q)
BY DEF WillHold

\* A question one has is kept by frames that do not tell its end.
LEMMA HoldUnresolved ==
    ASSUME NEW c \in Seq(HubFrame), NEW S, NEW q, q \in S, q \notin Ends(c)
    PROVE  WillHold(S, c, q)
<1> DEFINE s == {j \in 1..Len(c) : About(c[j], q)}
<1>1. \A j \in 1..Len(c) : c[j] \in HubFrame
  OBVIOUS
<1>2. \A j \in 1..Len(c) : About(c[j], q) => Asks(c[j], q)
  BY <1>1, HubFrameIds DEF About, Asks, Ends
<1>3. CASE s = {}
  BY <1>3 DEF WillHold
<1>4. CASE s # {}
  <2>1. s \in SUBSET (1..Len(c)) /\ Len(c) \in Nat
    OBVIOUS
  <2>2. Max(s) \in s /\ \A y \in s : Max(s) >= y
    BY <1>4, <2>1, MaxOfNumbers
  <2> DEFINE m == Max(s)
  <2>3. m \in 1..Len(c) /\ Asks(c[m], q)
    BY <1>2, <2>2
  <2>4. ASSUME NEW j \in 1..Len(c), j > m
        PROVE  ~ About(c[j], q)
    BY <2>2, <2>3, <2>4
  <2> HIDE DEF m, s
  <2> QED BY <2>3, <2>4 DEF WillHold
<1> QED BY <1>3, <1>4

\* Nothing comes out of an empty queue.
LEMMA ComingNothing ==
    ASSUME NEW S
    PROVE  \A q \in Questions : q \in Coming(S, <<>>) <=> q \in S
BY DEF Coming, WillHold

\* Two queues one after the other tell what each of them tells.
LEMMA EndsConcat ==
    ASSUME NEW c \in Seq(HubFrame), NEW d \in Seq(HubFrame)
    PROVE  Ends(c \o d) \subseteq Ends(c) \cup Ends(d)
<1> DEFINE e == c \o d
<1>1. /\ Len(c) \in Nat /\ Len(d) \in Nat /\ Len(e) = Len(c) + Len(d)
      /\ \A i \in 1..Len(c) : e[i] = c[i]
      /\ \A i \in 1..Len(d) : e[Len(c) + i] = d[i]
  OBVIOUS
<1> HIDE DEF e
<1>2. ASSUME NEW i \in 1..Len(e), e[i].type = "ask_user_question_resolved"
      PROVE  e[i].id \in Ends(c) \cup Ends(d)
  <2>1. CASE i \in 1..Len(c)
    BY <1>1, <1>2, <2>1 DEF Ends
  <2>2. CASE i \notin 1..Len(c)
    <3>1. i - Len(c) \in 1..Len(d) /\ Len(c) + (i - Len(c)) = i
      BY <1>1, <2>2
    <3>2. d[i - Len(c)] = e[i]
      BY <1>1, <3>1
    <3> QED BY <1>2, <3>1, <3>2 DEF Ends
  <2> QED BY <2>1, <2>2
<1> QED BY <1>2 DEF Ends, e

\* A listing of the questions S asks them and no other.
LEMMA ListingAsks ==
    ASSUME NEW S \in SUBSET Questions
    PROVE  LET c == [i \in 1..Cardinality(S) |-> Request(SetToSeq(S)[i])]
           IN  c \in Seq(HubFrame) /\ NoHello(c) /\ \A q : AskedIn(c, q) <=> q \in S
<1> DEFINE n == Cardinality(S)
           c == [i \in 1..n |-> Request(SetToSeq(S)[i])]
<1>1. IsFiniteSet(S)
  BY QuestionsAssumption, FS_Subset
<1>2. /\ n \in Nat
      /\ \A i \in 1..n : SetToSeq(S)[i] \in S
      /\ \A x \in S : \E i \in 1..n : SetToSeq(S)[i] = x
  BY <1>1, SetToSeqLists
<1>3. c \in Seq(HubFrame)
  BY RequestsSayNothing
<1>4. Len(c) = n /\ \A i \in 1..n : c[i] = Request(SetToSeq(S)[i])
  BY <1>2
<1>5. \A i \in 1..n : c[i].type # "hello" /\ \A q : Asks(c[i], q) <=> SetToSeq(S)[i] = q
  BY <1>4 DEF Request, Asks
<1> HIDE DEF c, n
<1>6. NoHello(c)
  BY <1>4, <1>5 DEF NoHello
<1>7. \A q : AskedIn(c, q) <=> q \in S
  BY <1>2, <1>4, <1>5 DEF AskedIn
<1> QED BY <1>3, <1>6, <1>7 DEF c, n

\* Nobody says of a held question that it has ended.
LEMMA HeldIsNotResolved ==
    ASSUME AskInv, NEW q \in askToClient, NEW f \in HubFrame, Tells(f, ended), About(f, q)
    PROVE  Asks(f, q)
<1>1. q \in Questions /\ ended[q] = None
  BY DEF AskInv, HookInv, QuestionTypes, HeldIsOpen
<1>2. ended[q] \notin Results
  BY <1>1, ResultsApart
<1> QED BY <1>2, HubFrameIds DEF Tells, About, Asks

-----------------------------------------------------------------------------
(* The steps. *)

\* A step that touches neither the link nor what the hub has, opens no question
\* and takes no card away.
LEMMA QuietCards ==
    ASSUME CardInv, UNCHANGED <<link, queued, toHub, cache>>,
           (askToClient \ late)' \subseteq askToClient \ late,
           \A q \in Questions :
               q \in askToClient \/ Excused(q) => q \in askToClient' \/ Excused(q)',
           \A p \in Pwas : pwa'[p].online =>
               /\ pwa[p].online
               /\ \A q \in askToClient' :
                     q \in Range(pwa[p].view.cards) \/ AskedIn(toPwa[p], q) =>
                         q \in Range(pwa'[p].view.cards) \/ AskedIn(toPwa'[p], q)
    PROVE  LinkInv' /\ OfferInv' /\ HeldInv'
<1>1. LinkInv'
  BY DEF CardInv, LinkInv
<1>2. OfferInv'
  BY DEF CardInv, OfferInv
<1>3. HeldInv'
  BY DEF CardInv, HeldInv
<1> QED BY <1>1, <1>2, <1>3

\* A step that leaves the frames and the cards alone, and after which what was
\* held and is not has an end that nobody is told.
LEMMA StillShown ==
    ASSUME ShownInv, UNCHANGED <<queued, toHub>>,
           \A p \in Pwas :
               /\ pwa'[p].online = pwa[p].online /\ toPwa'[p] = toPwa[p]
               /\ pwa'[p].view.cards = pwa[p].view.cards
               /\ \A q \in Questions :
                     q \in askToClient \/ q \in unheard[p] =>
                         q \in askToClient' \/ q \in unheard'[p]
    PROVE  ShownInv'
BY DEF ShownInv

\* A step that changes neither what is held nor what was lost, nor moves a frame.
LEMMA StillCards ==
    ASSUME CardInv, UNCHANGED <<link, queued, toHub, cache, askToClient, toPwa, unheard>>,
           askToClient \ late' \subseteq askToClient \ late,
           \A q \in Questions : hook[q] = Gone => hook'[q] = Gone,
           \A p \in Pwas : /\ pwa'[p].online = pwa[p].online
                          /\ pwa'[p].view.cards = pwa[p].view.cards
    PROVE  CardInv'
<1>1. ShownInv'
  BY StillShown DEF CardInv
<1>2. LinkInv' /\ OfferInv' /\ HeldInv'
  BY QuietCards DEF Excused
<1> QED BY <1>1, <1>2 DEF CardInv

\* A hook that hears, hangs up or runs out of time moves no frame of q's.
LEMMA HookCards ==
    ASSUME AskInv, UnheardTyped, CardInv, NEW q \in Questions,
           HookHears(q) \/ HookHangsUp(q) \/ Deadline(q)
    PROVE  CardInv'
<1>1. UNCHANGED <<link, queued, toHub, cache, toPwa, pwa>>
  BY DEF HookHears, HookHangsUp, Deadline, linkVars, pwaVars
<1>2. hook \in [Questions -> {New, Waiting, Gone, Unknown} \cup Results]
  BY DEF AskInv, HookInv, QuestionTypes
<1>3. CASE HookHears(q)
  <2>1. /\ reply[q] # <<>> /\ hook' = [hook EXCEPT ![q] = Head(reply[q])]
        /\ UNCHANGED <<askToClient, late, unheard>>
    BY <1>3 DEF HookHears, daemonVars
  <2>2. hook[q] # Gone
    BY <2>1, HookStatesApart DEF AskInv, HookInv, HeldIsOpen
  <2> QED BY <1>1, <1>2, <2>1, <2>2, StillCards
<1>4. CASE HookHangsUp(q)
  <2>1. /\ hook' = [hook EXCEPT ![q] = Gone] /\ askToClient' = askToClient \ {q}
        /\ UNCHANGED late /\ Misses(Pwas, askToClient \cap {q})
        /\ askToClient \cap {q} \in SUBSET Questions
    BY <1>4 DEF HookHangsUp
  <2>2. \A p \in Pwas : /\ unheard[p] \subseteq unheard'[p]
                        /\ q \in askToClient => q \in unheard'[p]
    BY <2>1, MissesAdds
  <2>3. /\ hook'[q] = Gone
        /\ \A r \in Questions : r # q => hook'[r] = hook[r] /\ (r \in askToClient' <=> r \in askToClient)
    BY <1>2, <2>1
  <2>4. ShownInv'
    BY <1>1, <2>2, <2>3, StillShown DEF CardInv
  <2>5. \A r \in Questions :
            r \in askToClient \/ Excused(r) => r \in askToClient' \/ Excused(r)'
    BY <2>2, <2>3 DEF Excused
  <2>6. LinkInv' /\ OfferInv' /\ HeldInv'
    BY <1>1, <2>1, <2>5, QuietCards
  <2> QED BY <2>4, <2>6 DEF CardInv
<1>5. CASE Deadline(q)
  BY <1>1, <1>5, StillCards DEF Deadline, hookVars
<1> QED BY <1>3, <1>4, <1>5

\* hub.send() of a frame about a question.
LEMMA SendCards ==
    ASSUME AskInv, LinkInv, NEW f \in HubFrame, f.type # "hello", HubSend(f),
           UNCHANGED <<link, cache>>
    PROVE  /\ LinkInv'
           /\ (toHub \o queued)' = Append(toHub \o queued, f)
           /\ \A q : AskedIn(toHub, q) \/ (link = "up" /\ Asks(f, q)) => AskedIn(toHub', q)
<1>1. queued \in Seq(HubFrame) /\ toHub \in Seq(HubFrame)
  BY DEF AskInv, QueueInv
<1>2. CASE link = "up"
  <2>1. toHub' = Append(toHub, f) /\ queued' = <<>> /\ queued = <<>> /\ link' = "up"
    BY <1>2 DEF HubSend, LinkInv
  <2>2. /\ Len(toHub') = Len(toHub) + 1
        /\ \A i \in 1..Len(toHub) : toHub'[i] = toHub[i]
        /\ toHub'[Len(toHub) + 1] = f
    BY <1>1, <2>1, AppendProperties
  <2>3. \A i \in 1..Len(toHub') : toHub'[i].type = "hello" => i = 1 /\ cache' = {}
    <3> SUFFICES ASSUME NEW i \in 1..Len(toHub'), toHub'[i].type = "hello"
                 PROVE  i = 1 /\ cache' = {}
      OBVIOUS
    <3>1. i \in 1..Len(toHub)
      BY <1>1, <2>2
    <3> QED BY <2>2, <3>1 DEF LinkInv
  <2>4. LinkInv'
    BY <2>1, <2>3 DEF LinkInv
  <2>5. (toHub \o queued)' = Append(toHub \o queued, f)
    <3>1. toHub \o <<>> = toHub /\ Append(toHub, f) \o <<>> = Append(toHub, f)
      BY <1>1, ConcatEmptySeq, AppendProperties
    <3> QED BY <2>1, <3>1
  <2>6. \A q : AskedIn(toHub, q) \/ Asks(f, q) => AskedIn(toHub', q)
    BY <1>1, <2>1, AppendAsks
  <2> QED BY <2>4, <2>5, <2>6
<1>3. CASE link # "up"
  <2>1. queued' = Append(queued, f) /\ toHub' = toHub /\ link' # "up"
    BY <1>3 DEF HubSend
  <2>2. NoHello(queued')
    BY <1>1, <2>1, AppendAsks DEF LinkInv
  <2>3. LinkInv'
    BY <2>1, <2>2 DEF LinkInv
  <2>4. toHub \o Append(queued, f) = Append(toHub \o queued, f)
    <3>1. /\ Append(queued, f) = queued \o <<f>> /\ toHub \o queued \in Seq(HubFrame)
          /\ <<f>> \in Seq(HubFrame)
      BY <1>1, AppendIsConcat, ConcatProperties
    <3>2. Append(toHub \o queued, f) = (toHub \o queued) \o <<f>>
      BY <3>1, AppendIsConcat
    <3> QED BY <1>1, <3>1, <3>2
  <2> QED BY <1>3, <2>1, <2>3, <2>4
<1> QED BY <1>2, <1>3

\* A frame more on its way to the hub, of a question that is held, or of one
\* that is not any more.
LEMMA SendShown ==
    ASSUME AskInv, ShownInv, NEW f \in HubFrame,
           (toHub \o queued)' = Append(toHub \o queued, f),
           UNCHANGED <<toPwa, pwa, unheard>>,
           \A q \in Questions : Asks(f, q) => q \in askToClient',
           \A q \in askToClient : ~ About(f, q) => q \in askToClient'
    PROVE  ShownInv'
<1> DEFINE c == toHub \o queued
           d == (toHub \o queued)'
<1>1. c \in Seq(HubFrame) /\ d = Append(c, f)
  BY ConcatProperties DEF AskInv, QueueInv
<1> HIDE DEF c, d
<1>2. ASSUME NEW S, NEW q \in Questions, WillHold(S, d, q)
      PROVE  q \in askToClient' \/ (~ About(f, q) /\ WillHold(S, c, q))
  <2>1. WillHold(S, Append(c, f), q)
    BY <1>1, <1>2
  <2>2. Asks(f, q) \/ (~ About(f, q) /\ WillHold(S, c, q))
    BY <1>1, <2>1, HoldAppend
  <2> QED BY <2>2
<1>3. ASSUME NEW p \in Pwas, NEW q \in Questions,
             WillHold(Coming(Range(pwa[p].view.cards), toPwa[p]), d, q)
      PROVE  q \in askToClient' \/ q \in unheard[p]
  <2> DEFINE S == Coming(Range(pwa[p].view.cards), toPwa[p])
  <2>1. WillHold(S, c, q) => q \in askToClient \/ q \in unheard[p]
    BY DEF ShownInv, c
  <2>2. WillHold(S, d, q)
    BY <1>3
  <2> HIDE DEF S
  <2> QED BY <1>2, <2>1, <2>2
<1> QED BY <1>3 DEF ShownInv, d

\* A new question is asked of the hub as soon as the daemon holds it.
LEMMA AskCards ==
    ASSUME AskInv, CardInv, NEW q \in Questions, HookAsks(q)
    PROVE  CardInv'
<1>1. /\ hook[q] = New /\ hook' = [hook EXCEPT ![q] = Waiting]
      /\ UNCHANGED <<late, link, cache, toPwa, pwa, unheard>>
  BY DEF HookAsks, pwaVars
<1>2. \A r \in Questions : hook[r] = Gone => hook'[r] = Gone
  BY <1>1, HookStatesApart DEF AskInv, HookInv, QuestionTypes
<1>3. CASE ~ live
  BY <1>1, <1>2, <1>3, StillCards DEF HookAsks
<1>4. CASE live
  <2>1. askToClient' = askToClient \cup {q} /\ HubSend(Request(q))
    BY <1>4 DEF HookAsks
  <2>2. /\ Request(q) \in HubFrame /\ Request(q).type # "hello"
        /\ Asks(Request(q), q) /\ \A r : Asks(Request(q), r) => r = q
    BY DEF Request, HubFrame, Asks
  <2>3. /\ LinkInv'
        /\ (toHub \o queued)' = Append(toHub \o queued, Request(q))
        /\ \A r : AskedIn(toHub, r) \/ (link = "up" /\ Asks(Request(q), r)) =>
                      AskedIn(toHub', r)
    BY <1>1, <2>1, <2>2, SendCards DEF CardInv
  <2>4. OfferInv'
    BY <1>1, <2>1, <2>2, <2>3 DEF CardInv, OfferInv
  <2>5. ASSUME NEW r \in Questions, WillHold(cache', (toHub \o queued)', r)
        PROVE  r \in askToClient' \/ Excused(r)'
    <3> DEFINE c == toHub \o queued
               f == Request(q)
    <3>1. c \in Seq(HubFrame)
      BY ConcatProperties DEF AskInv, QueueInv
    <3>2. WillHold(cache, Append(c, f), r)
      BY <1>1, <2>3, <2>5
    <3> HIDE DEF c, f
    <3>3. Asks(f, r) \/ WillHold(cache, c, r)
      BY <2>2, <3>1, <3>2, HoldAppend DEF f
    <3> QED BY <1>1, <1>2, <2>1, <2>2, <3>3 DEF CardInv, HeldInv, Excused, c, f
  <2>6. ShownInv'
    BY <1>1, <2>1, <2>2, <2>3, SendShown DEF CardInv
  <2> QED BY <2>3, <2>4, <2>5, <2>6 DEF CardInv, HeldInv
<1> QED BY <1>3, <1>4

\* The end of a question: its resolution is the last that is said of it.
LEMMA EndCards ==
    ASSUME AskInv, CardInv, NEW q \in askToClient, NEW result \in Results, End(q, result),
           UNCHANGED <<hook, late, link, cache, toPwa, pwa, unheard>>
    PROVE  CardInv'
<1> DEFINE f == Resolved(q, result[1])
<1>1. /\ q \in Questions /\ askToClient' = askToClient \ {q} /\ HubSend(f)
  BY DEF End, AskInv, HookInv, QuestionTypes
<1>2. /\ f \in HubFrame /\ f.type # "hello" /\ About(f, q)
      /\ \A r : ~ Asks(f, r) /\ (About(f, r) => r = q)
  BY <1>1, ResultKind DEF Resolved, HubFrame, Kinds, About, Asks
<1> HIDE DEF f
<1>3. /\ LinkInv'
      /\ (toHub \o queued)' = Append(toHub \o queued, f)
      /\ \A r : AskedIn(toHub, r) => AskedIn(toHub', r)
  BY <1>1, <1>2, SendCards DEF CardInv
<1>4. OfferInv'
  BY <1>1, <1>3 DEF CardInv, OfferInv
<1>5. ASSUME NEW r \in Questions, WillHold(cache', (toHub \o queued)', r)
      PROVE  r \in askToClient' \/ Excused(r)'
  <2> DEFINE c == toHub \o queued
  <2>1. c \in Seq(HubFrame)
    BY ConcatProperties DEF AskInv, QueueInv
  <2>2. WillHold(cache, Append(c, f), r)
    BY <1>3, <1>5
  <2> HIDE DEF c
  <2>3. ~ About(f, r) /\ WillHold(cache, c, r)
    BY <1>2, <2>1, <2>2, HoldAppend
  <2> QED BY <1>1, <1>2, <2>3 DEF CardInv, HeldInv, Excused, c
<1>6. ShownInv'
  BY <1>1, <1>2, <1>3, SendShown DEF CardInv
<1> QED BY <1>3, <1>4, <1>5, <1>6 DEF CardInv, HeldInv

\* An answer, and the time limit, end a question or change nothing.
LEMMA DaemonCards ==
    ASSUME AskInv, CardInv, OnAnswer \/ \E q \in Questions : Expire(q)
    PROVE  CardInv'
<1>1. UNCHANGED <<hook, late, link, cache, toPwa, pwa, unheard>>
  BY DEF OnAnswer, Expire, pwaVars
<1>2. CASE UNCHANGED <<askToClient, ended, reply, queued, toHub>>
  BY <1>1, <1>2, StillCards
<1>3. \A q \in Questions : Expire(q) =>
          q \in askToClient /\ <<"expired">> \in Results /\ End(q, <<"expired">>)
  BY DEF Expire, Results
<1>4. ASSUME NEW q \in Questions, Expire(q)
      PROVE  CardInv'
  BY <1>1, <1>3, <1>4, EndCards
<1>5. CASE OnAnswer
  <2> DEFINE f == Head(answers)
             r == <<"answered", f.answer>>
  <2>1. CASE f.id \in askToClient /\ r \in Results /\ End(f.id, r)
    <3> HIDE DEF f, r
    <3> QED BY <1>1, <2>1, EndCards
  <2> QED BY <1>2, <1>5, <2>1, AnswerEnds
<1> QED BY <1>4, <1>5

\* Everything on its way to the hub is lost: who had a question whose end was
\* among it, or whose hook was cut off, is not told.
LEMMA LostShown ==
    ASSUME AskInv, ShownInv, toHub' = <<>>, queued' = <<>>, UNCHANGED <<toPwa, pwa>>,
           \A p \in Pwas : /\ unheard[p] \subseteq unheard'[p]
                          /\ Ends(toHub \o queued) \subseteq unheard'[p]
                          /\ \A q \in askToClient : q \in askToClient' \/ q \in unheard'[p]
    PROVE  ShownInv'
<1> DEFINE c == toHub \o queued
<1>1. c \in Seq(HubFrame) /\ (toHub \o queued)' = <<>>
  BY ConcatProperties DEF AskInv, QueueInv
<1>2. ASSUME NEW p \in Pwas, NEW q \in Questions,
             WillHold(Coming(Range(pwa[p].view.cards), toPwa[p]), <<>>, q)
      PROVE  q \in askToClient' \/ q \in unheard'[p]
  <2> DEFINE S == Coming(Range(pwa[p].view.cards), toPwa[p])
  <2>1. WillHold(S, c, q) => q \in askToClient \/ q \in unheard[p]
    BY DEF ShownInv
  <2>2. q \in S
    BY <1>2 DEF WillHold
  <2> HIDE DEF S, c
  <2>3. q \in Ends(c) \/ WillHold(S, c, q)
    BY <1>1, <2>2, HoldUnresolved
  <2>4. Ends(c) \subseteq unheard'[p] /\ unheard[p] \subseteq unheard'[p]
    BY DEF c
  <2> QED BY <2>1, <2>3, <2>4
<1>3. \A p \in Pwas : ~ pwa[p].online => toPwa[p] = <<>>
  BY DEF ShownInv
<1> HIDE DEF c
<1> QED BY <1>1, <1>2, <1>3 DEF ShownInv

\* What goes with the daemon, or with the link, is forgotten by the hub.
LEMMA LinkDownCards ==
    ASSUME AskInv, UnheardTyped, CardInv, DaemonRestart \/ LinkDown
    PROVE  CardInv'
<1>1. link' = "down" /\ toHub' = <<>> /\ cache' = {} /\ queued' = <<>>
  BY DEF DaemonRestart, LinkDown, CardInv, LinkInv
<1>2. LinkInv' /\ OfferInv'
  BY <1>1 DEF LinkInv, OfferInv, NoHello
<1>3. \A q : ~ WillHold(cache', (toHub \o queued)', q)
  <2>1. (toHub \o queued)' = <<>>
    BY <1>1
  <2> QED BY <1>1, <2>1 DEF WillHold
<1>4. ShownInv'
  <2> DEFINE S == IF LinkDown THEN Ends(toHub) ELSE askToClient \cup Ends(toHub) \cup Ends(queued)
  <2>1. /\ queued \in Seq(HubFrame) /\ toHub \in Seq(HubFrame)
        /\ askToClient \subseteq Questions
    BY DEF AskInv, QueueInv, HookInv, QuestionTypes
  <2>2. S \in SUBSET Questions
    BY <2>1, EndsOfQuestions
  <2>3. Misses(Pwas, S) /\ UNCHANGED <<toPwa, pwa>>
    BY DEF LinkDown, DaemonRestart, pwaVars
  <2>4. Ends(toHub \o queued) \subseteq S
    <3>1. CASE LinkDown
      <4>1. queued = <<>>
        BY <3>1 DEF LinkDown, CardInv, LinkInv
      <4>2. toHub \o <<>> = toHub
        BY <2>1, ConcatEmptySeq
      <4> QED BY <3>1, <4>1, <4>2
    <3>2. CASE ~ LinkDown
      BY <2>1, <3>2, EndsConcat
    <3> QED BY <3>1, <3>2
  <2>5. \A q \in askToClient : q \in askToClient' \/ q \in S
    BY DEF LinkDown, daemonVars
  <2> HIDE DEF S
  <2>6. \A p \in Pwas : unheard[p] \subseteq unheard'[p] /\ S \subseteq unheard'[p]
    BY <2>2, <2>3, MissesAdds
  <2> QED BY <1>1, <2>3, <2>4, <2>5, <2>6, LostShown DEF CardInv
<1> QED BY <1>2, <1>3, <1>4 DEF CardInv, HeldInv

\* What follows a first frame comes one place later.
LEMMA ConcatOne ==
    ASSUME NEW S, NEW h \in Seq(S), Len(h) = 1, NEW c \in Seq(S)
    PROVE  /\ h \o c \in Seq(S) /\ Len(h \o c) = 1 + Len(c) /\ Len(c) \in Nat
           /\ (h \o c)[1] = h[1] /\ \A i \in 1..Len(c) : (h \o c)[1 + i] = c[i]
<1>1. h \o c \in Seq(S) /\ Len(h \o c) = 1 + Len(c) /\ Len(c) \in Nat
  <2>1. h \o c \in Seq(S) /\ Len(h \o c) = Len(h) + Len(c)
    BY ConcatProperties
  <2>2. Len(c) \in Nat
    OBVIOUS
  <2> QED BY <2>1, <2>2
<1>2. (h \o c)[1] = h[1]
  <2>1. 1 \in 1..(Len(h) + Len(c)) /\ 1 <= Len(h)
    BY <1>1
  <2> QED BY <2>1, ConcatProperties
<1>3. ASSUME NEW i \in 1..Len(c)
      PROVE  (h \o c)[1 + i] = c[i]
  <2>1. /\ 1 + i \in 1..(Len(h) + Len(c)) /\ ~ 1 + i <= Len(h)
        /\ (1 + i) - Len(h) = i
    BY <1>1
  <2>2. (h \o c)[1 + i] = c[(1 + i) - Len(h)]
    BY <2>1, ConcatProperties
  <2> QED BY <2>1, <2>2
<1> QED BY <1>1, <1>2, <1>3

\* The hub is told of every question that can be answered.
LEMMA LinkUpCards ==
    ASSUME AskInv, CardInv, LinkUp
    PROVE  CardInv'
<1> DEFINE S == askToClient \ late
           c == [i \in 1..Cardinality(S) |-> Request(SetToSeq(S)[i])]
           h == <<Hello>>
           q0 == queued
<1>1. S \in SUBSET Questions
  BY DEF AskInv, HookInv, QuestionTypes
<1>2. c \in Seq(HubFrame) /\ NoHello(c) /\ \A q : AskedIn(c, q) <=> q \in S
  BY <1>1, ListingAsks
<1>3. /\ link = "down" /\ link' = "up" /\ toHub' = h \o c \o q0 /\ queued' = <<>>
      /\ cache' = cache /\ cache = {} /\ toHub = <<>>
      /\ UNCHANGED <<hook, askToClient, late, toPwa, pwa, unheard>>
  BY DEF LinkUp, hookVars, daemonVars, pwaVars, CardInv, LinkInv
<1>4. q0 \in Seq(HubFrame) /\ NoHello(q0)
  BY DEF AskInv, QueueInv, CardInv, LinkInv
<1>5. h \in Seq(HubFrame) /\ Len(h) = 1 /\ \A q : ~ AskedIn(h, q)
  BY DEF Hello, HubFrame, AskedIn, Asks
<1> HIDE DEF S, c, h, q0
<1> DEFINE a == h \o c
           b == a \o q0
<1>6. /\ a \in Seq(HubFrame) /\ Len(a) = 1 + Len(c)
      /\ Len(c) \in Nat
      /\ a[1] = h[1] /\ \A i \in 1..Len(c) : a[1 + i] = c[i]
  BY <1>2, <1>5, ConcatOne
<1> HIDE DEF a
<1>7. /\ b \in Seq(HubFrame) /\ Len(b) = Len(a) + Len(q0)
      /\ Len(q0) \in Nat /\ Len(a) \in Nat
      /\ \A i \in 1..Len(a) : b[i] = a[i]
      /\ \A i \in 1..Len(q0) : b[Len(a) + i] = q0[i]
  BY <1>4, <1>6
<1> HIDE DEF b
<1>8. toHub' = b
  BY <1>3 DEF a, b
<1>9. \A i \in 1..Len(b) : b[i].type = "hello" => i = 1
  <2> SUFFICES ASSUME NEW i \in 1..Len(b), i # 1
               PROVE  b[i].type # "hello"
    OBVIOUS
  <2>1. CASE i \in 1..Len(a)
    <3>1. i - 1 \in 1..Len(c) /\ 1 + (i - 1) = i
      BY <1>6, <2>1
    <3>2. b[i] = c[i - 1]
      BY <1>6, <1>7, <2>1, <3>1
    <3> QED BY <1>2, <3>1, <3>2 DEF NoHello
  <2>2. CASE i \notin 1..Len(a)
    <3>1. i - Len(a) \in 1..Len(q0) /\ Len(a) + (i - Len(a)) = i
      BY <1>6, <1>7, <2>2
    <3>2. b[i] = q0[i - Len(a)]
      BY <1>7, <3>1
    <3> QED BY <1>4, <3>1, <3>2 DEF NoHello
  <2> QED BY <2>1, <2>2
<1>10. LinkInv'
  BY <1>3, <1>8, <1>9 DEF LinkInv, NoHello
<1>11. \A q \in S : AskedIn(b, q)
  <2> SUFFICES ASSUME NEW q \in S PROVE AskedIn(b, q)
    OBVIOUS
  <2>1. PICK i \in 1..Len(c) : Asks(c[i], q)
    BY <1>2 DEF AskedIn
  <2>2. 1 + i \in 1..Len(a) /\ 1 + i \in 1..Len(b)
    BY <1>6, <1>7
  <2>3. b[1 + i] = c[i]
    BY <1>6, <1>7, <2>2
  <2> QED BY <2>1, <2>2, <2>3 DEF AskedIn
<1>12. OfferInv'
  BY <1>3, <1>8, <1>11 DEF OfferInv, S
<1>13. (toHub \o queued)' = b /\ toHub \o queued = q0
  <2>1. b \o <<>> = b
    BY <1>7, ConcatEmptySeq
  <2>2. <<>> \o q0 = q0
    BY <1>4, ConcatEmptySeq
  <2> QED BY <1>3, <1>8, <2>1, <2>2 DEF q0
<1>14. ASSUME NEW X, NEW q \in Questions, WillHold(X, b, q)
       PROVE  q \in S \/ WillHold(X, q0, q)
  <2> SUFFICES ASSUME q \notin S PROVE WillHold(X, q0, q)
    OBVIOUS
  <2>1. ~ AskedIn(a, q)
    <3> SUFFICES ASSUME NEW i \in 1..Len(a), Asks(a[i], q) PROVE FALSE
      BY DEF AskedIn
    <3>1. CASE i = 1
      BY <1>5, <1>6, <3>1 DEF AskedIn
    <3>2. CASE i # 1
      <4>1. i - 1 \in 1..Len(c) /\ 1 + (i - 1) = i
        BY <1>6, <3>2
      <4>2. Asks(c[i - 1], q)
        BY <1>6, <4>1
      <4> QED BY <1>2, <4>1, <4>2 DEF AskedIn
    <3> QED BY <3>1, <3>2
  <2> QED BY <1>4, <1>6, <1>14, <2>1, HoldSuffix DEF b
<1>15. HeldInv'
  <2> SUFFICES ASSUME NEW q \in Questions, WillHold(cache, b, q)
               PROVE  q \in askToClient \/ Excused(q)
    BY <1>3, <1>13 DEF HeldInv, Excused
  <2>1. q \in S \/ WillHold(cache, q0, q)
    BY <1>14
  <2> QED BY <1>13, <2>1 DEF CardInv, HeldInv, S
<1>16. ShownInv'
  <2> SUFFICES ASSUME NEW p \in Pwas, NEW q \in Questions,
                      WillHold(Coming(Range(pwa[p].view.cards), toPwa[p]), b, q)
               PROVE  q \in askToClient \/ q \in unheard[p]
    BY <1>3, <1>13 DEF CardInv, ShownInv
  <2> DEFINE X == Coming(Range(pwa[p].view.cards), toPwa[p])
  <2>1. WillHold(X, q0, q) => q \in askToClient \/ q \in unheard[p]
    BY <1>13 DEF CardInv, ShownInv
  <2>2. WillHold(X, b, q)
    OBVIOUS
  <2> HIDE DEF X
  <2> QED BY <1>14, <2>1, <2>2 DEF S
<1> QED BY <1>10, <1>12, <1>15, <1>16 DEF CardInv

\* Taking the first of a queue takes the first of the queue and what follows it.
LEMMA ConcatFront ==
    ASSUME NEW S, NEW q \in Seq(S), q # <<>>, NEW t \in Seq(S)
    PROVE  q \o t # <<>> /\ Head(q \o t) = Head(q) /\ Tail(q \o t) = Tail(q) \o t
<1> DEFINE h == <<Head(q)>>
           v == Tail(q)
           w == v \o t
<1>1. Head(q) \in S /\ h \in Seq(S) /\ v \in Seq(S) /\ w \in Seq(S)
  BY HeadTailProperties, ConcatProperties
<1>2. h \o v = q
  OBVIOUS
<1>3. q \o t = h \o w
  <2> HIDE DEF h, v
  <2>1. (h \o v) \o t = h \o (v \o t)
    BY <1>1
  <2>2. QED
    BY <1>2, <2>1
<1> HIDE DEF w
<1>4. h \o w # <<>> /\ Head(h \o w) = Head(q) /\ Tail(h \o w) = w
  BY <1>1
<1>5. QED
  BY <1>3, <1>4 DEF w

\* A frame arrives at the hub.
LEMMA HubCards ==
    ASSUME AskInv, UnheardTyped, CardInv, HubReceive
    PROVE  CardInv'
<1> DEFINE f == Head(toHub)
<1>1. /\ toHub # <<>> /\ toHub' = Tail(toHub)
      /\ UNCHANGED <<hook, askToClient, late, link, queued, pwa>>
      /\ f.type = "hello" => cache' = {} /\ UNCHANGED toPwa
      /\ f.type = "ask_user_question_request" => cache' = cache \cup {f.id}
      /\ f.type = "ask_user_question_resolved" => cache' = cache \ {f.id}
  BY DEF HubReceive, hookVars, daemonVars
<1>2. f.type # "hello" =>
        toPwa' = [p \in Pwas |-> IF pwa[p].online THEN Append(toPwa[p], f) ELSE toPwa[p]]
  BY DEF HubReceive, ToEveryPwa
<1>3. /\ toHub \in Seq(HubFrame) /\ queued \in Seq(HubFrame)
      /\ f \in HubFrame /\ Tells(f, ended) /\ Tail(toHub) \in Seq(HubFrame)
  BY <1>1, SaysTail DEF AskInv, QueueInv
<1>4. /\ Len(Tail(toHub)) = Len(toHub) - 1 /\ Len(toHub) \in Nat /\ Len(toHub) # 0
      /\ \A i \in 1..Len(Tail(toHub)) : Tail(toHub)[i] = toHub[i + 1]
      /\ f = toHub[1]
  BY <1>1, <1>3, HeadTailProperties, EmptySeq
<1>5. link # "down"
  BY <1>1 DEF CardInv, LinkInv
<1>6. f.type = "hello" => cache = {}
  BY <1>4 DEF CardInv, LinkInv
<1>7. LinkInv'
  <2>1. ASSUME NEW i \in 1..Len(toHub'), toHub'[i].type = "hello"
        PROVE  FALSE
    <3>1. toHub[i + 1].type = "hello" /\ i + 1 \in 1..Len(toHub) /\ i + 1 # 1
      BY <1>1, <1>4, <2>1
    <3> QED BY <3>1 DEF CardInv, LinkInv
  <2> QED BY <1>1, <1>5, <2>1 DEF CardInv, LinkInv
<1> HIDE DEF f
<1>8. OfferInv'
  <2> SUFFICES ASSUME link = "up", NEW q \in askToClient \ late
               PROVE  /\ q \in cache' \/ AskedIn(toHub', q)
                      /\ \A p \in Pwas : pwa[p].online =>
                            \/ q \in Range(pwa[p].view.cards)
                            \/ AskedIn(toPwa'[p], q)
                            \/ AskedIn(toHub', q)
    BY <1>1 DEF OfferInv
  <2>1. AskedIn(toHub, q) => Asks(f, q) \/ AskedIn(toHub', q)
    BY <1>1, <1>3, TailAsks DEF f
  <2>2. About(f, q) => Asks(f, q)
    BY <1>3, HeldIsNotResolved
  <2>3. Asks(f, q) => q \in cache'
    BY <1>1 DEF Asks
  <2>4. q \in cache => q \in cache' \/ AskedIn(toHub', q)
    BY <1>1, <1>3, <1>6, <2>2, <2>3, HubFrameIds DEF About
  <2>5. ASSUME NEW p \in Pwas, pwa[p].online
        PROVE  /\ AskedIn(toPwa[p], q) => AskedIn(toPwa'[p], q)
               /\ Asks(f, q) => AskedIn(toPwa'[p], q)
    <3>1. toPwa[p] \in Seq(HubFrame)
      BY DEF AskInv, HubInv
    <3>2. CASE f.type = "hello"
      BY <1>1, <3>2 DEF Asks
    <3>3. CASE f.type # "hello"
      <4>1. toPwa'[p] = Append(toPwa[p], f)
        BY <1>2, <2>5, <3>3
      <4> DEFINE c == toPwa[p]
      <4>2. c \in Seq(HubFrame) /\ toPwa'[p] = Append(c, f)
        BY <3>1, <4>1
      <4> HIDE DEF c
      <4>3. AskedIn(c, q) \/ Asks(f, q) => AskedIn(toPwa'[p], q)
        BY <1>3, <4>2, AppendAsks
      <4> QED BY <4>3 DEF c
    <3> QED BY <3>2, <3>3
  <2> QED BY <2>1, <2>3, <2>4, <2>5 DEF CardInv, OfferInv
<1>9. /\ UnheardTyped' /\ \A p \in Pwas : unheard[p] \subseteq unheard'[p]
      /\ \A p \in Pwas : ~ pwa[p].online => Ends(<<f>>) \subseteq unheard'[p]
  <2>1. Misses({p \in Pwas : ~ pwa[p].online}, Ends(<<f>>))
    BY DEF HubReceive, f
  <2>2. <<f>> \in Seq(HubFrame)
    BY <1>3
  <2>3. Ends(<<f>>) \in SUBSET Questions
    BY <2>2, EndsOfQuestions
  <2> QED BY <2>1, <2>3, MissesAdds
<1>10. \A q : f.type = "ask_user_question_resolved" /\ f.id = q => q \in Ends(<<f>>)
  <2>1. Len(<<f>>) = 1 /\ <<f>>[1] = f
    OBVIOUS
  <2> QED BY <2>1 DEF Ends
<1> DEFINE c == toHub \o queued
           d == (toHub \o queued)'
<1>11. c \in Seq(HubFrame) /\ c # <<>> /\ Head(c) = f /\ Tail(c) = d
  <2> DEFINE t == toHub
             u == queued
  <2>1. t \in Seq(HubFrame) /\ u \in Seq(HubFrame) /\ t # <<>> /\ f = Head(t)
    BY <1>1, <1>3 DEF f
  <2>2. c = t \o u /\ d = Tail(t) \o u
    BY <1>1
  <2> HIDE DEF c, d, t, u
  <2>3. t \o u # <<>> /\ Head(t \o u) = Head(t) /\ Tail(t \o u) = Tail(t) \o u
    BY <2>1, ConcatFront
  <2>4. t \o u \in Seq(HubFrame)
    BY <2>1, ConcatProperties
  <2> QED BY <2>1, <2>2, <2>3, <2>4
<1> HIDE DEF c, d
<1>12. ASSUME NEW S, NEW T, NEW q, WillHold(T, d, q),
              q \in T => Asks(f, q) \/ (~ About(f, q) /\ q \in S)
       PROVE  WillHold(S, c, q)
  <2>1. WillHold(T, Tail(c), q) /\ (q \in T => Asks(Head(c), q) \/ (~ About(Head(c), q) /\ q \in S))
    BY <1>11, <1>12
  <2> QED BY <1>11, <2>1, HoldTail
<1>13. HeldInv'
  <2> SUFFICES ASSUME NEW q \in Questions, WillHold(cache', d, q)
               PROVE  q \in askToClient' \/ Excused(q)'
    BY DEF HeldInv, d
  <2>1. q \in cache' => Asks(f, q) \/ (~ About(f, q) /\ q \in cache)
    BY <1>1, <1>3, HubFrameIds DEF Asks, About
  <2> DEFINE T == cache'
  <2>2. WillHold(T, d, q) /\ (q \in T => Asks(f, q) \/ (~ About(f, q) /\ q \in cache))
    BY <2>1
  <2> HIDE DEF T
  <2>3. WillHold(cache, c, q)
    BY <1>12, <2>2
  <2>4. q \in askToClient \/ Excused(q)
    BY <2>3 DEF CardInv, HeldInv, c
  <2> QED BY <1>1, <1>9, <2>4 DEF Excused
<1>14. ASSUME NEW p \in Pwas
       PROVE  /\ ~ pwa[p].online => toPwa'[p] = <<>>
              /\ \A q \in Questions :
                    WillHold(Coming(Range(pwa[p].view.cards), toPwa'[p]), d, q) =>
                        q \in askToClient \/ q \in unheard'[p]
  <2> DEFINE R == Range(pwa[p].view.cards)
             o == toPwa[p]
             n == toPwa'[p]
  <2>1. o \in Seq(HubFrame)
    BY DEF AskInv, HubInv
  <2>2. /\ f.type # "hello" /\ pwa[p].online => n = Append(o, f)
        /\ f.type = "hello" \/ ~ pwa[p].online => n = o
    BY <1>1, <1>2, <1>3
  <2>3. \A q \in Questions : WillHold(Coming(R, o), c, q) => q \in askToClient \/ q \in unheard'[p]
    BY <1>9 DEF CardInv, ShownInv, c
  <2>4. ~ pwa[p].online => o = <<>>
    BY DEF CardInv, ShownInv
  <2> HIDE DEF R, o, n
  <2>5. ASSUME NEW q \in Questions, q \in Coming(R, n)
        PROVE  \/ Asks(f, q) \/ (~ About(f, q) /\ q \in Coming(R, o))
               \/ q \in unheard'[p]
    <3>1. CASE f.type = "hello"
      BY <2>2, <2>5, <3>1 DEF About
    <3>2. CASE f.type # "hello" /\ pwa[p].online
      <4>1. WillHold(R, Append(o, f), q)
        BY <2>2, <2>5, <3>2 DEF Coming
      <4>2. Asks(f, q) \/ (~ About(f, q) /\ WillHold(R, o, q))
        BY <1>3, <2>1, <4>1, HoldAppend
      <4> QED BY <4>2 DEF Coming
    <3>3. CASE f.type # "hello" /\ ~ pwa[p].online
      <4>1. q \in Coming(R, o)
        BY <2>2, <2>5, <3>3
      <4>2. About(f, q) => Asks(f, q) \/ q \in Ends(<<f>>)
        BY <1>3, <1>10, HubFrameIds DEF About, Asks
      <4> QED BY <1>9, <3>3, <4>1, <4>2
    <3> QED BY <3>1, <3>2, <3>3
  <2>6. ASSUME NEW q \in Questions, WillHold(Coming(R, n), d, q)
        PROVE  q \in askToClient \/ q \in unheard'[p]
    <3> DEFINE S == Coming(R, o)
               T == Coming(R, n)
    <3>1. CASE q \in unheard'[p]
      BY <3>1
    <3>2. CASE q \notin unheard'[p]
      <4>1. WillHold(T, d, q) /\ (q \in T => Asks(f, q) \/ (~ About(f, q) /\ q \in S))
        BY <2>5, <2>6, <3>2
      <4>2. WillHold(S, c, q) => q \in askToClient \/ q \in unheard'[p]
        BY <2>3
      <4> HIDE DEF S, T
      <4>3. WillHold(S, c, q)
        BY <1>12, <4>1
      <4> QED BY <4>2, <4>3
    <3> QED BY <3>1, <3>2
  <2> QED BY <2>2, <2>4, <2>6 DEF R, n
<1>15. ShownInv'
  BY <1>1, <1>14 DEF ShownInv, d
<1> QED BY <1>7, <1>8, <1>13, <1>15 DEF CardInv

\* The reducer takes away no card but that of the question that ended, which it
\* does take away, and adds none but that of the question that is asked.
LEMMA ReduceCards ==
    ASSUME NEW view \in View, NEW f \in HubFrame, f.type # "hello", NEW q
    PROVE  /\ Asks(f, q) => q \in Range(Reduce(view, f).cards)
           /\ ~ About(f, q) /\ q \in Range(view.cards) =>
                 q \in Range(Reduce(view, f).cards)
           /\ f.type = "ask_user_question_request" /\ q \in Range(view.cards) =>
                 q \in Range(Reduce(view, f).cards)
           /\ q \in Range(Reduce(view, f).cards) =>
                 Asks(f, q) \/ (~ About(f, q) /\ q \in Range(view.cards))
<1>1. f.id \in Questions /\ view.cards \in Seq(Questions) /\ IsInjective(view.cards)
  BY HubFrameIds DEF View
<1>2. CASE f.type = "ask_user_question_request"
  <2>1. CASE f.id \in Range(view.cards)
    BY <1>2, <2>1 DEF Reduce, AddCard, Asks, About
  <2>2. CASE f.id \notin Range(view.cards)
    <3> DEFINE s == view.cards
               c == Append(s, f.id)
    <3>1. Reduce(view, f).cards = c
      BY <1>2, <2>2 DEF Reduce, AddCard, View
    <3>2. /\ DOMAIN s = 1..Len(s) /\ DOMAIN c = 1..(Len(s) + 1) /\ Len(s) \in Nat
          /\ \A i \in 1..Len(s) : c[i] = s[i]
          /\ c[Len(s) + 1] = f.id
      BY <1>1, AppendProperties
    <3> HIDE DEF c, s
    <3>3. /\ \A i \in 1..Len(s) : i \in 1..(Len(s) + 1)
          /\ Len(s) + 1 \in 1..(Len(s) + 1)
      BY <3>2
    <3>4. f.id \in Range(c) /\ Range(s) \subseteq Range(c)
      BY <3>2, <3>3 DEF Range
    <3>5. \A x \in Range(c) : x \in Range(s) \/ x = f.id
      <4>1. \A i \in 1..(Len(s) + 1) : i \in 1..Len(s) \/ i = Len(s) + 1
        BY <3>2
      <4> QED BY <3>2, <4>1 DEF Range
    <3> QED BY <1>2, <3>1, <3>4, <3>5 DEF Asks, About, s
  <2> QED BY <2>1, <2>2
<1>3. CASE f.type # "ask_user_question_request"
  <2>1. Reduce(view, f).cards = RemoveFirst(view.cards, f.id)
    BY <1>3 DEF Reduce, DropCard, View
  <2> QED BY <1>1, <1>3, <2>1, RemoveFirstCards DEF Asks, About
<1> QED BY <1>2, <1>3

\* A PWA takes a frame: its card is there, or the frame to come.
LEMMA PwaReceiveCards ==
    ASSUME AskInv, CardInv, NEW p \in Pwas, PwaReceive(p)
    PROVE  CardInv'
<1> DEFINE c == toPwa[p]
           f == Head(c)
           view == pwa[p].view
           next == Reduce(view, f)
<1>1. /\ c # <<>> /\ toPwa' = [toPwa EXCEPT ![p] = Tail(c)]
      /\ pwa' = [pwa EXCEPT ![p].view = next]
      /\ UNCHANGED <<hook, askToClient, late, link, queued, toHub, cache, unheard>>
  BY DEF PwaReceive, hookVars, daemonVars, linkVars
<1>2. /\ c \in Seq(HubFrame) /\ view \in View /\ f \in HubFrame
      /\ Tells(f, ended) /\ f.type # "hello"
      /\ toPwa \in [Pwas -> Seq(HubFrame)]
  <2>1. c \in Seq(HubFrame) /\ SaysEnd(c, ended) /\ NoHello(c) /\ view \in View
    BY DEF AskInv, HubInv, ViewInv
  <2> QED BY <1>1, <2>1, SaysTail DEF NoHello, AskInv, HubInv
<1>3. ASSUME NEW q \in askToClient, q \in Range(view.cards) \/ AskedIn(c, q)
      PROVE  q \in Range(next.cards) \/ AskedIn(Tail(c), q)
  <2>1. AskedIn(c, q) => Asks(f, q) \/ AskedIn(Tail(c), q)
    BY <1>1, <1>2, TailAsks
  <2>2. About(f, q) => Asks(f, q)
    BY <1>2, HeldIsNotResolved
  <2> HIDE DEF c, f, view
  <2> QED BY <1>2, <1>3, <2>1, <2>2, ReduceCards
<1>6. ASSUME NEW q \in Questions, q \in Coming(Range(next.cards), Tail(c))
      PROVE  q \in Coming(Range(view.cards), c)
  <2> DEFINE S == Range(view.cards)
             T == Range(next.cards)
  <2>1. q \in T => Asks(f, q) \/ (~ About(f, q) /\ q \in S)
    <3> HIDE DEF c, f, view
    <3> QED BY <1>2, ReduceCards
  <2>2. WillHold(T, Tail(c), q)
    BY <1>6 DEF Coming
  <2> HIDE DEF S, T, next, view
  <2>3. WillHold(S, c, q)
    BY <1>1, <1>2, <2>1, <2>2, HoldTail
  <2> QED BY <2>3 DEF Coming, S, view
<1> HIDE DEF next
<1>4. /\ DOMAIN pwa = Pwas /\ pwa[p] = [online |-> pwa[p].online, view |-> pwa[p].view]
  BY DEF AskInv, ViewInv
<1>5. /\ pwa'[p].online = pwa[p].online /\ pwa'[p].view = next
      /\ toPwa'[p] = Tail(c)
      /\ \A o \in Pwas : o # p => pwa'[o] = pwa[o] /\ toPwa'[o] = toPwa[o]
  BY <1>1, <1>2, <1>4
<1>7. LinkInv' /\ OfferInv' /\ HeldInv'
  BY <1>1, <1>3, <1>5, QuietCards DEF Excused
<1>8. ASSUME NEW o \in Pwas
      PROVE  /\ ~ pwa'[o].online => toPwa'[o] = <<>>
             /\ \A q \in Questions :
                   WillHold(Coming(Range(pwa'[o].view.cards), toPwa'[o]), toHub \o queued, q) =>
                       q \in askToClient \/ q \in unheard[o]
  <2>1. CASE o = p
    <3> DEFINE S == Coming(Range(next.cards), Tail(c))
               T == Coming(Range(view.cards), c)
    <3>1. pwa[p].online
      BY <1>1 DEF CardInv, ShownInv
    <3>2. ASSUME NEW q \in Questions, WillHold(S, toHub \o queued, q)
          PROVE  q \in askToClient \/ q \in unheard[p]
      <4>1. q \in S => q \in T
        BY <1>6
      <4>2. WillHold(T, toHub \o queued, q) => q \in askToClient \/ q \in unheard[p]
        BY DEF CardInv, ShownInv
      <4> HIDE DEF S, T
      <4>3. WillHold(T, toHub \o queued, q)
        BY <3>2, <4>1, HoldMore
      <4> QED BY <4>2, <4>3
    <3> QED BY <1>5, <2>1, <3>1, <3>2
  <2>2. CASE o # p
    BY <1>5, <2>2 DEF CardInv, ShownInv
  <2> QED BY <2>1, <2>2
<1>9. ShownInv'
  BY <1>1, <1>8 DEF ShownInv
<1> QED BY <1>7, <1>9 DEF CardInv

\* What the user does, and a lost connection, take no card from who is online.
LEMMA PwaStaysCards ==
    ASSUME AskInv, UnheardTyped, CardInv, NEW p \in Pwas,
           \/ Pick(p) \/ SendAskAnswer(p) \/ PwaOffline(p)
           \/ \E q \in Questions : CommandTimeout(p, q)
    PROVE  CardInv'
<1>1. UNCHANGED <<hook, askToClient, late, link, queued, toHub, cache>>
  BY DEF Pick, SendAskAnswer, PwaOffline, CommandTimeout, hookVars, daemonVars, linkVars
<1>2. /\ DOMAIN pwa = Pwas /\ pwa[p] = [online |-> pwa[p].online, view |-> pwa[p].view]
      /\ toPwa \in [Pwas -> Seq(HubFrame)] /\ pwa[p].view \in View
  BY DEF AskInv, ViewInv, HubInv
<1>3. CASE PwaOffline(p)
  <2> DEFINE c == toPwa[p]
             R == Range(pwa[p].view.cards)
             h == toHub \o queued
  <2>1. /\ ~ pwa'[p].online /\ toPwa'[p] = <<>> /\ pwa'[p].view = pwa[p].view
        /\ \A o \in Pwas : o # p => pwa'[o] = pwa[o] /\ toPwa'[o] = toPwa[o]
    BY <1>2, <1>3 DEF PwaOffline
  <2>2. c \in Seq(HubFrame) /\ Misses({p}, Ends(c))
    BY <1>2, <1>3 DEF PwaOffline
  <2>3. /\ \A o \in Pwas : unheard[o] \subseteq unheard'[o]
        /\ Ends(c) \subseteq unheard'[p]
    BY <2>2, MissesAdds, EndsOfQuestions
  <2>4. LinkInv' /\ OfferInv' /\ HeldInv'
    BY <1>1, <2>1, <2>3, QuietCards DEF Excused
  <2>5. ASSUME NEW q \in Questions, WillHold(Coming(R, <<>>), h, q)
        PROVE  q \in askToClient \/ q \in unheard'[p]
    <3>1. WillHold(Coming(R, c), h, q) => q \in askToClient \/ q \in unheard[p]
      BY DEF CardInv, ShownInv
    <3> HIDE DEF R, c, h
    <3>2. q \in Coming(R, <<>>) => q \in Ends(c) \/ q \in Coming(R, c)
      BY <2>2, ComingNothing, HoldUnresolved DEF Coming
    <3>3. q \in Ends(c) \/ WillHold(Coming(R, c), h, q)
      BY <2>5, <3>2, HoldMore
    <3> QED BY <2>3, <3>1, <3>3
  <2>6. ASSUME NEW o \in Pwas
        PROVE  /\ ~ pwa'[o].online => toPwa'[o] = <<>>
               /\ \A q \in Questions :
                     WillHold(Coming(Range(pwa'[o].view.cards), toPwa'[o]), h, q) =>
                         q \in askToClient \/ q \in unheard'[o]
    <3>1. CASE o = p
      BY <2>1, <2>5, <3>1
    <3>2. CASE o # p
      BY <2>1, <2>3, <3>2 DEF CardInv, ShownInv
    <3> QED BY <3>1, <3>2
  <2>7. ShownInv'
    BY <1>1, <2>6 DEF ShownInv
  <2> QED BY <2>4, <2>7 DEF CardInv
<1>4. CASE \/ Pick(p) \/ SendAskAnswer(p) \/ \E q \in Questions : CommandTimeout(p, q)
  <2>1. UNCHANGED <<toPwa, unheard>>
    BY <1>4 DEF Pick, SendAskAnswer, CommandTimeout
  <2>2. \/ \E S : pwa' = [pwa EXCEPT ![p].view.picked = S]
        \/ \E S : pwa' = [pwa EXCEPT ![p].view.sent = S]
    BY <1>4 DEF Pick, SendAskAnswer, CommandTimeout
  <2>3. /\ pwa'[p].online = pwa[p].online /\ pwa'[p].view.cards = pwa[p].view.cards
        /\ \A o \in Pwas : o # p => pwa'[o] = pwa[o]
    BY <1>2, <2>2 DEF View
  <2> QED BY <1>1, <2>1, <2>3, StillCards
<1> QED BY <1>3, <1>4

\* A PWA that comes back is told what the hub has.
LEMMA PwaOnlineCards ==
    ASSUME AskInv, CardInv, NEW p \in Pwas, PwaOnline(p)
    PROVE  CardInv'
<1> DEFINE c == [i \in 1..Cardinality(cache) |-> Request(SetToSeq(cache)[i])]
<1>1. /\ UNCHANGED <<hook, askToClient, late, link, queued, toHub, cache, unheard>>
      /\ toPwa' = [toPwa EXCEPT ![p] = c]
  BY DEF PwaOnline, hookVars, daemonVars, linkVars
<1>2. PICK view \in {pwa[p].view, NoView} :
          pwa' = [pwa EXCEPT ![p] = [online |-> TRUE, view |-> view]]
  BY DEF PwaOnline
<1>3. DOMAIN pwa = Pwas /\ toPwa \in [Pwas -> Seq(HubFrame)] /\ cache \in SUBSET Questions
  BY DEF AskInv, ViewInv, HubInv
<1>4. c \in Seq(HubFrame) /\ \A q : AskedIn(c, q) <=> q \in cache
  BY <1>3, ListingAsks
<1> HIDE DEF c
<1>5. /\ toPwa'[p] = c
      /\ \A o \in Pwas : o # p => pwa'[o] = pwa[o] /\ toPwa'[o] = toPwa[o]
      /\ pwa'[p].online /\ pwa'[p].view = view
  BY <1>1, <1>2, <1>3
<1>6. LinkInv' /\ HeldInv'
  BY <1>1 DEF CardInv, LinkInv, HeldInv, Excused
<1>7. OfferInv'
  <2> SUFFICES ASSUME link = "up", NEW q \in askToClient \ late
               PROVE  /\ q \in cache \/ AskedIn(toHub, q)
                      /\ \A o \in Pwas : pwa'[o].online =>
                            \/ q \in Range(pwa'[o].view.cards)
                            \/ AskedIn(toPwa'[o], q)
                            \/ AskedIn(toHub, q)
    BY <1>1 DEF OfferInv
  <2>1. q \in cache \/ AskedIn(toHub, q)
    BY DEF CardInv, OfferInv
  <2>2. ASSUME NEW o \in Pwas, pwa'[o].online
        PROVE  \/ q \in Range(pwa'[o].view.cards)
               \/ AskedIn(toPwa'[o], q)
               \/ AskedIn(toHub, q)
    <3>1. CASE o = p
      BY <1>4, <1>5, <2>1, <3>1
    <3>2. CASE o # p
      BY <1>5, <2>2, <3>2 DEF CardInv, OfferInv
    <3> QED BY <3>1, <3>2
  <2> QED BY <2>1, <2>2
<1> DEFINE R == Range(pwa[p].view.cards)
           h == toHub \o queued
<1>8. ASSUME NEW q \in Questions, WillHold(Coming(Range(view.cards), c), h, q)
      PROVE  q \in askToClient \/ q \in unheard[p]
  <2>1. toPwa[p] = <<>>
    BY DEF PwaOnline, CardInv, ShownInv
  <2>2. WillHold(Coming(R, <<>>), h, q) => q \in askToClient \/ q \in unheard[p]
    BY <2>1 DEF CardInv, ShownInv
  <2>3. WillHold(cache, h, q) => q \in askToClient \/ q \in unheard[p]
    BY DEF CardInv, HeldInv, Excused
  <2>4. \A x : x \in Range(view.cards) => x \in R
    BY DEF NoView, Range
  <2> HIDE DEF R, h
  <2>5. q \in Coming(Range(view.cards), c) => q \in cache \/ q \in Coming(R, <<>>)
    <3>1. WillHold(Range(view.cards), c, q) => q \in Range(view.cards) \/ AskedIn(c, q)
      BY DEF WillHold, AskedIn
    <3> QED BY <1>4, <2>4, <3>1, ComingNothing DEF Coming
  <2>6. WillHold(cache, h, q) \/ WillHold(Coming(R, <<>>), h, q)
    <3>1. CASE q \in Coming(Range(view.cards), c) => q \in cache
      BY <1>8, <3>1, HoldMore
    <3>2. CASE q \in Coming(R, <<>>)
      BY <1>8, <3>2, HoldMore
    <3> QED BY <2>5, <3>1, <3>2
  <2> QED BY <2>2, <2>3, <2>6
<1>9. ASSUME NEW o \in Pwas
      PROVE  /\ ~ pwa'[o].online => toPwa'[o] = <<>>
             /\ \A q \in Questions :
                   WillHold(Coming(Range(pwa'[o].view.cards), toPwa'[o]), h, q) =>
                       q \in askToClient \/ q \in unheard[o]
  <2>1. CASE o = p
    BY <1>5, <1>8, <2>1
  <2>2. CASE o # p
    BY <1>5, <2>2 DEF CardInv, ShownInv
  <2> QED BY <2>1, <2>2
<1>10. ShownInv'
  BY <1>1, <1>9 DEF ShownInv
<1> QED BY <1>6, <1>7, <1>10 DEF CardInv

\* Every step.
LEMMA CardStep ==
    ASSUME AskInv, UnheardTyped, CardInv, [Next]_vars
    PROVE  CardInv'
<1>1. CASE SessionLeaves \/ SessionReturns \/ UNCHANGED vars
  <2>1. UNCHANGED <<hook, askToClient, late, link, queued, toHub, cache, toPwa, pwa, unheard>>
    BY <1>1 DEF SessionLeaves, SessionReturns, vars, hookVars, linkVars, pwaVars
  <2> QED BY <2>1, StillCards
<1>2. ASSUME NEW q \in Questions,
             HookAsks(q) \/ HookHears(q) \/ HookHangsUp(q) \/ Deadline(q) \/ Expire(q)
      PROVE  CardInv'
  BY <1>2, AskCards, HookCards, DaemonCards
<1>3. CASE OnAnswer \/ DaemonRestart \/ LinkUp \/ LinkDown \/ HubReceive
  BY <1>3, DaemonCards, LinkDownCards, LinkUpCards, HubCards
<1>4. ASSUME NEW p \in Pwas,
             \/ PwaReceive(p) \/ Pick(p) \/ SendAskAnswer(p)
             \/ PwaOffline(p) \/ PwaOnline(p)
             \/ \E q \in Questions : CommandTimeout(p, q)
      PROVE  CardInv'
  BY <1>4, PwaReceiveCards, PwaStaysCards, PwaOnlineCards
<1> QED BY <1>1, <1>2, <1>3, <1>4 DEF Next

\* A question that can be answered is in front of every PWA that has caught up.
\* A card a PWA shows is of a question the daemon holds, or its resolution is on
\* its way to the PWA, unless it cannot be told: the hook went away, the daemon
\* restarted, or the resolution was lost with a link or came while the PWA was
\* away.  And the hub that has caught up offers newcomers no question that the
\* daemon does not hold, but those whose hook went away.
THEOREM CardsCorrect == Spec => []CardsAreOpen
<1>1. Init => CardInv
  <2> SUFFICES ASSUME Init PROVE CardInv
    OBVIOUS
  <2>1. toHub = <<>> /\ queued = <<>> /\ cache = {} /\ askToClient = {}
    BY DEF Init
  <2>2. toHub \o queued = <<>>
    BY <2>1
  <2>3. HeldInv
    BY <2>1, <2>2 DEF HeldInv, WillHold
  <2>4. ShownInv
    <3>1. \A p \in Pwas : toPwa[p] = <<>> /\ Range(pwa[p].view.cards) = {}
      BY DEF Init, NoView, Range
    <3> QED BY <2>2, <3>1 DEF ShownInv, Coming, WillHold
  <2> QED BY <2>1, <2>3, <2>4 DEF CardInv, LinkInv, OfferInv, NoHello
<1>2. ASSUME AskInv, UnheardTyped, CardInv
      PROVE  CardsAreOpen
  <2>1. OpenIsShown
    <3> SUFFICES ASSUME NEW p \in Pwas, NEW q \in askToClient \ late,
                        link = "up", pwa[p].online, ~ InFlight(p, q)
                 PROVE  q \in Range(pwa[p].view.cards)
      BY DEF OpenIsShown
    <3>1. ~ AskedIn(toHub, q) /\ ~ AskedIn(toPwa[p], q)
      BY DEF InFlight, AskedIn, Asks
    <3> QED BY <1>2, <3>1 DEF CardInv, OfferInv
  <2>2. CachedIsHeld
    <3> SUFFICES ASSUME NEW q \in cache, hook[q] # Gone,
                        \A c \in {queued, toHub} :
                            \A i \in 1..Len(c) : ~ About(c[i], q)
                 PROVE  q \in askToClient
      BY DEF CachedIsHeld, About
    <3>1. /\ queued \in Seq(HubFrame) /\ toHub \in Seq(HubFrame) /\ q \in Questions
      BY <1>2 DEF AskInv, QueueInv, HubInv
    <3> DEFINE c == toHub \o queued
    <3>2. /\ Len(toHub) \in Nat /\ Len(queued) \in Nat
          /\ Len(c) = Len(toHub) + Len(queued)
          /\ \A i \in 1..(Len(toHub) + Len(queued)) :
                c[i] = IF i <= Len(toHub) THEN toHub[i] ELSE queued[i - Len(toHub)]
      BY <3>1, ConcatProperties
    <3> HIDE DEF c
    <3>3. \A i \in 1..(Len(toHub) + Len(queued)) :
              \/ i \in 1..Len(toHub)
              \/ ~ i <= Len(toHub) /\ i - Len(toHub) \in 1..Len(queued)
      BY <3>2
    <3>4. /\ \A i \in 1..Len(toHub) : ~ About(toHub[i], q)
          /\ \A i \in 1..Len(queued) : ~ About(queued[i], q)
      OBVIOUS
    <3>5. ASSUME NEW i \in 1..Len(c) PROVE ~ About(c[i], q)
      <4>1. CASE i \in 1..Len(toHub)
        <5>1. c[i] = toHub[i]
          BY <3>2, <4>1
        <5> QED BY <3>4, <4>1, <5>1
      <4>2. CASE i \notin 1..Len(toHub)
        <5>1. i - Len(toHub) \in 1..Len(queued) /\ c[i] = queued[i - Len(toHub)]
          BY <3>2, <3>3, <4>2
        <5> QED BY <3>4, <5>1
      <4> QED BY <4>1, <4>2
    <3> QED BY <1>2, <3>1, <3>5 DEF CardInv, HeldInv, Excused, WillHold, c
  <2>3. ShownIsHeld
    <3> SUFFICES ASSUME NEW p \in Pwas, NEW q \in Range(pwa[p].view.cards),
                        q \notin Ends(queued), q \notin Ends(toHub), q \notin Ends(toPwa[p])
                 PROVE  q \in askToClient \/ q \in unheard[p]
      BY DEF ShownIsHeld
    <3> DEFINE R == Range(pwa[p].view.cards)
               c == toPwa[p]
               h == toHub \o queued
    <3>1. /\ queued \in Seq(HubFrame) /\ toHub \in Seq(HubFrame) /\ c \in Seq(HubFrame)
          /\ pwa[p].view.cards \in Seq(Questions)
      BY <1>2 DEF AskInv, QueueInv, HubInv, ViewInv, View
    <3>2. q \in Questions
      BY <3>1 DEF Range
    <3>3. h \in Seq(HubFrame) /\ q \notin Ends(h)
      BY <3>1, ConcatProperties, EndsConcat
    <3>4. WillHold(Coming(R, c), h, q) => q \in askToClient \/ q \in unheard[p]
      BY <1>2, <3>2 DEF CardInv, ShownInv
    <3>5. q \in R /\ q \notin Ends(c)
      OBVIOUS
    <3> HIDE DEF R, c, h
    <3>6. q \in Coming(R, c)
      BY <3>1, <3>2, <3>5, HoldUnresolved DEF Coming
    <3>7. WillHold(Coming(R, c), h, q)
      BY <3>3, <3>6, HoldUnresolved
    <3> QED BY <3>4, <3>7
  <2> QED BY <1>2, <2>1, <2>2, <2>3, AskInvImplies DEF CardsAreOpen
<1> QED BY <1>1, <1>2, CardStep, AskInvariant, UnheardInvariant, PTL DEF Spec

\* Of the places where something stands in a list there is a last one.
LEMMA LastOfThem ==
    ASSUME NEW t, NEW x, NEW n \in Nat, NEW k \in 1 .. n, t[k] = x
    PROVE  \E m \in 1 .. n : t[m] = x /\ \A j \in m + 1 .. n : t[j] # x
<1> DEFINE s == {j \in 1 .. n : t[j] = x}
<1>1. s \in SUBSET (1 .. n) /\ s # {}
    OBVIOUS
<1>2. Max(s) \in s /\ \A y \in s : Max(s) >= y
    BY <1>1, MaxOfNumbers
<1>3. ASSUME NEW j \in Max(s) + 1 .. n PROVE t[j] # x
    <2>1. j \in 1 .. n /\ ~(Max(s) >= j)
        BY <1>2
    <2> QED BY <1>2, <2>1
<1> QED BY <1>2, <1>3

-----------------------------------------------------------------------------
(* Receipts: what a PWA knows of the requests that are over *)

Views == [requests : Seq(Ids), answers : Seq(Ids), pending : SUBSET Ids, resolved : Seq(Ids)]
ReceiptStep == [q \in Views \X Steps |-> ReduceReceipts(q[1], q[2])]

\* A history without one of its keys, and a bounded end of one, are histories.
LEMMA HistoryTypes ==
    ASSUME NEW s \in Seq(Ids), NEW id \in Ids
    PROVE  /\ Without(s, id) \in Seq(Ids)
           /\ \A n \in Nat : LastOf(s, n) \in Seq(Ids)
           /\ InsertWithLru(s, id) \in Seq(Ids)
<1>1. \A u \in Seq(Ids), n \in Nat : LastOf(u, n) \in Seq(Ids)
    BY DEF LastOf
<1>2. Without(s, id) \in Seq(Ids)
    <2>1. CASE id \notin Range(s)
        BY <2>1 DEF Without
    <2>2. CASE id \in Range(s)
        <3> DEFINE i == CHOOSE i \in DOMAIN s : s[i] = id
        <3>1. i \in 1 .. Len(s)
            BY <2>2 DEF Range
        <3> HIDE DEF i
        <3>2. RemoveAt(s, i) \in Seq(Ids)
            <4>1. /\ Len(s) \in Nat /\ i - 1 \in 0 .. Len(s) /\ i + 1 \in 1 .. Len(s) + 1
                BY <3>1
            <4>2. SubSeq(s, 1, i - 1) \in Seq(Ids) /\ SubSeq(s, i + 1, Len(s)) \in Seq(Ids)
                BY <4>1
            <4> QED BY <4>2 DEF RemoveAt
        <3> QED BY <2>2, <3>2 DEF Without, i
    <2> QED BY <2>1, <2>2
<1>3. Append(Without(s, id), id) \in Seq(Ids) /\ LruMax \in Nat
    BY <1>2 DEF LruMax
<1> QED BY <1>1, <1>2, <1>3 DEF InsertWithLru

LEMMA ReduceReceiptsSteps ==
    /\ StepOf(ReceiptStep, Views, Steps)
    /\ \A v \in Views, e \in Steps : ReceiptStep[<<v, e>>] = ReduceReceipts(v, e)
<1>1. ASSUME NEW v \in Views, NEW e \in Steps PROVE ReduceReceipts(v, e) \in Views
    <2>1. /\ e[2] \in Ids /\ e[1] \in {"request", "answer", "resolved"}
          /\ v.requests \in Seq(Ids) /\ v.answers \in Seq(Ids) /\ v.resolved \in Seq(Ids)
          /\ v.pending \subseteq Ids
        BY DEF Views, Steps
    <2>2. /\ InsertWithLru(v.requests, e[2]) \in Seq(Ids)
          /\ InsertWithLru(v.answers, e[2]) \in Seq(Ids)
        BY <2>1, HistoryTypes
    <2>3. LastOf(Append(v.resolved, e[2]), ResolutionBuffer) \in Seq(Ids)
        <3>1. Append(v.resolved, e[2]) \in Seq(Ids) /\ ResolutionBuffer \in Nat
            BY <2>1 DEF ResolutionBuffer
        <3> QED BY <2>1, <3>1, HistoryTypes
    <2>4. CASE e[1] = "request"
        BY <2>1, <2>2, <2>4 DEF Views, ReduceReceipts
    <2>5. CASE e[1] = "answer"
        BY <2>1, <2>2, <2>5 DEF Views, ReduceReceipts
    <2>6. CASE e[1] = "resolved"
        BY <2>1, <2>3, <2>6 DEF Views, ReduceReceipts
    <2> QED BY <2>1, <2>4, <2>5, <2>6
<1> HIDE DEF ReduceReceipts
<1> QED BY <1>1 DEF ReceiptStep, StepOf

\* The fold of the reducer is what the loop over the steps leaves.
LEMMA ReduceReceiptsFolds ==
    ASSUME NEW k \in Views, NEW c \in Seq(Steps)
    PROVE  FoldLeft(ReduceReceipts, k, c) = Folded(ReceiptStep, k, c)
<1> DEFINE Fold(f) == f = [s \in SUBSET DOMAIN c |->
                              IF s = {} THEN k
                              ELSE ReduceReceipts(f[s \ {Max(s)}], c[Max(s)])]
           fold == CHOOSE f : Fold(f)
<1>1. StepOf(ReceiptStep, Views, Steps)
  BY ReduceReceiptsSteps
<1>2. PICK iter \in [SUBSET DOMAIN c -> Views] :
        CalculatesTyped(ReceiptStep, Views, Steps, k, c, iter)
  BY <1>1, LoopExists
<1>3. Fold(iter)
  BY <1>2, ReduceReceiptsSteps DEF CalculatesTyped
<1>4. Fold(fold)
  <2> HIDE DEF Fold
  <2>1. QED
    BY <1>3
<1>5. FoldLeft(ReduceReceipts, k, c) = fold[DOMAIN c]
  BY Zenon DEF FoldLeft, MapThenFoldSet
<1> HIDE DEF fold
<1>6. Calculates(ReceiptStep, Views, Steps, k, c, fold)
  BY <1>4, ReduceReceiptsSteps DEF Calculates
<1> HIDE DEF Fold
<1>7. fold[DOMAIN c] = Folded(ReceiptStep, k, c)
  BY <1>1, <1>6, LoopIsFolded
<1>8. QED
  BY <1>5, <1>7

\* Lists of at most three elements, written out.
LEMMA ShortLists ==
    ASSUME NEW a \in Ids, NEW b \in Ids, NEW c \in Ids
    PROVE  /\ RemoveAt(<<a>>, 1) = <<>> /\ RemoveAt(<<a, b>>, 1) = <<b>>
           /\ RemoveAt(<<a, b>>, 2) = <<a>>
           /\ LastOf(<<a>>, 2) = <<a>> /\ LastOf(<<a, b>>, 2) = <<a, b>>
           /\ LastOf(<<a, b, c>>, 2) = <<b, c>>
           /\ Append(<<>>, a) = <<a>> /\ Append(<<a>>, b) = <<a, b>>
           /\ Append(<<a, b>>, c) = <<a, b, c>>
<1>1. /\ <<>> \in Seq(Ids) /\ <<a>> \in Seq(Ids) /\ <<b>> \in Seq(Ids) /\ <<a, b>> \in Seq(Ids)
      /\ <<b, c>> \in Seq(Ids) /\ <<a, b, c>> \in Seq(Ids)
      /\ Len(<<a>>) = 1 /\ Len(<<a, b>>) = 2 /\ Len(<<b, c>>) = 2 /\ Len(<<a, b, c>>) = 3
    OBVIOUS
<1>2. ASSUME NEW s \in Seq(Ids), NEW m \in Int, NEW n \in Int, n < m PROVE SubSeq(s, m, n) = <<>>
    BY <1>2, SubSeqEmpty
<1>3. SubSeq(<<a, b>>, 2, 2) = <<b>> /\ SubSeq(<<a, b>>, 1, 1) = <<a>>
    <2> DEFINE s == <<a, b>>
    <2>1. s[1] = a /\ s[2] = b /\ (\A i \in 1 .. 1 : s[i] \in Ids) /\ (\A i \in 2 .. 2 : s[i] \in Ids)
        OBVIOUS
    <2> HIDE DEF s
    <2>2. /\ SubSeq(s, 2, 2) \in Seq(Ids) /\ Len(SubSeq(s, 2, 2)) = 1 /\ SubSeq(s, 2, 2)[1] = b
        BY <2>1, SubSeqProperties
    <2>3. /\ SubSeq(s, 1, 1) \in Seq(Ids) /\ Len(SubSeq(s, 1, 1)) = 1 /\ SubSeq(s, 1, 1)[1] = a
        BY <2>1, SubSeqProperties
    <2>4. \A u \in Seq(Ids), x \in Ids : Len(u) = 1 /\ u[1] = x => u = <<x>>
        OBVIOUS
    <2>5. SubSeq(s, 2, 2) = <<b>> /\ SubSeq(s, 1, 1) = <<a>>
        BY <2>2, <2>3, <2>4
    <2> QED BY <2>5 DEF s
<1>4. SubSeq(<<a, b, c>>, 2, 3) = <<b, c>>
    <2> DEFINE s == <<a, b, c>>
    <2>1. s[2] = b /\ s[3] = c /\ \A i \in 2 .. 3 : s[i] \in Ids
        OBVIOUS
    <2> HIDE DEF s
    <2>2. /\ SubSeq(s, 2, 3) \in Seq(Ids) /\ Len(SubSeq(s, 2, 3)) = 2
          /\ SubSeq(s, 2, 3)[1] = b /\ SubSeq(s, 2, 3)[2] = c
        BY <2>1, SubSeqProperties
    <2>3. \A u \in Seq(Ids) : Len(u) = 2 /\ u[1] = b /\ u[2] = c => u = <<b, c>>
        OBVIOUS
    <2>4. SubSeq(s, 2, 3) = <<b, c>>
        BY <2>2, <2>3
    <2> QED BY <2>4 DEF s
<1>5. /\ <<>> \o <<b>> = <<b>> /\ <<a>> \o <<>> = <<a>> /\ <<>> \o <<>> = <<>>
    BY <1>1, ConcatEmptySeq
<1>6. RemoveAt(<<a>>, 1) = <<>>
    BY <1>1, <1>2, <1>5 DEF RemoveAt
<1>7. RemoveAt(<<a, b>>, 1) = <<b>>
    <2>1. RemoveAt(<<a, b>>, 1) = SubSeq(<<a, b>>, 1, 0) \o SubSeq(<<a, b>>, 2, 2)
        BY <1>1 DEF RemoveAt
    <2>2. SubSeq(<<a, b>>, 1, 0) = <<>>
        BY <1>1, <1>2
    <2> QED BY <1>3, <1>5, <2>1, <2>2
<1>8. RemoveAt(<<a, b>>, 2) = <<a>>
    <2>1. RemoveAt(<<a, b>>, 2) = SubSeq(<<a, b>>, 1, 1) \o SubSeq(<<a, b>>, 3, 2)
        BY <1>1 DEF RemoveAt
    <2>2. SubSeq(<<a, b>>, 3, 2) = <<>>
        BY <1>1, <1>2
    <2> QED BY <1>3, <1>5, <2>1, <2>2
<1>9. LastOf(<<a>>, 2) = <<a>> /\ LastOf(<<a, b>>, 2) = <<a, b>>
    BY <1>1 DEF LastOf
<1>10. LastOf(<<a, b, c>>, 2) = <<b, c>>
    BY <1>1, <1>4 DEF LastOf
<1>11. Append(<<>>, a) = <<a>>
    OBVIOUS
<1>12. Append(<<a>>, b) = <<a, b>>
    <2> DEFINE s == <<a>>
    <2>1. s \in Seq(Ids) /\ Len(s) = 1 /\ s[1] = a
        BY <1>1
    <2> HIDE DEF s
    <2>2. /\ Append(s, b) \in Seq(Ids) /\ Len(Append(s, b)) = 2
          /\ Append(s, b)[1] = a /\ Append(s, b)[2] = b
        BY <2>1, AppendProperties
    <2>3. \A u \in Seq(Ids) : Len(u) = 2 /\ u[1] = a /\ u[2] = b => u = <<a, b>>
        OBVIOUS
    <2>4. Append(s, b) = <<a, b>>
        BY <2>2, <2>3
    <2> QED BY <2>4 DEF s
<1>13. Append(<<a, b>>, c) = <<a, b, c>>
    <2> DEFINE s == <<a, b>>
    <2>1. s \in Seq(Ids) /\ Len(s) = 2 /\ s[1] = a /\ s[2] = b
        BY <1>1
    <2> HIDE DEF s
    <2> DEFINE w == Append(s, c)
    <2>7. \A u \in Seq(Ids), x \in Ids :
              /\ Append(u, x) \in Seq(Ids) /\ Len(Append(u, x)) = Len(u) + 1
              /\ \A i \in 1 .. Len(u) : Append(u, x)[i] = u[i]
              /\ Append(u, x)[Len(u) + 1] = x
        BY AppendProperties
    <2>5. /\ w \in Seq(Ids) /\ Len(w) = Len(s) + 1 /\ (\A i \in 1 .. Len(s) : w[i] = s[i])
          /\ w[Len(s) + 1] = c
        BY <2>1, <2>7, Zenon
    <2>6. Len(w) = 3 /\ w[1] = a /\ w[2] = b /\ w[3] = c
        BY <2>1, <2>5
    <2>2. /\ Append(s, c) \in Seq(Ids) /\ Len(Append(s, c)) = 3
          /\ Append(s, c)[1] = a /\ Append(s, c)[2] = b /\ Append(s, c)[3] = c
        BY <2>5, <2>6 DEF w
    <2>3. \A u \in Seq(Ids) : Len(u) = 3 /\ u[1] = a /\ u[2] = b /\ u[3] = c => u = <<a, b, c>>
        OBVIOUS
    <2>4. Append(s, c) = <<a, b, c>>
        BY <2>2, <2>3
    <2> QED BY <2>4 DEF s
<1> QED BY <1>6, <1>7, <1>8, <1>9, <1>10, <1>11, <1>12, <1>13

\* A key goes to the end of a history of at most two keys; the oldest goes.
LEMMA InsertEffect ==
    ASSUME NEW id \in Ids
    PROVE  /\ InsertWithLru(<<>>, id) = <<id>>
           /\ \A a \in Ids : InsertWithLru(<<a>>, id) = IF a = id THEN <<id>> ELSE <<a, id>>
           /\ \A a \in Ids, b \in Ids : a # b =>
                InsertWithLru(<<a, b>>, id) =
                    CASE id = a -> <<b, a>> [] id = b -> <<a, b>> [] OTHER -> <<b, id>>
<1>1. InsertWithLru(<<>>, id) = <<id>>
    <2>1. Without(<<>>, id) = <<>>
        BY DEF Without, Range
    <2>2. Append(<<>>, id) = <<id>> /\ LastOf(<<id>>, 2) = <<id>>
        BY ShortLists
    <2> QED BY <2>1, <2>2 DEF InsertWithLru, LruMax
<1>2. ASSUME NEW a \in Ids
      PROVE  InsertWithLru(<<a>>, id) = IF a = id THEN <<id>> ELSE <<a, id>>
    <2> DEFINE s == <<a>>
    <2>1. DOMAIN s = {1} /\ s[1] = a /\ Range(s) = {a}
        BY DEF Range
    <2>2. RemoveAt(s, 1) = <<>> /\ Append(<<>>, id) = <<id>> /\ Append(s, id) = <<a, id>>
        BY ShortLists
    <2>3. LastOf(<<id>>, 2) = <<id>> /\ LastOf(<<a, id>>, 2) = <<a, id>>
        BY ShortLists
    <2> HIDE DEF s
    <2>4. CASE a = id
        <3>1. (CHOOSE i \in DOMAIN s : s[i] = id) = 1
            BY <2>1, <2>4
        <3>2. Without(s, id) = <<>>
            BY <2>1, <2>2, <2>4, <3>1 DEF Without
        <3> QED BY <2>2, <2>3, <2>4, <3>2 DEF InsertWithLru, LruMax, s
    <2>5. CASE a # id
        <3>1. Without(s, id) = s
            BY <2>1, <2>5 DEF Without
        <3> QED BY <2>2, <2>3, <2>5, <3>1 DEF InsertWithLru, LruMax, s
    <2> QED BY <2>4, <2>5
<1>3. ASSUME NEW a \in Ids, NEW b \in Ids, a # b
      PROVE  InsertWithLru(<<a, b>>, id) =
                 CASE id = a -> <<b, a>> [] id = b -> <<a, b>> [] OTHER -> <<b, id>>
    <2> DEFINE s == <<a, b>>
    <2>1. DOMAIN s = {1, 2} /\ s[1] = a /\ s[2] = b /\ Range(s) = {a, b}
        BY DEF Range
    <2>2. RemoveAt(s, 1) = <<b>> /\ RemoveAt(s, 2) = <<a>> /\ LastOf(<<a, b>>, 2) = <<a, b>>
        BY ShortLists
    <2>3. /\ Append(<<b>>, a) = <<b, a>> /\ LastOf(<<b, a>>, 2) = <<b, a>>
        BY ShortLists
    <2>7. /\ Append(<<a>>, b) = <<a, b>> /\ Append(s, id) = <<a, b, id>>
          /\ LastOf(<<a, b, id>>, 2) = <<b, id>>
        <3>1. Append(<<a, b>>, id) = <<a, b, id>>
            BY ShortLists
        <3>2. LastOf(<<a, b, id>>, 2) = <<b, id>>
            BY ShortLists
        <3>3. Append(<<a>>, b) = <<a, b>>
            BY ShortLists
        <3> QED BY <3>1, <3>2, <3>3
    <2> HIDE DEF s
    <2>4. CASE id = a
        <3>1. (CHOOSE i \in DOMAIN s : s[i] = id) = 1
            BY <1>3, <2>1, <2>4
        <3>2. Without(s, id) = <<b>>
            BY <2>1, <2>2, <2>4, <3>1 DEF Without
        <3> QED BY <1>3, <2>2, <2>3, <2>7, <2>4, <3>2 DEF InsertWithLru, LruMax, s
    <2>5. CASE id = b
        <3>1. (CHOOSE i \in DOMAIN s : s[i] = id) = 2
            BY <1>3, <2>1, <2>5
        <3>2. Without(s, id) = <<a>>
            BY <2>1, <2>2, <2>5, <3>1 DEF Without
        <3> QED BY <1>3, <2>2, <2>3, <2>7, <2>5, <3>2 DEF InsertWithLru, LruMax, s
    <2>6. CASE id # a /\ id # b
        <3>1. Without(s, id) = s
            BY <2>1, <2>6 DEF Without
        <3> QED BY <2>2, <2>3, <2>7, <2>6, <3>1 DEF InsertWithLru, LruMax, s
    <2> QED BY <2>4, <2>5, <2>6
<1> QED BY <1>1, <1>2, <1>3

\* What the requests up to n have left in the history: nothing, the one key
\* there was, or the last key and the last before it that is another.
AsksAt(t, j, id) == t[j] = <<"request", id>>
NewestIn(t, n, s) ==
    \/ s = <<>> /\ \A j \in 1 .. n, id \in Ids : ~AsksAt(t, j, id)
    \/ \E a \in Ids :
         /\ s = <<a>> /\ \E j \in 1 .. n : AsksAt(t, j, a)
         /\ \A j \in 1 .. n, id \in Ids : AsksAt(t, j, id) => id = a
    \/ \E a \in Ids, b \in Ids, p \in 1 .. n, q \in 1 .. n :
         /\ s = <<a, b>> /\ a # b /\ p < q /\ AsksAt(t, p, a) /\ AsksAt(t, q, b)
         /\ \A j \in p + 1 .. n, id \in Ids : AsksAt(t, j, id) => id = b

LEMMA NewestGoesOn ==
    ASSUME NEW t \in Seq(Steps), NEW n \in Nat, n + 1 \in DOMAIN t, NEW s,
           NewestIn(t, n, s)
    PROVE  /\ \A id \in Ids : AsksAt(t, n + 1, id) => NewestIn(t, n + 1, InsertWithLru(s, id))
           /\ (\A id \in Ids : ~AsksAt(t, n + 1, id)) => NewestIn(t, n + 1, s)
<1>1. \A j \in 1 .. n + 1 : j \in 1 .. n \/ j = n + 1
    OBVIOUS
<1>2. \A j \in 1 .. n : j \in 1 .. n + 1
    OBVIOUS
<1>3. \A x, y, j : AsksAt(t, j, x) /\ AsksAt(t, j, y) => x = y
    BY DEF AsksAt
<1>4. ASSUME \A id \in Ids : ~AsksAt(t, n + 1, id) PROVE NewestIn(t, n + 1, s)
    <2>1. \A p \in 1 .. n : \A j \in p + 1 .. n + 1 : j \in p + 1 .. n \/ j = n + 1
        OBVIOUS
    <2>2. CASE s = <<>> /\ \A j \in 1 .. n, id \in Ids : ~AsksAt(t, j, id)
        BY <1>1, <1>4, <2>2 DEF NewestIn
    <2>3. ASSUME NEW a \in Ids, s = <<a>>, \E j \in 1 .. n : AsksAt(t, j, a),
                 \A j \in 1 .. n, id \in Ids : AsksAt(t, j, id) => id = a
          PROVE  NewestIn(t, n + 1, s)
        BY <1>1, <1>2, <1>4, <2>3 DEF NewestIn
    <2>4. ASSUME NEW a \in Ids, NEW b \in Ids, NEW p \in 1 .. n, NEW q \in 1 .. n,
                 s = <<a, b>>, a # b, p < q, AsksAt(t, p, a), AsksAt(t, q, b),
                 \A j \in p + 1 .. n, id \in Ids : AsksAt(t, j, id) => id = b
          PROVE  NewestIn(t, n + 1, s)
        <3>1. \A j \in p + 1 .. n + 1, id \in Ids : AsksAt(t, j, id) => id = b
            BY <1>4, <2>1, <2>4
        <3>2. p \in 1 .. n + 1 /\ q \in 1 .. n + 1
            OBVIOUS
        <3> QED BY <2>4, <3>1, <3>2 DEF NewestIn
    <2> QED BY <2>2, <2>3, <2>4 DEF NewestIn
<1>5. ASSUME NEW id \in Ids, AsksAt(t, n + 1, id)
      PROVE  NewestIn(t, n + 1, InsertWithLru(s, id))
    <2> DEFINE w == InsertWithLru(s, id)
    <2>1. /\ InsertWithLru(<<>>, id) = <<id>>
          /\ \A a \in Ids : InsertWithLru(<<a>>, id) = IF a = id THEN <<id>> ELSE <<a, id>>
          /\ \A a \in Ids, b \in Ids : a # b =>
               InsertWithLru(<<a, b>>, id) =
                   CASE id = a -> <<b, a>> [] id = b -> <<a, b>> [] OTHER -> <<b, id>>
        BY InsertEffect
    <2>8. w = InsertWithLru(s, id)
        OBVIOUS
    <2> HIDE DEF AsksAt, w
    <2>2. n + 1 \in 1 .. n + 1 /\ \A x \in Ids : AsksAt(t, n + 1, x) => x = id
        BY <1>3, <1>5
    <2>3. ASSUME s = <<>>, \A j \in 1 .. n, x \in Ids : ~AsksAt(t, j, x)
          PROVE  NewestIn(t, n + 1, w)
        <3>1. w = <<id>>
            BY <2>1, <2>8, <2>3
        <3>2. \A j \in 1 .. n + 1, x \in Ids : AsksAt(t, j, x) => x = id
            BY <1>1, <2>2, <2>3
        <3>3. \E x \in Ids : w = <<x>> /\ (\E j \in 1 .. n + 1 : AsksAt(t, j, x))
                  /\ \A j \in 1 .. n + 1, y \in Ids : AsksAt(t, j, y) => y = x
            BY <1>5, <2>2, <3>1, <3>2
        <3> QED BY <3>3 DEF NewestIn
    <2>4. ASSUME NEW a \in Ids, s = <<a>>, NEW k \in 1 .. n, AsksAt(t, k, a),
                 \A j \in 1 .. n, x \in Ids : AsksAt(t, j, x) => x = a
          PROVE  NewestIn(t, n + 1, w)
        <3>1. CASE a = id
            <4>1. w = <<id>>
                BY <2>1, <2>8, <2>4, <3>1
            <4>2. \A j \in 1 .. n + 1, x \in Ids : AsksAt(t, j, x) => x = id
                BY <1>1, <2>2, <2>4, <3>1
            <4>3. \E x \in Ids : w = <<x>> /\ (\E j \in 1 .. n + 1 : AsksAt(t, j, x))
                      /\ \A j \in 1 .. n + 1, y \in Ids : AsksAt(t, j, y) => y = x
                BY <1>5, <2>2, <4>1, <4>2
            <4> QED BY <4>3 DEF NewestIn
        <3>2. CASE a # id
            <4>1. w = <<a, id>>
                BY <2>1, <2>8, <2>4, <3>2
            <4>2. k \in 1 .. n + 1 /\ n + 1 \in 1 .. n + 1 /\ k < n + 1
                OBVIOUS
            <4> DEFINE Last2(p) == \A j \in p + 1 .. n + 1, x \in Ids : AsksAt(t, j, x) => x = id
            <4>3. PICK m \in 1 .. n : AsksAt(t, m, a) /\ \A j \in m + 1 .. n : ~AsksAt(t, j, a)
                BY <2>4, LastOfThem DEF AsksAt
            <4>4. Last2(m)
                <5> SUFFICES ASSUME NEW j \in m + 1 .. n + 1, NEW x \in Ids, AsksAt(t, j, x)
                             PROVE  x = id
                    OBVIOUS
                <5>1. j \in m + 1 .. n \/ j = n + 1
                    OBVIOUS
                <5>2. j \in m + 1 .. n => j \in 1 .. n
                    OBVIOUS
                <5> QED BY <2>2, <2>4, <4>3, <5>1, <5>2
            <4>5. m \in 1 .. n + 1 /\ m < n + 1
                OBVIOUS
            <4>8. \E x \in Ids, y \in Ids, k1 \in 1 .. n + 1, k2 \in 1 .. n + 1 :
                     /\ w = <<x, y>> /\ x # y /\ k1 < k2 /\ AsksAt(t, k1, x) /\ AsksAt(t, k2, y)
                     /\ \A j \in k1 + 1 .. n + 1, z \in Ids : AsksAt(t, j, z) => z = y
                BY <1>5, <3>2, <4>1, <4>2, <4>3, <4>4, <4>5
            <4> QED BY <4>8 DEF NewestIn
        <3> QED BY <3>1, <3>2
    <2>5. ASSUME NEW a \in Ids, NEW b \in Ids, NEW p \in 1 .. n, NEW q \in 1 .. n,
                 s = <<a, b>>, a # b, p < q, AsksAt(t, p, a), AsksAt(t, q, b),
                 \A j \in p + 1 .. n, x \in Ids : AsksAt(t, j, x) => x = b
          PROVE  NewestIn(t, n + 1, w)
        <3>1. /\ p \in 1 .. n + 1 /\ q \in 1 .. n + 1 /\ p < n + 1 /\ q < n + 1
              /\ \A j \in p + 1 .. n + 1 : j \in p + 1 .. n \/ j = n + 1
            OBVIOUS
        <3>2. CASE id = b
            <4>1. w = <<a, b>>
                BY <2>1, <2>8, <2>5, <3>2
            <4>2. \A j \in p + 1 .. n + 1, x \in Ids : AsksAt(t, j, x) => x = b
                BY <2>2, <2>5, <3>1, <3>2
            <4>8. \E x \in Ids, y \in Ids, k1 \in 1 .. n + 1, k2 \in 1 .. n + 1 :
                     /\ w = <<x, y>> /\ x # y /\ k1 < k2 /\ AsksAt(t, k1, x) /\ AsksAt(t, k2, y)
                     /\ \A j \in k1 + 1 .. n + 1, z \in Ids : AsksAt(t, j, z) => z = y
                BY <2>5, <3>1, <4>1, <4>2
            <4> QED BY <4>8 DEF NewestIn
        <3>3. CASE id # b
            <4>1. w = <<b, id>>
                BY <2>1, <2>8, <2>5, <3>3
            <4>2. PICK m \in 1 .. n : AsksAt(t, m, b) /\ \A j \in m + 1 .. n : ~AsksAt(t, j, b)
                BY <2>5, LastOfThem DEF AsksAt
            <4>3. q <= m
                <5>1. ~(m < q)
                    <6>1. m < q => q \in m + 1 .. n
                        OBVIOUS
                    <6> QED BY <2>5, <4>2, <6>1
                <5> QED BY <5>1
            <4>4. \A j \in m + 1 .. n + 1, x \in Ids : AsksAt(t, j, x) => x = id
                <5> SUFFICES ASSUME NEW j \in m + 1 .. n + 1, NEW x \in Ids, AsksAt(t, j, x)
                             PROVE  x = id
                    OBVIOUS
                <5>1. j \in m + 1 .. n \/ j = n + 1
                    OBVIOUS
                <5>2. j \in m + 1 .. n => j \in p + 1 .. n
                    BY <2>5, <4>3
                <5> QED BY <2>2, <2>5, <4>2, <5>1, <5>2
            <4>5. m \in 1 .. n + 1 /\ m < n + 1
                OBVIOUS
            <4>8. \E x \in Ids, y \in Ids, k1 \in 1 .. n + 1, k2 \in 1 .. n + 1 :
                     /\ w = <<x, y>> /\ x # y /\ k1 < k2 /\ AsksAt(t, k1, x) /\ AsksAt(t, k2, y)
                     /\ \A j \in k1 + 1 .. n + 1, z \in Ids : AsksAt(t, j, z) => z = y
                BY <1>5, <2>2, <3>3, <4>1, <4>2, <4>4, <4>5
            <4> QED BY <4>8 DEF NewestIn
        <3> QED BY <3>2, <3>3
    <2>6. \/ s = <<>> /\ \A j \in 1 .. n, x \in Ids : ~AsksAt(t, j, x)
          \/ \E a \in Ids, k \in 1 .. n :
               /\ s = <<a>> /\ AsksAt(t, k, a)
               /\ \A j \in 1 .. n, x \in Ids : AsksAt(t, j, x) => x = a
          \/ \E a \in Ids, b \in Ids, p \in 1 .. n, q \in 1 .. n :
               /\ s = <<a, b>> /\ a # b /\ p < q /\ AsksAt(t, p, a) /\ AsksAt(t, q, b)
               /\ \A j \in p + 1 .. n, x \in Ids : AsksAt(t, j, x) => x = b
        BY DEF NewestIn
    <2>7. NewestIn(t, n + 1, w)
        BY <2>3, <2>4, <2>5, <2>6
    <2> QED BY <2>7 DEF w
<1> QED BY <1>4, <1>5

\* What the reference says of a request is what the history holds.
LEMMA SinceIs ==
    ASSUME NEW t \in Seq(Steps), NEW id \in Ids, NEW x
    PROVE  /\ x \in Since(t, <<"request", id>>) <=>
                /\ x \in Ids
                /\ \E j \in DOMAIN t, i \in LastTime(t, <<"request", id>>) : j > i /\ AsksAt(t, j, x)
           /\ \A i : i \in LastTime(t, <<"request", id>>) <=>
                /\ i \in DOMAIN t /\ AsksAt(t, i, id)
                /\ \A j \in DOMAIN t : AsksAt(t, j, id) => j <= i
<1>1. \A j \in DOMAIN t : t[j] \in {"request", "answer", "resolved"} \X Ids
    BY DEF Steps
<1>2. \A j \in DOMAIN t : t[j][1] = "request" => t[j][2] \in Ids /\ AsksAt(t, j, t[j][2])
    BY <1>1 DEF AsksAt
<1>3. \A j \in DOMAIN t : \A y : AsksAt(t, j, y) => t[j][1] = "request" /\ t[j][2] = y
    BY DEF AsksAt
<1>4. <<"request", id>>[1] = "request"
    OBVIOUS
<1>5. ASSUME x \in Since(t, <<"request", id>>)
      PROVE  /\ x \in Ids
             /\ \E j \in DOMAIN t, i \in LastTime(t, <<"request", id>>) : j > i /\ AsksAt(t, j, x)
    <2>1. PICK j \in DOMAIN t : /\ x = t[j][2] /\ t[j][1] = "request"
                                /\ \E i \in LastTime(t, <<"request", id>>) : j > i
        BY <1>4, <1>5 DEF Since
    <2> QED BY <1>2, <2>1
<1>6. ASSUME x \in Ids, NEW j \in DOMAIN t, NEW i \in LastTime(t, <<"request", id>>),
             j > i, AsksAt(t, j, x)
      PROVE  x \in Since(t, <<"request", id>>)
    BY <1>3, <1>4, <1>6 DEF Since
<1>7. \A i : i \in LastTime(t, <<"request", id>>) <=>
                /\ i \in DOMAIN t /\ AsksAt(t, i, id)
                /\ \A j \in DOMAIN t : AsksAt(t, j, id) => j <= i
    BY DEF LastTime, AsksAt
<1> QED BY <1>5, <1>6, <1>7

LEMMA SinceCounts ==
    ASSUME NEW s, NEW a \in Ids, NEW b \in Ids
    PROVE  /\ s = {} => Cardinality(s) < LruMax
           /\ s \subseteq {b} => Cardinality(s) < LruMax
           /\ s \subseteq Ids /\ {a, b} \subseteq s /\ a # b => ~(Cardinality(s) < LruMax)
<1>1. Cardinality({}) = 0 /\ Cardinality({b}) = 1
    BY FS_EmptySet, FS_Singleton
<1>2. s \subseteq {b} => s = {} \/ s = {b}
    OBVIOUS
<1>3. ASSUME s \subseteq Ids, {a, b} \subseteq s, a # b PROVE ~(Cardinality(s) < LruMax)
    <2>1. IsFiniteSet(Ids)
        <3>1. 1 \in Int /\ 3 \in Int
            OBVIOUS
        <3>2. IsFiniteSet(1 .. 3)
            BY <3>1, FS_Interval
        <3> QED BY <3>2 DEF Ids
    <2>2. IsFiniteSet(s)
        BY <1>3, <2>1, FS_Subset
    <2>3. IsFiniteSet({a}) /\ Cardinality({a}) = 1
        BY FS_Singleton
    <2>4. Cardinality({a} \cup {b}) = 2
        BY <1>3, <2>3, FS_AddElement
    <2>5. {a} \cup {b} = {a, b}
        OBVIOUS
    <2>6. Cardinality({a, b}) <= Cardinality(s) /\ Cardinality(s) \in Nat
        BY <1>3, <2>2, FS_Subset, FS_CardinalityType
    <2> QED BY <2>4, <2>5, <2>6 DEF LruMax
<1> QED BY <1>1, <1>2, <1>3 DEF LruMax

LEMMA KnownIsNewest ==
    ASSUME NEW t \in Seq(Steps), NEW s, NewestIn(t, Len(t), s), NEW id \in Ids
    PROVE  id \in Range(s) <=> Known(t, id)
<1> DEFINE n == Len(t)
           L == LastTime(t, <<"request", id>>)
           F == Since(t, <<"request", id>>)
<1>1. n \in Nat /\ DOMAIN t = 1 .. n
    OBVIOUS
<1>2. /\ \A x : x \in F <=> x \in Ids /\ \E j \in 1 .. n, i \in L : j > i /\ AsksAt(t, j, x)
      /\ \A i : i \in L <=> /\ i \in 1 .. n /\ AsksAt(t, i, id)
                            /\ \A j \in 1 .. n : AsksAt(t, j, id) => j <= i
    BY <1>1, SinceIs
<1>3. Known(t, id) <=> L # {} /\ Cardinality(F) < LruMax
    BY DEF Known
<1> HIDE DEF L, F, n
<1>4. ASSUME NEW k \in 1 .. n, AsksAt(t, k, id) PROVE L # {}
    <2>1. PICK m \in 1 .. n : AsksAt(t, m, id) /\ \A j \in m + 1 .. n : ~AsksAt(t, j, id)
        BY <1>1, <1>4, LastOfThem DEF AsksAt
    <2>2. \A j \in 1 .. n : j \in m + 1 .. n \/ j <= m
        BY <1>1
    <2>3. m \in L
        BY <1>2, <2>1, <2>2
    <2> QED BY <2>3
<1>5. CASE s = <<>> /\ \A j \in 1 .. n, x \in Ids : ~AsksAt(t, j, x)
    <2>1. L = {} /\ Range(s) = {}
        BY <1>2, <1>5 DEF Range
    <2> QED BY <1>3, <2>1
<1>6. ASSUME NEW a \in Ids, s = <<a>>, NEW k \in 1 .. n, AsksAt(t, k, a),
             \A j \in 1 .. n, x \in Ids : AsksAt(t, j, x) => x = a
      PROVE  id \in Range(s) <=> Known(t, id)
    <2>1. Range(s) = {a}
        BY <1>6 DEF Range
    <2>2. id # a => L = {}
        BY <1>2, <1>6
    <2>3. id = a => L # {} /\ F = {}
        <3> SUFFICES ASSUME id = a, NEW x, x \in F PROVE FALSE
            BY <1>4, <1>6
        <3>1. PICK j \in 1 .. n, i \in L : j > i /\ AsksAt(t, j, x) /\ x \in Ids
            BY <1>2
        <3>2. AsksAt(t, j, id)
            BY <1>6, <3>1
        <3>3. j <= i /\ i \in 1 .. n
            BY <1>2, <3>1, <3>2
        <3> QED BY <1>1, <3>1, <3>3
    <2> QED BY <1>3, <2>1, <2>2, <2>3, SinceCounts
<1>7. ASSUME NEW a \in Ids, NEW b \in Ids, NEW p \in 1 .. n, NEW q \in 1 .. n,
             s = <<a, b>>, a # b, p < q, AsksAt(t, p, a), AsksAt(t, q, b),
             \A j \in p + 1 .. n, x \in Ids : AsksAt(t, j, x) => x = b
      PROVE  id \in Range(s) <=> Known(t, id)
    <2>1. Range(s) = {a, b}
        BY <1>7 DEF Range
    <2>2. \A i \in L : i \in 1 .. n
        BY <1>2
    <2>3. id \in {a, b} => L # {}
        BY <1>4, <1>7
    <2>4. ASSUME id = b, NEW x, x \in F PROVE FALSE
        <3>1. PICK j \in 1 .. n, i \in L : j > i /\ AsksAt(t, j, x) /\ x \in Ids
            BY <1>2, <2>4
        <3>2. q <= i
            BY <1>2, <1>7, <2>4, <3>1
        <3>3. j \in p + 1 .. n
            BY <1>1, <1>7, <2>2, <3>1, <3>2
        <3>4. AsksAt(t, j, id)
            BY <1>7, <2>4, <3>1, <3>3
        <3>5. j <= i
            BY <1>2, <3>1, <3>4
        <3> QED BY <1>1, <2>2, <3>1, <3>5
    <2>5. ASSUME id = a, NEW x, x \in F PROVE x = b
        <3>1. PICK j \in 1 .. n, i \in L : j > i /\ AsksAt(t, j, x) /\ x \in Ids
            BY <1>2, <2>5
        <3>2. p <= i
            BY <1>2, <1>7, <2>5, <3>1
        <3>3. j \in p + 1 .. n
            BY <1>1, <2>2, <3>1, <3>2
        <3> QED BY <1>7, <3>1, <3>3
    <2>6. ASSUME id # a, id # b, NEW i \in L PROVE F \subseteq Ids /\ {a, b} \subseteq F
        <3>1. AsksAt(t, i, id) /\ i \in 1 .. n
            BY <1>2, <2>6
        <3>2. i \notin p + 1 .. n /\ i # p
            <4>1. \A x, y, j : AsksAt(t, j, x) /\ AsksAt(t, j, y) => x = y
                BY DEF AsksAt
            <4> QED BY <1>7, <2>6, <3>1, <4>1
        <3>3. i < p /\ p > i /\ q > i
            BY <1>1, <1>7, <3>1, <3>2
        <3> QED BY <1>2, <1>7, <2>6, <3>3
    <2>7. id = b => F = {}
        BY <2>4
    <2>8. id = a => F \subseteq {b}
        BY <2>5
    <2>9. CASE id \in {a, b}
        BY <1>3, <2>1, <2>3, <2>7, <2>8, <2>9, SinceCounts
    <2>10. CASE id \notin {a, b}
        <3>1. L # {} => F \subseteq Ids /\ {a, b} \subseteq F
            BY <2>6, <2>10
        <3>2. L # {} => ~(Cardinality(F) < LruMax)
            BY <1>7, <3>1, SinceCounts
        <3> QED BY <1>3, <2>1, <2>10, <3>2
    <2> QED BY <2>9, <2>10
<1>8. \/ s = <<>> /\ \A j \in 1 .. n, x \in Ids : ~AsksAt(t, j, x)
      \/ \E a \in Ids, k \in 1 .. n :
           /\ s = <<a>> /\ AsksAt(t, k, a)
           /\ \A j \in 1 .. n, x \in Ids : AsksAt(t, j, x) => x = a
      \/ \E a \in Ids, b \in Ids, p \in 1 .. n, q \in 1 .. n :
           /\ s = <<a, b>> /\ a # b /\ p < q /\ AsksAt(t, p, a) /\ AsksAt(t, q, b)
           /\ \A j \in p + 1 .. n, x \in Ids : AsksAt(t, j, x) => x = b
    BY DEF NewestIn, n
<1> QED BY <1>5, <1>6, <1>7, <1>8

\* An insertion brings its key and no other.
LEMMA InsertBrings ==
    ASSUME NEW s \in Seq(Ids), NEW id \in Ids
    PROVE  \A x \in Range(InsertWithLru(s, id)) : x = id \/ x \in Range(s)
<1>1. ASSUME NEW u \in Seq(Ids), NEW x \in Range(LastOf(u, LruMax)) PROVE x \in Range(u)
    <2>1. CASE Len(u) <= LruMax
        BY <2>1 DEF LastOf, LruMax
    <2>2. CASE Len(u) > LruMax
        <3> DEFINE f == Len(u) - LruMax + 1
        <3>1. f \in 1 .. Len(u) /\ LastOf(u, LruMax) = SubSeq(u, f, Len(u))
            BY <2>2 DEF LastOf, LruMax
        <3> HIDE DEF f
        <3>2. PICK i \in DOMAIN SubSeq(u, f, Len(u)) : x = SubSeq(u, f, Len(u))[i]
            BY <3>1 DEF Range
        <3>3. f + i - 1 \in DOMAIN u /\ x = u[f + i - 1]
            BY <3>1, <3>2
        <3> QED BY <3>3 DEF Range
    <2> QED BY <2>1, <2>2 DEF LruMax
<1>2. ASSUME NEW x \in Range(Without(s, id)) PROVE x \in Range(s)
    <2>1. CASE id \notin Range(s)
        BY <2>1 DEF Without
    <2>2. CASE id \in Range(s)
        <3> DEFINE i == CHOOSE i \in DOMAIN s : s[i] = id
        <3>1. i \in 1 .. Len(s) /\ Without(s, id) = RemoveAt(s, i)
            BY <2>2 DEF Range, Without
        <3> HIDE DEF i
        <3>2. PICK k \in DOMAIN RemoveAt(s, i) : x = RemoveAt(s, i)[k]
            BY <3>1 DEF Range
        <3> DEFINE p == SubSeq(s, 1, i - 1)
                   q == SubSeq(s, i + 1, Len(s))
        <3>3. /\ p \in Seq(Ids) /\ Len(p) = i - 1 /\ \A j \in 1 .. Len(p) : p[j] = s[j]
              /\ q \in Seq(Ids) /\ Len(q) = Len(s) - i /\ \A j \in 1 .. Len(q) : q[j] = s[j + i]
            BY <3>1
        <3>4. k \in DOMAIN (p \o q) /\ x = (p \o q)[k]
            BY <3>2 DEF RemoveAt
        <3> HIDE DEF p, q
        <3>7. /\ p \o q \in Seq(Ids) /\ Len(p \o q) = Len(p) + Len(q)
              /\ \A j \in 1 .. Len(p) + Len(q) :
                    (p \o q)[j] = IF j <= Len(p) THEN p[j] ELSE q[j - Len(p)]
            BY <3>3, ConcatProperties
        <3>5. /\ DOMAIN (p \o q) = 1 .. Len(p) + Len(q)
              /\ (p \o q)[k] = IF k <= Len(p) THEN p[k] ELSE q[k - Len(p)]
            <4>1. DOMAIN (p \o q) = 1 .. Len(p) + Len(q)
                BY <3>7
            <4> QED BY <3>4, <3>7, <4>1
        <3>6. \E j \in 1 .. Len(s) : x = s[j]
            <4>1. CASE k <= Len(p)
                BY <3>1, <3>3, <3>4, <3>5, <4>1
            <4>2. CASE ~(k <= Len(p))
                <5>1. /\ k \in Int /\ Len(p) \in Nat /\ Len(q) \in Nat /\ Len(s) \in Nat
                      /\ k <= Len(p) + Len(q)
                    BY <3>3, <3>4, <3>5
                <5>2. k - Len(p) \in 1 .. Len(q) /\ k - Len(p) + i \in 1 .. Len(s)
                    BY <3>1, <3>3, <4>2, <5>1
                <5>3. x = q[k - Len(p)]
                    BY <3>4, <3>5, <4>2
                <5>4. q[k - Len(p)] = s[k - Len(p) + i]
                    BY <3>3, <5>2
                <5> QED BY <5>2, <5>3, <5>4
            <4> QED BY <4>1, <4>2
        <3> QED BY <3>6 DEF Range
    <2> QED BY <2>1, <2>2
<1>3. Without(s, id) \in Seq(Ids)
    BY HistoryTypes
<1>4. ASSUME NEW u \in Seq(Ids), NEW x \in Range(Append(u, id)) PROVE x = id \/ x \in Range(u)
    BY <1>4 DEF Range
<1>5. Append(Without(s, id), id) \in Seq(Ids)
    BY <1>3
<1>6. ASSUME NEW x \in Range(InsertWithLru(s, id)) PROVE x = id \/ x \in Range(s)
    <2>1. x \in Range(Append(Without(s, id), id))
        BY <1>1, <1>5 DEF InsertWithLru
    <2> QED BY <1>2, <1>3, <1>4, <2>1
<1> QED BY <1>6

\* Of each step of the reducer, what the receipts depend on.
LEMMA ReceiptsGoOn ==
    ASSUME NEW v \in Views, NEW e \in Steps
    PROVE  LET w == ReduceReceipts(v, e) IN
           /\ w.requests = IF e[1] = "request" THEN InsertWithLru(v.requests, e[2])
                           ELSE v.requests
           /\ \A x \in Range(w.answers) : x \in Range(v.answers) \/ e = <<"answer", x>>
<1>1. /\ v.requests \in Seq(Ids) /\ v.answers \in Seq(Ids)
      /\ v = [requests |-> v.requests, answers |-> v.answers, pending |-> v.pending,
              resolved |-> v.resolved]
      /\ e \in {"request", "answer", "resolved"} \X Ids
    BY DEF Views, Steps
<1>2. \A x \in Range(InsertWithLru(v.answers, e[2])) : x = e[2] \/ x \in Range(v.answers)
    BY <1>1, InsertBrings
<1>3. CASE e[1] = "request"
    BY <1>1, <1>3 DEF ReduceReceipts
<1>4. CASE e[1] = "answer"
    <2>1. e = <<"answer", e[2]>>
        BY <1>1, <1>4
    <2> QED BY <1>1, <1>2, <1>4, <2>1 DEF ReduceReceipts
<1>5. CASE e[1] = "resolved"
    BY <1>1, <1>5 DEF ReduceReceipts
<1> QED BY <1>1, <1>3, <1>4, <1>5

(***************************************************************************)
(* After any steps at a PWA, however many, a receipt shows what was asked  *)
(* under its id exactly while fewer than the bound were asked since, and   *)
(* answers only where some were sent from here (permission-history.ts,     *)
(* ResolvedPermissionCard.tsx, ResolvedAskQuestionCard.tsx).               *)
(***************************************************************************)
THEOREM ReceiptsAreRight ==
    \A t \in Seq(Steps) : \A c \in Cards(After(t)) :
        /\ c.request = c.id <=> Known(t, c.id)
        /\ c.answers # NotInHistory => LastTime(t, <<"answer", c.id>>) # {}
<1> SUFFICES ASSUME NEW t \in Seq(Steps), NEW c \in Cards(After(t))
             PROVE  /\ c.request = c.id <=> Known(t, c.id)
                    /\ c.answers # NotInHistory => LastTime(t, <<"answer", c.id>>) # {}
    OBVIOUS
<1> DEFINE n == Len(t)
<1>1. n \in Nat /\ DOMAIN t = 1 .. n /\ Empty \in Views
    BY DEF Empty, Views
<1>2. StepOf(ReceiptStep, Views, Steps)
    BY ReduceReceiptsSteps
<1>3. PICK h : Trace(ReceiptStep, Empty, t, h)
    BY <1>1, <1>2, TraceExists
<1>4. After(t) = h[n]
    <2>1. After(t) = Folded(ReceiptStep, Empty, t)
        BY <1>1, ReduceReceiptsFolds DEF After
    <2> QED BY <1>1, <1>3, <2>1, FoldedIsLast
<1> HIDE DEF n
<1> DEFINE Good(i) == /\ h[i] \in Views /\ NewestIn(t, i, h[i].requests)
                      /\ \A x \in Range(h[i].answers) : \E j \in 1 .. i : t[j] = <<"answer", x>>
           S == {i \in Nat : i <= n => Good(i)}
<1>5. 0 \in S
    <2>1. h[0] = Empty
        BY <1>3 DEF Trace
    <2>2. NewestIn(t, 0, <<>>) /\ Range(<<>>) = {}
        BY DEF NewestIn, Range
    <2> QED BY <1>1, <2>1, <2>2 DEF Empty
<1>6. ASSUME NEW i \in S \cap Nat PROVE i + 1 \in S
    <2> HIDE DEF Good
    <2> SUFFICES ASSUME i + 1 <= n PROVE Good(i + 1)
        BY <1>6
    <2>7. i + 1 \in 1 .. n /\ i <= n
        BY <1>1, <1>6
    <2>8. Good(i)
        BY <1>6, <2>7
    <2> USE DEF Good
    <2> HIDE DEF S
    <2>1. Good(i) /\ i + 1 \in DOMAIN t /\ t[i + 1] \in Steps
        <3>1. i + 1 \in DOMAIN t
            BY <1>1, <2>7
        <3>2. t[i + 1] \in Steps
            BY <3>1
        <3> QED BY <2>8, <3>1, <3>2
    <2> DEFINE e == t[i + 1]
               w == ReduceReceipts(h[i], e)
    <2>2. h[i + 1] = w
        <3>1. i + 1 \in 1 .. n /\ i + 1 - 1 = i
            BY <1>1, <2>1
        <3>2. h[i + 1] = ReceiptStep[<<h[i + 1 - 1], t[i + 1]>>]
            BY <1>3, <3>1 DEF Trace, n
        <3> QED BY <2>1, <3>1, <3>2, ReduceReceiptsSteps
    <2>3. w \in Views
        <3>1. ReceiptStep[<<h[i], e>>] \in Views
            BY <1>2, <2>1 DEF StepOf
        <3> QED BY <2>1, <3>1, ReduceReceiptsSteps
    <2>4. /\ w.requests = IF e[1] = "request" THEN InsertWithLru(h[i].requests, e[2])
                          ELSE h[i].requests
          /\ \A x \in Range(w.answers) : x \in Range(h[i].answers) \/ e = <<"answer", x>>
        BY <2>1, ReceiptsGoOn
    <2>5. NewestIn(t, i + 1, w.requests)
        <3>1. /\ \A id \in Ids : AsksAt(t, i + 1, id) =>
                    NewestIn(t, i + 1, InsertWithLru(h[i].requests, id))
              /\ (\A id \in Ids : ~AsksAt(t, i + 1, id)) => NewestIn(t, i + 1, h[i].requests)
            BY <2>1, NewestGoesOn
        <3>2. e[1] = "request" => e[2] \in Ids /\ AsksAt(t, i + 1, e[2])
            BY <2>1 DEF Steps, AsksAt
        <3>3. e[1] # "request" => \A id \in Ids : ~AsksAt(t, i + 1, id)
            BY DEF AsksAt
        <3> QED BY <2>4, <3>1, <3>2, <3>3
    <2>6. \A x \in Range(w.answers) : \E j \in 1 .. i + 1 : t[j] = <<"answer", x>>
        <3>1. i + 1 \in 1 .. i + 1 /\ \A j \in 1 .. i : j \in 1 .. i + 1
            OBVIOUS
        <3> QED BY <2>1, <2>4, <3>1
    <2> QED BY <2>2, <2>3, <2>5, <2>6
<1>7. Good(n)
    <2> HIDE DEF Good
    <2>1. Nat \subseteq S
        <3> HIDE DEF S
        <3> QED BY <1>5, <1>6, SetInduction
    <2> QED BY <1>1, <2>1
<1>8. /\ c.id \in Ids /\ c.request = Find(h[n].requests, c.id)
      /\ c.answers # NotInHistory => c.id \in Range(h[n].answers)
    <2>1. PICK id \in Range(h[n].resolved) : c = Card(h[n], id)
        BY <1>4 DEF Cards
    <2>2. id \in Ids
        BY <1>7, <2>1 DEF Views, Range
    <2>3. c.id = id /\ c.request = Find(h[n].requests, id)
          /\ c.answers \in {NotInHistory, Find(h[n].answers, id)}
        BY <2>1 DEF Card
    <2> QED BY <2>2, <2>3 DEF Find
<1>9. c.request = c.id <=> c.id \in Range(h[n].requests)
    BY <1>8 DEF Find, NotInHistory, Ids
<1>10. c.id \in Range(h[n].requests) <=> Known(t, c.id)
    BY <1>7, <1>8, KnownIsNewest DEF n
<1>11. c.answers # NotInHistory => LastTime(t, <<"answer", c.id>>) # {}
    <2> SUFFICES ASSUME c.answers # NotInHistory PROVE LastTime(t, <<"answer", c.id>>) # {}
        OBVIOUS
    <2>1. PICK j \in 1 .. n : t[j] = <<"answer", c.id>>
        BY <1>7, <1>8
    <2>2. PICK m \in 1 .. n : /\ t[m] = <<"answer", c.id>>
                              /\ \A k \in m + 1 .. n : t[k] # <<"answer", c.id>>
        BY <1>1, <2>1, LastOfThem
    <2>3. \A k \in 1 .. n : t[k] = <<"answer", c.id>> => k <= m
        <3>1. \A k \in 1 .. n : k \in m + 1 .. n \/ k <= m
            BY <1>1
        <3> QED BY <2>2, <3>1
    <2> QED BY <1>1, <2>2, <2>3 DEF LastTime
<1> QED BY <1>9, <1>10, <1>11

-----------------------------------------------------------------------------
(* The tokens of a command *)

Letters == {" ", "t", "-", "!", "/", "."}
Lists == Seq(Letters)
Parts == {ps \in Seq(Lists) : ps # <<>>}
CutStep == [q \in Parts \X Letters |-> Cut(q[1], q[2])]

\* A list that is not empty is its front and its last element.
LEMMA FrontAndLast ==
    ASSUME NEW S, NEW s \in Seq(S), s # <<>>
    PROVE  /\ Len(s) \in Nat \ {0} /\ Last(s) \in S /\ Last(s) = s[Len(s)]
           /\ Front(s) \in Seq(S) /\ Len(Front(s)) = Len(s) - 1
           /\ s = Append(Front(s), Last(s))
<1> DEFINE n == Len(s)
           f == Front(s)
<1>1. n \in Nat \ {0} /\ Last(s) = s[n] /\ \A i \in 1 .. n : s[i] \in S
    BY DEF Last
<1> HIDE DEF n
<1>2. f = SubSeq(s, 1, n - 1)
    BY DEF Front, n
<1> HIDE DEF f
<1>3. /\ f \in Seq(S) /\ Len(f) = n - 1 /\ \A i \in 1 .. n - 1 : f[i] = s[i]
    BY <1>1, <1>2
<1>4. Append(f, s[n]) = s
    <2>1. Append(f, s[n]) \in Seq(S) /\ Len(Append(f, s[n])) = n
        BY <1>1, <1>3
    <2>2. \A i \in 1 .. n : Append(f, s[n])[i] = s[i]
        BY <1>1, <1>3
    <2> QED BY <2>1, <2>2, SeqEqual DEF n
<1> QED BY <1>1, <1>3, <1>4 DEF n, f

LEMMA CutEffect ==
    ASSUME NEW ps \in Parts, NEW x \in Letters
    PROVE  /\ Cut(ps, x) \in Parts
           /\ Front(ps) \in Seq(Lists) /\ Last(ps) \in Lists /\ Append(Last(ps), x) \in Lists
           /\ ps = Append(Front(ps), Last(ps)) /\ Len(ps) \in Nat \ {0}
           /\ Len(Front(ps)) = Len(ps) - 1
<1>1. \A a \in Lists : Append(a, x) \in Lists /\ <<x>> \in Lists
    BY DEF Lists
<1> HIDE DEF Lists
<1>2. ps \in Seq(Lists) /\ ps # <<>> /\ Len(ps) \in Nat \ {0}
    BY DEF Parts
<1>3. Last(ps) \in Lists
    BY <1>2, FrontAndLast
<1>4. Front(ps) \in Seq(Lists) /\ Len(Front(ps)) = Len(ps) - 1 /\ ps = Append(Front(ps), Last(ps))
    BY <1>2, FrontAndLast
<1>5. \A q \in Seq(Lists), a \in Lists : Append(q, a) \in Seq(Lists) /\ Append(q, a) # <<>>
    BY AppendProperties
<1>6. Cut(ps, x) \in Seq(Lists) /\ Cut(ps, x) # <<>>
    BY <1>1, <1>2, <1>3, <1>4, <1>5 DEF Cut
<1> QED BY <1>1, <1>2, <1>3, <1>4, <1>6 DEF Parts

LEMMA CutSteps ==
    /\ StepOf(CutStep, Parts, Letters)
    /\ \A v \in Parts, e \in Letters : CutStep[<<v, e>>] = Cut(v, e)
BY CutEffect DEF CutStep, StepOf

\* The fold of the cuts is what the loop over the letters leaves.
LEMMA CutFolds ==
    ASSUME NEW k \in Parts, NEW c \in Seq(Letters)
    PROVE  FoldLeft(Cut, k, c) = Folded(CutStep, k, c)
<1> DEFINE Fold(f) == f = [s \in SUBSET DOMAIN c |->
                              IF s = {} THEN k
                              ELSE Cut(f[s \ {Max(s)}], c[Max(s)])]
           fold == CHOOSE f : Fold(f)
<1>1. StepOf(CutStep, Parts, Letters)
  BY CutSteps
<1>2. PICK iter \in [SUBSET DOMAIN c -> Parts] :
        CalculatesTyped(CutStep, Parts, Letters, k, c, iter)
  BY <1>1, LoopExists
<1>3. Fold(iter)
  BY <1>2, CutSteps DEF CalculatesTyped
<1>4. Fold(fold)
  <2> HIDE DEF Fold
  <2>1. QED
    BY <1>3
<1>5. FoldLeft(Cut, k, c) = fold[DOMAIN c]
  BY Zenon DEF FoldLeft, MapThenFoldSet
<1> HIDE DEF fold
<1>6. Calculates(CutStep, Parts, Letters, k, c, fold)
  BY <1>4, CutSteps DEF Calculates
<1> HIDE DEF Fold
<1>7. fold[DOMAIN c] = Folded(CutStep, k, c)
  BY <1>1, <1>6, LoopIsFolded
<1>8. QED
  BY <1>5, <1>7

\* The parts are the letters up to n, cut where blanks and others meet; e has
\* the ends of the parts.
PieceAt(c, i, piece, u, v) ==
    /\ u <= v /\ (i > 1 => u < v) /\ Len(piece) = v - u
    /\ \A k \in 1 .. Len(piece) : piece[k] = c[u + k] /\ (c[u + k] \in Blank <=> i % 2 = 0)
CutAt(c, n, ps, e) ==
    /\ e \in [0 .. Len(ps) -> 0 .. n] /\ e[0] = 0 /\ e[Len(ps)] = n
    /\ \A i \in 1 .. Len(ps) : PieceAt(c, i, ps[i], e[i - 1], e[i])

LEMMA CutGoesOn ==
    ASSUME NEW c \in Seq(Letters), NEW n \in Nat, n + 1 \in DOMAIN c, NEW ps \in Parts,
           NEW e, CutAt(c, n, ps, e)
    PROVE  \E f : CutAt(c, n + 1, Cut(ps, c[n + 1]), f)
<1> DEFINE x == c[n + 1]
           m == Len(ps)
           w == Cut(ps, x)
<1>1. /\ x \in Letters /\ m \in Nat \ {0} /\ Front(ps) \in Seq(Lists) /\ Last(ps) \in Lists
      /\ ps = Append(Front(ps), Last(ps)) /\ Len(Front(ps)) = m - 1
      /\ Append(Last(ps), x) \in Lists /\ w \in Parts
    BY CutEffect
<1>2. ps \in Seq(Lists)
    BY DEF Parts
<1>3. /\ e \in [0 .. m -> 0 .. n] /\ e[0] = 0 /\ e[m] = n
      /\ \A i \in 1 .. m : PieceAt(c, i, ps[i], e[i - 1], e[i])
    BY DEF CutAt
<1>4. CASE (m % 2 = 0) # (x \in Blank)
    <2> DEFINE f == [i \in 0 .. m + 1 |-> IF i = m + 1 THEN n + 1 ELSE e[i]]
    <2>1. w = Append(ps, <<x>>)
        BY <1>4 DEF Cut
    <2>2. <<x>> \in Lists
        BY <1>1 DEF Lists
    <2> HIDE DEF Lists
    <2>3. /\ Len(w) = m + 1 /\ w[m + 1] = <<x>> /\ \A i \in 1 .. m : w[i] = ps[i]
        BY <1>1, <1>2, <2>1, <2>2
    <2>4. Len(<<x>>) = 1 /\ <<x>>[1] = x
        OBVIOUS
    <2> HIDE DEF m, w, x
    <2>5. f \in [0 .. m + 1 -> 0 .. n + 1] /\ f[0] = 0 /\ f[m + 1] = n + 1 /\ f[m] = n
        BY <1>1, <1>3
    <2>6. \A i \in 1 .. m : f[i] = e[i] /\ f[i - 1] = e[i - 1]
        BY <1>1
    <2>7. ASSUME NEW i \in 1 .. m
          PROVE  PieceAt(c, i, w[i], f[i - 1], f[i])
        BY <1>3, <2>3, <2>6
    <2>8. (m + 1) % 2 = 0 <=> m % 2 # 0
        BY <1>1
    <2>9. PieceAt(c, m + 1, w[m + 1], f[m], f[m + 1])
        <3>1. f[m] <= f[m + 1]
            BY <2>5
        <3>2. Len(w[m + 1]) = 1 /\ w[m + 1][1] = x /\ \A k \in 1 .. Len(w[m + 1]) : k = 1
            BY <2>3, <2>4
        <3>3. x \in Blank <=> (m + 1) % 2 = 0
            BY <1>4, <2>8
        <3> HIDE DEF f
        <3>4. f[m] < f[m + 1] /\ f[m + 1] - f[m] = 1 /\ f[m] + 1 = n + 1
            BY <2>5
        <3>5. c[f[m] + 1] = x
            BY <3>4 DEF x
        <3> QED BY <2>5, <3>1, <3>2, <3>3, <3>4, <3>5 DEF PieceAt
    <2>10. \A i \in 1 .. m + 1 : i \in 1 .. m \/ i = m + 1
        BY <1>1
    <2> HIDE DEF f
    <2>11. \A i \in 1 .. Len(w) : PieceAt(c, i, w[i], f[i - 1], f[i])
        <3> DEFINE P(i) == PieceAt(c, i, w[i], f[i - 1], f[i])
        <3>4. P(m + 1)
            <4>1. (m + 1) - 1 = m
                BY <1>1
            <4> QED BY <2>9, <4>1, Zenon
        <3>5. \A i \in 1 .. m : P(i)
            BY <2>7
        <3> HIDE DEF P
        <3>1. Len(w) = m + 1 /\ P(m + 1) /\ \A i \in 1 .. m : P(i)
            BY <2>3, <3>4, <3>5
        <3>2. \A i \in 1 .. m + 1 : P(i)
            BY <2>10, <3>1
        <3>3. \A i \in 1 .. Len(w) : P(i)
            BY <3>1, <3>2
        <3> QED BY <3>3 DEF P
    <2>12. CutAt(c, n + 1, w, f)
        BY <2>3, <2>5, <2>11 DEF CutAt
    <2> QED BY <2>12 DEF w, x
<1>5. CASE (m % 2 = 0) = (x \in Blank)
    <2> DEFINE f == [i \in 0 .. m |-> IF i = m THEN n + 1 ELSE e[i]]
               l == Last(ps)
    <2>1. w = Append(Front(ps), Append(l, x))
        BY <1>5 DEF Cut
    <2>2. Len(Append(l, x)) = Len(l) + 1 /\ Append(l, x)[Len(l) + 1] = x
          /\ Len(l) \in Nat /\ \A k \in 1 .. Len(l) : Append(l, x)[k] = l[k]
        BY <1>1 DEF Lists
    <2>3. ps[m] = l
        BY DEF Last
    <2> HIDE DEF Lists, l
    <2>4. /\ Len(w) = m /\ w[m] = Append(l, x)
          /\ \A i \in 1 .. m - 1 : w[i] = Front(ps)[i] /\ ps[i] = Front(ps)[i]
        <3> DEFINE q == Front(ps)
        <3>1. /\ q \in Seq(Lists) /\ Len(q) = m - 1 /\ ps = Append(q, l) /\ w = Append(q, Append(l, x))
              /\ l \in Lists /\ Append(l, x) \in Lists
            BY <1>1, <2>1 DEF l
        <3> HIDE DEF q, w
        <3>2. Len(w) = m /\ w[m] = Append(l, x) /\ \A i \in 1 .. m - 1 : w[i] = q[i]
            BY <1>1, <3>1
        <3>3. \A i \in 1 .. m - 1 : ps[i] = q[i]
            BY <1>1, <3>1
        <3> QED BY <3>2, <3>3 DEF q
    <2> HIDE DEF m, w, x
    <2>5. f \in [0 .. m -> 0 .. n + 1] /\ f[0] = 0 /\ f[m] = n + 1 /\ f[m - 1] = e[m - 1]
        BY <1>1, <1>3
    <2>6. \A i \in 1 .. m - 1 : f[i] = e[i] /\ f[i - 1] = e[i - 1] /\ i \in 1 .. m
        BY <1>1
    <2>7. \A i \in 1 .. m : i \in 1 .. m - 1 \/ i = m
        BY <1>1
    <2> HIDE DEF f
    <2>8. ASSUME NEW i \in 1 .. m - 1
          PROVE  PieceAt(c, i, w[i], f[i - 1], f[i])
        BY <1>3, <2>4, <2>6
    <2>9. /\ e[m - 1] <= n /\ e[m - 1] \in 0 .. n /\ Len(l) = n - e[m - 1] /\ m \in 1 .. m
          /\ \A k \in 1 .. Len(l) : /\ l[k] = c[e[m - 1] + k]
                                    /\ c[e[m - 1] + k] \in Blank <=> m % 2 = 0
        <3>1. m \in 1 .. m /\ m - 1 \in 0 .. m
            BY <1>1
        <3>2. PieceAt(c, m, l, e[m - 1], e[m])
            BY <1>3, <2>3, <3>1
        <3> QED BY <1>3, <3>1, <3>2 DEF PieceAt
    <2>10. PieceAt(c, m, w[m], f[m - 1], f[m])
        <3>1. f[m - 1] < f[m] /\ Len(w[m]) = Len(l) + 1 /\ f[m] - f[m - 1] = Len(l) + 1
            BY <2>2, <2>4, <2>5, <2>9
        <3>2. ASSUME NEW k \in 1 .. Len(l) + 1
              PROVE  /\ w[m][k] = c[f[m - 1] + k]
                     /\ c[f[m - 1] + k] \in Blank <=> m % 2 = 0
            <4>1. CASE k \in 1 .. Len(l)
                BY <2>2, <2>4, <2>5, <2>9, <4>1
            <4>2. CASE k = Len(l) + 1
                <5>1. f[m - 1] + k = n + 1
                    BY <2>2, <2>5, <2>9, <4>2
                <5>2. c[f[m - 1] + k] = x
                    BY <5>1 DEF x
                <5>3. x \in Blank <=> m % 2 = 0
                    BY <1>5
                <5> QED BY <2>2, <2>4, <4>2, <5>2, <5>3
            <4> QED BY <2>2, <4>1, <4>2
        <3> QED BY <2>5, <2>9, <3>1, <3>2 DEF PieceAt
    <2>11. \A i \in 1 .. Len(w) : PieceAt(c, i, w[i], f[i - 1], f[i])
        BY <2>4, <2>7, <2>8, <2>10
    <2>12. CutAt(c, n + 1, w, f)
        BY <2>4, <2>5, <2>11 DEF CutAt
    <2> QED BY <2>12 DEF w, x
<1> QED BY <1>4, <1>5

LEMMA JoinedCut ==
    ASSUME NEW ps \in Parts, NEW x \in Letters
    PROVE  Joined(ps) \in Lists /\ Joined(Cut(ps, x)) = Joined(ps) \o <<x>>
<1> DEFINE F == Front(ps)
           l == Last(ps)
<1>1. /\ F \in Seq(Lists) /\ l \in Lists /\ Append(l, x) \in Lists /\ ps = Append(F, l)
      /\ ps \in Seq(Lists)
    BY CutEffect DEF Parts
<1>2. /\ \A q \in Seq(Lists) : Joined(q) \in Lists
      /\ \A q \in Seq(Lists), a \in Lists : Joined(Append(q, a)) = Joined(q) \o a
    BY JoinedParts DEF Lists
<1>3. <<x>> \in Lists /\ Append(l, x) = l \o <<x>>
      /\ \A a \in Lists : (a \o l) \o <<x>> = a \o (l \o <<x>>)
    BY <1>1 DEF Lists
<1> HIDE DEF F, l, Lists
<1>4. CASE (Len(ps) % 2 = 0) # (x \in Blank)
    BY <1>1, <1>2, <1>3, <1>4 DEF Cut
<1>5. CASE (Len(ps) % 2 = 0) = (x \in Blank)
    <2>1. Cut(ps, x) = Append(F, Append(l, x))
        BY <1>5 DEF Cut, F, l
    <2>2. Joined(Append(F, Append(l, x))) = Joined(F) \o (l \o <<x>>)
        BY <1>1, <1>2, <1>3
    <2>3. Joined(ps) = Joined(F) \o l /\ Joined(F) \in Lists
        BY <1>1, <1>2
    <2>4. Joined(F) \o (l \o <<x>>) = (Joined(F) \o l) \o <<x>>
        BY <1>3, <2>3
    <2> QED BY <1>1, <1>2, <2>1, <2>2, <2>3, <2>4
<1> QED BY <1>4, <1>5

\* The parts of a command, with their ends.
LEMMA SplitIs ==
    ASSUME NEW c \in Seq(Letters)
    PROVE  \E ps \in Parts : \E e :
             /\ CutAt(c, Len(c), ps, e) /\ Joined(ps) = c
             /\ Split(c) = IF Len(ps) % 2 = 0 THEN Append(ps, <<>>) ELSE ps
<1> DEFINE n == Len(c)
           none == <<<<>>>>
<1>1. n \in Nat /\ DOMAIN c = 1 .. n
    OBVIOUS
<1>2. none \in Parts /\ Len(none) = 1 /\ Len(none[1]) = 0 /\ none = Append(<<>>, <<>>)
    <2>1. <<>> \in Lists
        BY DEF Lists
    <2> HIDE DEF Lists
    <2> QED BY <2>1 DEF Parts
<1>3. StepOf(CutStep, Parts, Letters)
    BY CutSteps
<1> HIDE DEF none
<1>4. PICK h : Trace(CutStep, none, c, h)
    BY <1>2, <1>3, TraceExists
<1>5. FoldLeft(Cut, none, c) = h[n]
    <2>1. FoldLeft(Cut, none, c) = Folded(CutStep, none, c)
        BY <1>2, CutFolds
    <2> QED BY <1>1, <1>4, <2>1, FoldedIsLast
<1> HIDE DEF n
<1> DEFINE Good(i) == h[i] \in Parts /\ (\E e : CutAt(c, i, h[i], e)) /\ Joined(h[i]) = SubSeq(c, 1, i)
           S == {i \in Nat : i <= n => Good(i)}
<1>6. 0 \in S
    <2>1. h[0] = none
        BY <1>4 DEF Trace
    <2>2. \E z : CutAt(c, 0, none, z)
        <3> DEFINE z == [i \in 0 .. 1 |-> 0]
        <3>1. z \in [0 .. 1 -> 0 .. 0] /\ z[0] = 0 /\ z[1] = 0
            OBVIOUS
        <3> HIDE DEF z
        <3>2. PieceAt(c, 1, none[1], z[0], z[1])
            BY <1>2, <3>1 DEF PieceAt
        <3>3. \A i \in 1 .. 1 : PieceAt(c, i, none[i], z[i - 1], z[i])
            <4> SUFFICES ASSUME NEW i \in 1 .. 1 PROVE PieceAt(c, i, none[i], z[i - 1], z[i])
                OBVIOUS
            <4>1. i = 1 /\ i - 1 = 0
                OBVIOUS
            <4> QED BY <3>2, <4>1
        <3>4. CutAt(c, 0, none, z)
            BY <1>2, <3>1, <3>3 DEF CutAt
        <3> QED BY <3>4
    <2>3. Joined(none) = <<>>
        <3>1. Joined(<<>>) = <<>> /\ Joined(Append(<<>>, <<>>)) = Joined(<<>>) \o <<>>
            <4>1. <<>> \in Seq(Seq(Letters)) /\ <<>> \in Seq(Letters)
                OBVIOUS
            <4> QED BY <4>1, JoinedParts
        <3> QED BY <1>2, <3>1
    <2>4. SubSeq(c, 1, 0) = <<>>
        OBVIOUS
    <2>5. Good(0)
        BY <1>2, <2>1, <2>2, <2>3, <2>4
    <2> QED BY <2>5
<1>7. ASSUME NEW i \in S \cap Nat PROVE i + 1 \in S
    <2> HIDE DEF Good
    <2> SUFFICES ASSUME i + 1 <= n PROVE Good(i + 1)
        BY <1>7
    <2>6. i + 1 \in 1 .. n /\ i <= n
        BY <1>1, <1>7
    <2>7. Good(i)
        BY <1>7, <2>6
    <2>8. i + 1 \in DOMAIN c /\ c[i + 1] \in Letters
        <3>1. i + 1 \in DOMAIN c
            BY <1>1, <2>6
        <3> QED BY <3>1
    <2> USE DEF Good
    <2> HIDE DEF S
    <2>1. Good(i) /\ i + 1 \in DOMAIN c /\ c[i + 1] \in Letters
        BY <2>7, <2>8
    <2>2. h[i + 1] = Cut(h[i], c[i + 1])
        <3>1. i + 1 \in 1 .. n /\ i + 1 - 1 = i
            BY <1>1, <2>1
        <3>2. h[i + 1] = CutStep[<<h[i + 1 - 1], c[i + 1]>>]
            BY <1>4, <3>1 DEF Trace, n
        <3> QED BY <2>1, <3>1, <3>2, CutSteps
    <2>3. Cut(h[i], c[i + 1]) \in Parts
        BY <2>1, CutEffect
    <2>4. \E e : CutAt(c, i + 1, Cut(h[i], c[i + 1]), e)
        <3>1. PICK e : CutAt(c, i, h[i], e)
            BY <2>1
        <3> QED BY <2>1, <3>1, CutGoesOn
    <2>5. Joined(Cut(h[i], c[i + 1])) = SubSeq(c, 1, i + 1)
        <3>1. Joined(Cut(h[i], c[i + 1])) = SubSeq(c, 1, i) \o <<c[i + 1]>>
            BY <2>1, JoinedCut
        <3>2. SubSeq(c, 1, i) \o <<c[i + 1]>> = SubSeq(c, 1, i + 1)
            <4> DEFINE j == i + 1
            <4>1. j \in 1 .. Len(c) /\ 1 \in 1 .. Len(c) /\ j \in 1 .. Len(c) /\ j - 1 = i
                BY <2>1
            <4> HIDE DEF j
            <4>2. SubSeq(c, 1, j) = Append(SubSeq(c, 1, j - 1), c[j])
                BY <4>1, SubSeqRecursiveSecond
            <4>3. SubSeq(c, 1, i) \in Seq(Letters) /\ c[j] \in Letters
                BY <4>1
            <4>4. Append(SubSeq(c, 1, i), c[j]) = SubSeq(c, 1, i) \o <<c[j]>>
                BY <4>3, AppendIsConcat
            <4> QED BY <4>1, <4>2, <4>4 DEF j
        <3> QED BY <3>1, <3>2
    <2> QED BY <2>2, <2>3, <2>4, <2>5
<1>8. Good(n)
    <2> HIDE DEF Good
    <2>1. Nat \subseteq S
        <3> HIDE DEF S
        <3> QED BY <1>6, <1>7, SetInduction
    <2> QED BY <1>1, <2>1
<1>9. Split(c) = IF Len(h[n]) % 2 = 0 THEN Append(h[n], <<>>) ELSE h[n]
    BY <1>5 DEF Split, none
<1>10. SubSeq(c, 1, n) = c
    BY <1>1 DEF n
<1> QED BY <1>8, <1>9, <1>10 DEF n

\* A part is a letter alone exactly where that is a word.
LEMMA WordIsPart ==
    ASSUME NEW c \in Seq(Letters), NEW ps \in Parts, NEW e, CutAt(c, Len(c), ps, e),
           NEW X \in Letters, X \notin Blank
    PROVE  (\E i \in DOMAIN ps : ps[i] = <<X>>) <=> <<X>> \in Words(c)
<1> DEFINE n == Len(c)
           m == Len(ps)
           B(j) == c[j] \in Blank
<1>1. n \in Nat /\ m \in Nat \ {0} /\ DOMAIN ps = 1 .. m /\ \A i \in 1 .. m : ps[i] \in Lists
    <2>1. ps \in Seq(Lists) /\ ps # <<>>
        BY DEF Parts
    <2> HIDE DEF Lists
    <2> QED BY <2>1
<1>2. /\ e \in [0 .. m -> 0 .. n] /\ e[0] = 0 /\ e[m] = n
      /\ \A i \in 1 .. m :
           /\ e[i - 1] \in 0 .. n /\ e[i] \in 0 .. n
           /\ e[i - 1] <= e[i] /\ (i > 1 => e[i - 1] < e[i])
           /\ Len(ps[i]) = e[i] - e[i - 1]
           /\ \A k \in 1 .. Len(ps[i]) : /\ ps[i][k] = c[e[i - 1] + k]
                                         /\ B(e[i - 1] + k) <=> i % 2 = 0
    <2>1. \A i \in 1 .. m : PieceAt(c, i, ps[i], e[i - 1], e[i])
        BY DEF CutAt
    <2>2. e \in [0 .. m -> 0 .. n] /\ e[0] = 0 /\ e[m] = n
        BY DEF CutAt
    <2>3. \A i \in 1 .. m : i \in 0 .. m /\ i - 1 \in 0 .. m
        BY <1>1
    <2> HIDE DEF m, n
    <2>4. \A i \in 1 .. m : e[i - 1] \in 0 .. n /\ e[i] \in 0 .. n
        BY <2>2, <2>3
    <2> QED BY <2>1, <2>2, <2>4 DEF PieceAt
<1>3. \A j : c[j] = X => ~B(j)
    OBVIOUS
<1> HIDE DEF m, n, B
<1>7. n \in Nat /\ m \in Nat
    BY <1>1
<1>4. <<X>> \in Words(c) <=>
        \E p \in 1 .. n : /\ c[p] = X /\ (p = 1 \/ B(p - 1)) /\ (p = n \/ B(p + 1))
    <2>1. ASSUME NEW p \in 1 .. n, c[p] = X, p = 1 \/ B(p - 1), p = n \/ B(p + 1)
          PROVE  <<X>> \in Words(c)
        <3>1. SubSeq(c, p, p) = <<X>>
            <4>1. \A i \in p .. p : c[i] \in Letters
                <5>1. \A i \in 1 .. n : c[i] \in Letters
                    BY DEF n
                <5> QED BY <1>1, <5>1
            <4> DEFINE u == SubSeq(c, p, p)
            <4>2. u \in Seq(Letters) /\ Len(u) = 1 /\ u[1] = c[p]
                BY <4>1, SubSeqProperties
            <4> HIDE DEF u
            <4>3. \A a : Len(a) = 1 /\ a \in Seq(Letters) => a = <<a[1]>>
                OBVIOUS
            <4>4. u = <<X>>
                BY <2>1, <4>2, <4>3
            <4> QED BY <4>4 DEF u
        <3>2. <<p, p>> \in (1 .. n) \X (1 .. n) /\ \A i \in p .. p : i = p
            BY <1>1
        <3> DEFINE q == <<p, p>>
        <3>3. q[1] = p /\ q[2] = p
            OBVIOUS
        <3>4. /\ q[1] <= q[2] /\ \A i \in q[1] .. q[2] : c[i] \notin Blank
              /\ q[1] = 1 \/ c[q[1] - 1] \in Blank
              /\ q[2] = n \/ c[q[2] + 1] \in Blank
            BY <1>1, <1>3, <2>1, <3>2, <3>3 DEF B
        <3> HIDE DEF q
        <3>5. q \in {r \in (1 .. n) \X (1 .. n) :
                        /\ r[1] <= r[2] /\ \A i \in r[1] .. r[2] : c[i] \notin Blank
                        /\ r[1] = 1 \/ c[r[1] - 1] \in Blank
                        /\ r[2] = n \/ c[r[2] + 1] \in Blank}
            BY <3>2, <3>4 DEF q
        <3>6. SubSeq(c, q[1], q[2]) = <<X>>
            BY <3>1, <3>3
        <3> QED BY <3>5, <3>6 DEF Words, n
    <2>2. ASSUME <<X>> \in Words(c)
          PROVE  \E p \in 1 .. n : /\ c[p] = X /\ (p = 1 \/ B(p - 1)) /\ (p = n \/ B(p + 1))
        <3>1. PICK q \in (1 .. n) \X (1 .. n) :
                /\ q[1] <= q[2]
                /\ q[1] = 1 \/ c[q[1] - 1] \in Blank
                /\ q[2] = n \/ c[q[2] + 1] \in Blank
                /\ <<X>> = SubSeq(c, q[1], q[2])
            BY <2>2 DEF Words, n
        <3>2. q[1] \in 1 .. n /\ q[2] \in 1 .. n
            OBVIOUS
        <3> DEFINE u == SubSeq(c, q[1], q[2])
        <3>3. Len(u) = q[2] - q[1] + 1 /\ u[1] = c[q[1]]
            <4> DEFINE a == q[1]
                       b == q[2]
            <4>1. a \in 1 .. n /\ b \in 1 .. n /\ a <= b
                BY <3>1, <3>2
            <4>2. \A i \in 1 .. n : c[i] \in Letters
                BY DEF n
            <4> HIDE DEF a, b
            <4>3. \A i \in a .. b : c[i] \in Letters
                BY <1>1, <4>1, <4>2
            <4> DEFINE v == SubSeq(c, a, b)
            <4>4. /\ Len(v) = IF a <= b THEN b - a + 1 ELSE 0
                  /\ \A i \in 1 .. b - a + 1 : v[i] = c[a + i - 1]
                BY <1>1, <4>1, <4>3, SubSeqProperties
            <4> HIDE DEF v
            <4>5. Len(v) = b - a + 1 /\ v[1] = c[a]
                BY <1>1, <4>1, <4>4
            <4> QED BY <4>5 DEF v, a, b
        <3>4. Len(<<X>>) = 1 /\ <<X>>[1] = X
            OBVIOUS
        <3>6. u = <<X>>
            BY <3>1
        <3> HIDE DEF u
        <3>7. Len(u) = 1 /\ u[1] = X
            BY <3>4, <3>6
        <3>5. q[2] = q[1] /\ c[q[1]] = X
            <4>1. \A a \in 1 .. n, b \in 1 .. n : b - a + 1 = 1 => b = a
                OBVIOUS
            <4>2. q[2] - q[1] + 1 = 1
                BY <3>3, <3>7
            <4> QED BY <3>2, <3>3, <3>7, <4>1, <4>2
        <3> QED BY <3>1, <3>2, <3>5 DEF B
    <2> QED BY <2>1, <2>2
<1>5. ASSUME NEW i \in 1 .. m, ps[i] = <<X>>
      PROVE  \E p \in 1 .. n : /\ c[p] = X /\ (p = 1 \/ B(p - 1)) /\ (p = n \/ B(p + 1))
    <2>1. Len(ps[i]) = 1 /\ ps[i][1] = X /\ 1 \in 1 .. Len(ps[i])
        BY <1>5
    <2> DEFINE p == e[i]
    <2>2. /\ e[i - 1] \in 0 .. n /\ e[i] \in 0 .. n /\ e[i] - e[i - 1] = 1
          /\ c[e[i - 1] + 1] = X /\ (B(e[i - 1] + 1) <=> i % 2 = 0)
        <3>1. /\ e[i - 1] \in 0 .. n /\ e[i] \in 0 .. n /\ Len(ps[i]) = e[i] - e[i - 1]
              /\ \A k \in 1 .. Len(ps[i]) : /\ ps[i][k] = c[e[i - 1] + k]
                                            /\ B(e[i - 1] + k) <=> i % 2 = 0
            BY <1>2
        <3> QED BY <2>1, <3>1
    <2>3. e[i - 1] + 1 = p /\ p \in 1 .. n /\ c[p] = X /\ ~B(p) /\ i % 2 = 1
        <3>1. e[i - 1] + 1 = p /\ p \in 1 .. n
            <4>1. \A a \in 0 .. n, b \in 0 .. n : b - a = 1 => a + 1 = b /\ b \in 1 .. n
                BY <1>7
            <4> QED BY <2>2, <4>1, Zenon
        <3>2. c[p] = X /\ ~B(p)
            BY <1>3, <2>2, <3>1
        <3> QED BY <2>2, <3>1, <3>2
    <2>4. p # 1 => B(p - 1)
        <3> SUFFICES ASSUME p # 1 PROVE B(p - 1)
            OBVIOUS
        <3>1. i > 1
            <4>1. i = 1 => e[i - 1] = 0
                BY <1>2
            <4> QED BY <2>2, <2>3, <4>1
        <3> DEFINE j == i - 1
        <3>6. j \in 1 .. m /\ j % 2 = 0 /\ e[j] = p - 1
            <4>1. j \in 1 .. m /\ j % 2 = 0
                <5>1. i % 2 = 1
                    BY <2>3
                <5> QED BY <1>7, <3>1, <5>1
            <4>2. \A a \in 0 .. n, b \in 1 .. n : a + 1 = b => a = b - 1
                OBVIOUS
            <4>3. e[j] = p - 1
                BY <2>2, <2>3, <4>2, Zenon
            <4> QED BY <4>1, <4>3
        <3>2. j \in 1 .. m /\ j % 2 = 0 /\ e[j] = p - 1 /\ e[j - 1] \in 0 .. n
            BY <1>2, <3>6
        <3>3. e[j - 1] < e[j]
            <4>1. j > 1 => e[j - 1] < e[j]
                BY <1>2, <3>2
            <4>2. j # 1
                BY <3>2
            <4> QED BY <3>2, <4>1, <4>2
        <3>4. Len(ps[j]) = e[j] - e[j - 1]
              /\ \A k \in 1 .. Len(ps[j]) : B(e[j - 1] + k) <=> j % 2 = 0
            BY <1>2, <3>2
        <3> HIDE DEF j, p
        <3>5. Len(ps[j]) \in 1 .. Len(ps[j]) /\ e[j - 1] + Len(ps[j]) = p - 1
            <4>1. \A a \in 0 .. n, b \in 1 .. n : \A l :
                    a < b - 1 /\ l = b - 1 - a => l \in 1 .. l /\ a + l = b - 1
                BY <1>7
            <4>2. p \in 1 .. n /\ e[j - 1] \in 0 .. n /\ e[j - 1] < p - 1
                BY <2>3, <3>2, <3>3, Zenon
            <4>3. Len(ps[j]) = p - 1 - e[j - 1]
                BY <3>2, <3>4, Zenon
            <4> QED BY <4>1, <4>2, <4>3, Zenon
        <3>7. B(e[j - 1] + Len(ps[j])) <=> j % 2 = 0
            BY <3>4, <3>5, Zenon
        <3>8. j % 2 = 0 /\ e[j - 1] + Len(ps[j]) = p - 1
            BY <3>2, <3>5
        <3> QED BY <3>7, <3>8, Zenon
    <2>5. p # n => B(p + 1)
        <3> SUFFICES ASSUME p # n PROVE B(p + 1)
            OBVIOUS
        <3> DEFINE j == i + 1
        <3>4. i # m
            BY <1>2
        <3>1. j \in 1 .. m /\ j % 2 = 0 /\ j > 1 /\ j - 1 = i
            BY <1>1, <2>3, <3>4
        <3>2. /\ e[j - 1] < e[j] /\ e[j] \in 0 .. n /\ Len(ps[j]) = e[j] - e[j - 1]
              /\ \A k \in 1 .. Len(ps[j]) : B(e[j - 1] + k) <=> j % 2 = 0
            <4> HIDE DEF j
            <4> QED BY <1>2, <3>1
        <3> HIDE DEF j
        <3>3. 1 \in 1 .. Len(ps[j]) /\ e[j - 1] + 1 = p + 1
            BY <2>3, <3>1, <3>2
        <3> QED BY <3>1, <3>2, <3>3
    <2> HIDE DEF p
    <2> QED BY <2>3, <2>4, <2>5
<1>6. ASSUME NEW p \in 1 .. n, c[p] = X, p = 1 \/ B(p - 1), p = n \/ B(p + 1)
      PROVE  \E i \in 1 .. m : ps[i] = <<X>>
    <2> DEFINE s == {i \in 1 .. m : e[i - 1] < p}
    <2>1. s \in SUBSET (1 .. m) /\ 1 \in s
        BY <1>1, <1>2
    <2> HIDE DEF s
    <2>2. Max(s) \in s /\ \A y \in s : Max(s) >= y
        BY <1>1, <2>1, MaxOfNumbers
    <2> DEFINE i == Max(s)
    <2>3. i \in 1 .. m /\ e[i - 1] < p
        BY <2>2 DEF s
    <2>4. p <= e[i]
        <3>1. CASE i = m
            BY <1>2, <3>1
        <3>2. CASE i # m
            <4>1. i + 1 \in 1 .. m /\ ~(i >= i + 1)
                BY <1>1, <2>3, <3>2
            <4>2. i + 1 \notin s
                BY <2>2, <4>1
            <4>3. ~(e[i + 1 - 1] < p) /\ i + 1 - 1 = i
                BY <2>3, <4>1, <4>2 DEF s
            <4>4. e[i] \in 0 .. n
                BY <1>1, <1>2, <2>3
            <4> QED BY <4>3, <4>4
        <3> QED BY <3>1, <3>2
    <2> HIDE DEF i
    <2>5. /\ e[i - 1] \in 0 .. n /\ e[i] \in 0 .. n /\ Len(ps[i]) = e[i] - e[i - 1]
          /\ \A k \in 1 .. Len(ps[i]) : /\ ps[i][k] = c[e[i - 1] + k]
                                        /\ B(e[i - 1] + k) <=> i % 2 = 0
        BY <1>2, <2>3
    <2>6. \A q \in e[i - 1] + 1 .. e[i] : B(q) <=> i % 2 = 0
        <3> SUFFICES ASSUME NEW q \in e[i - 1] + 1 .. e[i] PROVE B(q) <=> i % 2 = 0
            OBVIOUS
        <3>1. q - e[i - 1] \in 1 .. Len(ps[i]) /\ e[i - 1] + (q - e[i - 1]) = q
            <4>1. \A a \in 0 .. n, b \in 0 .. n : \A k \in a + 1 .. b :
                    k - a \in 1 .. b - a /\ a + (k - a) = k
                BY <1>7
            <4>2. e[i - 1] \in 0 .. n /\ e[i] \in 0 .. n /\ Len(ps[i]) = e[i] - e[i - 1]
                BY <2>5
            <4> QED BY <4>1, <4>2
        <3>2. B(e[i - 1] + (q - e[i - 1])) <=> i % 2 = 0
            BY <2>5, <3>1, Zenon
        <3> QED BY <3>1, <3>2, Zenon
    <2>7. ~B(p) /\ p \in e[i - 1] + 1 .. e[i]
        BY <1>3, <1>6, <2>3, <2>4, <2>5
    <2>8. e[i - 1] + 1 = p
        <3> SUFFICES ASSUME e[i - 1] + 1 # p PROVE FALSE
            OBVIOUS
        <3>1. p - 1 \in e[i - 1] + 1 .. e[i] /\ p # 1
            <4>1. \A a \in 0 .. n, b \in 0 .. n : \A k \in a + 1 .. b :
                    a + 1 # k => k - 1 \in a + 1 .. b /\ k # 1
                BY <1>7
            <4>2. e[i - 1] \in 0 .. n /\ e[i] \in 0 .. n /\ p \in e[i - 1] + 1 .. e[i]
                BY <2>5, <2>7
            <4> QED BY <4>1, <4>2, Zenon
        <3> QED BY <1>6, <2>6, <2>7, <3>1
    <2>9. e[i] = p
        <3> SUFFICES ASSUME e[i] # p PROVE FALSE
            OBVIOUS
        <3>1. p + 1 \in e[i - 1] + 1 .. e[i] /\ p # n
            <4>1. \A a \in 0 .. n, b \in 0 .. n : \A k \in a + 1 .. b :
                    b # k => k + 1 \in a + 1 .. b /\ k # n
                BY <1>7
            <4>2. e[i - 1] \in 0 .. n /\ e[i] \in 0 .. n /\ p \in e[i - 1] + 1 .. e[i]
                BY <2>5, <2>7
            <4> QED BY <4>1, <4>2, Zenon
        <3> QED BY <1>6, <2>6, <2>7, <3>1
    <2>10. Len(ps[i]) = 1 /\ ps[i][1] = X
        <3>1. Len(ps[i]) = 1 /\ 1 \in 1 .. Len(ps[i])
            BY <1>1, <2>5, <2>8, <2>9
        <3>2. ps[i][1] = c[e[i - 1] + 1]
            BY <2>5, <3>1
        <3> QED BY <1>6, <2>8, <3>1, <3>2
    <2>11. ps[i] = <<X>>
        <3>1. ps[i] \in Seq(Letters)
            BY <1>1, <2>3 DEF Lists
        <3> QED BY <2>10, <3>1
    <2> QED BY <2>3, <2>11
<1> QED BY <1>1, <1>4, <1>5, <1>6

(***************************************************************************)
(* The tokens of a command of any length put together are the command, and *)
(* one is in red exactly where a destructive verb stands alone             *)
(* (commandTokens.ts).                                                     *)
(***************************************************************************)
THEOREM CommandsReadBack ==
    \A c \in Seq(Letters) :
        LET tokens == TokenizeCommand(c)
        IN  /\ Joined([i \in DOMAIN tokens |-> tokens[i].text]) = c
            /\ (\E i \in DOMAIN tokens : tokens[i].kind = "danger") <=> <<"!">> \in Words(c)
<1> SUFFICES ASSUME NEW c \in Seq(Letters)
             PROVE  LET tokens == TokenizeCommand(c)
                    IN  /\ Joined([i \in DOMAIN tokens |-> tokens[i].text]) = c
                        /\ (\E i \in DOMAIN tokens : tokens[i].kind = "danger") <=> <<"!">> \in Words(c)
    OBVIOUS
<1> DEFINE tokens == TokenizeCommand(c)
           w == Split(c)
<1>1. PICK ps \in Parts : \E e :
        /\ CutAt(c, Len(c), ps, e) /\ Joined(ps) = c
        /\ w = IF Len(ps) % 2 = 0 THEN Append(ps, <<>>) ELSE ps
    BY SplitIs
<1>2. (\E i \in DOMAIN ps : ps[i] = <<"!">>) <=> <<"!">> \in Words(c)
    <2>1. "!" \in Letters /\ "!" \notin Blank
        BY Zenon DEF Letters, Blank
    <2> QED BY <1>1, <2>1, WordIsPart, Zenon
<1>3. ps \in Seq(Lists) /\ <<>> \in Lists
    BY DEF Parts, Lists
<1>4. w \in Seq(Lists) /\ Joined(w) = c
    <2>1. Joined(ps) \in Lists /\ Joined(Append(ps, <<>>)) = Joined(ps) \o <<>>
        BY <1>3, JoinedParts DEF Lists
    <2>2. \A a \in Lists : a \o <<>> = a
        BY DEF Lists
    <2>3. Append(ps, <<>>) \in Seq(Lists)
        <3> HIDE DEF Lists
        <3> QED BY <1>3
    <2> QED BY <1>1, <1>3, <2>1, <2>2, <2>3
<1>5. (\E i \in DOMAIN w : w[i] = <<"!">>) <=> (\E i \in DOMAIN ps : ps[i] = <<"!">>)
    <2>1. CASE w = ps
        BY <2>1
    <2>2. CASE w = Append(ps, <<>>)
        <3> DEFINE n == Len(ps)
        <3>1. n \in Nat /\ DOMAIN ps = 1 .. n /\ DOMAIN w = 1 .. n + 1 /\ w[n + 1] = <<>>
              /\ \A i \in 1 .. n : w[i] = ps[i]
            <4> HIDE DEF Lists, w
            <4> QED BY <1>3, <2>2
        <3>2. <<>> # <<"!">>
            <4>1. Len(<<>>) = 0 /\ Len(<<"!">>) = 1
                OBVIOUS
            <4> QED BY <4>1
        <3> HIDE DEF n, w
        <3>3. \A i \in 1 .. n + 1 : i \in 1 .. n \/ i = n + 1
            BY <3>1
        <3>4. \A i \in 1 .. n : i \in 1 .. n + 1
            BY <3>1
        <3> QED BY <3>1, <3>2, <3>3, <3>4
    <2> QED BY <1>1, <2>1, <2>2
<1>6. tokens = [i \in DOMAIN w |-> Token(w[i])]
    BY DEF TokenizeCommand
<1>7. \A a : Token(a).text = a /\ (Token(a).kind = "danger" <=> a = <<"!">>)
    <2>1. Head(<<"!">>) = "!" /\ <<"!">> # <<>>
        OBVIOUS
    <2>2. "!" \notin Blank
        BY DEF Blank
    <2> QED BY <2>1, <2>2 DEF Token
<1> HIDE DEF w, tokens
<1>8. [i \in DOMAIN tokens |-> tokens[i].text] = w
    <2>1. DOMAIN tokens = DOMAIN w /\ \A i \in DOMAIN w : tokens[i].text = w[i]
        BY <1>6, <1>7
    <2>2. [i \in DOMAIN tokens |-> tokens[i].text] = [i \in DOMAIN w |-> w[i]]
        BY <2>1
    <2>3. w = [i \in DOMAIN w |-> w[i]]
        <3> HIDE DEF Lists
        <3> QED BY <1>4
    <2> QED BY <2>2, <2>3
<1>9. (\E i \in DOMAIN tokens : tokens[i].kind = "danger") <=> (\E i \in DOMAIN w : w[i] = <<"!">>)
    BY <1>6, <1>7
<1>10. /\ Joined([i \in DOMAIN tokens |-> tokens[i].text]) = c
       /\ (\E i \in DOMAIN tokens : tokens[i].kind = "danger") <=> <<"!">> \in Words(c)
    BY <1>2, <1>4, <1>5, <1>8, <1>9
<1> QED BY <1>10 DEF tokens

LEMMA NoneBare == Bare = {} /\ Borrowed = {}
<1>1. \A t \in Traces : t \in Seq(Steps)
    <2> SUFFICES ASSUME NEW t \in Traces PROVE t \in Seq(Steps)
        OBVIOUS
    <2>1. PICK m \in 0 .. 5 : t \in [1 .. m -> Steps]
        BY DEF Traces, BoundedSeq, SeqOf
    <2> QED BY <2>1
<1>2. \A t \in Traces : \A c \in Cards(After(t)) :
        /\ c.request = c.id <=> Known(t, c.id)
        /\ c.answers # NotInHistory => LastTime(t, <<"answer", c.id>>) # {}
    BY <1>1, ReceiptsAreRight
<1>3. \A t, id : Known(t, id) \in BOOLEAN
    BY DEF Known
<1> QED BY <1>2, <1>3 DEF Bare, Borrowed

LEMMA NoneMistokenized == Mistokenized = {}
<1> SUFFICES ASSUME NEW c \in Commands, c \in Mistokenized PROVE FALSE
    BY DEF Mistokenized
<1>1. c \in Seq(Letters)
    <2>1. Commands = SeqOf(Letters, 4)
        BY Zenon DEF Commands, BoundedSeq, Letters
    <2>2. PICK m \in 0 .. 4 : c \in [1 .. m -> Letters]
        BY <2>1 DEF SeqOf
    <2> QED BY <2>2
<1> DEFINE tokens == TokenizeCommand(c)
           Together == Joined([i \in DOMAIN tokens |-> tokens[i].text])
           Red == \E i \in DOMAIN tokens : tokens[i].kind = "danger"
<1>2. Together = c /\ (Red <=> <<"!">> \in Words(c))
    BY <1>1, CommandsReadBack
<1>3. Together # c \/ Red # (<<"!">> \in Words(c))
    BY DEF Mistokenized
<1>4. Red \in BOOLEAN
    OBVIOUS
<1> HIDE DEF Together, Red
<1> QED BY <1>2, <1>3, <1>4

\* The cards of a PWA about requests that are over say what was asked and
\* what was answered here, and show commands as they are (permission-history.ts,
\* commandTokens.ts).
THEOREM ReceiptsCorrect == Spec => []ReceiptsAreTrue
<1>1. ReceiptsAreTrue
    BY NoneBare, NoneMistokenized
    DEF ReceiptsAreTrue, ReceiptsShowTheRequest, ReceiptsShowOwnAnswers, CommandsAreWhole
<1> QED BY <1>1, PTL
=============================================================================
