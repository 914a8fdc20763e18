------------------------------ MODULE AskRelay ------------------------------
(***************************************************************************)
(* The relay of AskUserQuestion: a hook of Claude Code asks over a socket  *)
(* of its own and waits; the daemon holds the question with a timer and    *)
(* forwards it; the hub keeps it for PWAs that come later; every PWA pops  *)
(* the first question of the open session; the first answer that arrives,  *)
(* or the deadline, ends it.                                               *)
(*                                                                         *)
(* An answer is named by who gave it and by the question whose options it  *)
(* was picked from.  The hook is known by what the daemon does with its    *)
(* socket.  The link to the hub is cut at both ends at once; HubLink has   *)
(* the ways in which the ends disagree about it.                           *)
(***************************************************************************)
EXTENDS Integers, FiniteSets, SequencesExt

CONSTANTS
    Questions,
    Pwas,
    MaxLost,     \* bound: frames in flight that a broken link takes along
    Limit,       \* bound: how often each kind of event happens, see Events
    MaxEvents    \* bound: how many events happen in all

\* A hook goes away, the link breaks, the daemon restarts, the session of the
\* questions leaves, a PWA goes away, gives up on an answer.
Events == {"hangup", "cut", "restart", "leave", "away", "timeout"}

ASSUME LimitAssumption ==
    Limit \in [Events -> Nat] /\ MaxLost \in Nat /\ MaxEvents \in Nat
ASSUME QuestionsAssumption == IsFiniteSet(Questions)

VARIABLES
    hook,        \* question -> what its hook is doing, or the result it got
    reply,       \* question -> results on the socket to its hook
    live,        \* the daemon knows the session by its claude_session_id
    askToClient, \* the questions the daemon holds
    late,        \* the questions whose expires_at has passed
    ended,       \* history: question -> how the daemon ended it
    link, queued, toHub, answers,   \* daemon <-> hub, as in PermissionRelay
    cache,       \* pendingAskQuestions of the hub
    toPwa, pwa,
    unheard,     \* history: PWA -> the questions whose end it will not be told
    spent

hookVars == <<hook, reply>>
daemonVars == <<live, askToClient, late, ended>>
linkVars == <<link, queued, toHub, answers>>
pwaVars == <<toPwa, pwa>>
vars == <<hook, reply, live, askToClient, late, ended, link, queued, toHub,
          answers, cache, toPwa, pwa, unheard, spent>>

Answers == [by : Pwas, of : Questions]
Results == {<<"answered", a>> : a \in Answers} \cup {<<"expired">>}
Unknown == <<"session_unknown">>
None == <<"none">>
New == <<"new">>
Waiting == <<"waiting">>
Gone == <<"gone">>

Spend(event) ==
    /\ spent[event] < Limit[event]
    /\ FoldFunction(LAMBDA n, m : n + m, 0, spent) < MaxEvents
    /\ spent' = [spent EXCEPT ![event] = @ + 1]

\* cards: pendingQuestions in the order of their arrival; picked: the question
\* whose options the answers of the open AskCard are.
NoView == [cards |-> <<>>, sent |-> {}, picked |-> {},
           told |-> [q \in Questions |-> "none"]]

Init ==
    /\ hook = [q \in Questions |-> New]
    /\ reply = [q \in Questions |-> <<>>]
    /\ live = TRUE /\ askToClient = {} /\ late = {}
    /\ ended = [q \in Questions |-> None]
    /\ link = "down" /\ queued = <<>> /\ toHub = <<>> /\ answers = <<>>
    /\ cache = {}
    /\ toPwa = [p \in Pwas |-> <<>>]
    /\ pwa = [p \in Pwas |-> [online |-> TRUE, view |-> NoView]]
    /\ unheard = [p \in Pwas |-> {}]
    /\ spent = [e \in Events |-> 0]

-----------------------------------------------------------------------------
(* Frames *)

Hello == [type |-> "hello"]
Request(q) == [type |-> "ask_user_question_request", id |-> q]
Resolved(q, kind) ==
    [type |-> "ask_user_question_resolved", id |-> q, resolution |-> kind]
Answer(q, a) == [type |-> "ask_user_question_answer", id |-> q, answer |-> a]

HubSend(f) ==
    IF link = "up"
    THEN toHub' = Append(toHub, f) /\ UNCHANGED queued
    ELSE queued' = Append(queued, f) /\ UNCHANGED toHub

\* The questions whose end a queue tells.
Ends(c) == {c[i].id : i \in {j \in 1..Len(c) : c[j].type = "ask_user_question_resolved"}}

Misses(some, questions) ==
    unheard' = [p \in Pwas |-> IF p \in some THEN unheard[p] \cup questions ELSE unheard[p]]

ReplyTo(q, result) ==
    reply' = [reply EXCEPT ![q] = IF hook[q] = Waiting THEN Append(@, result) ELSE @]

-----------------------------------------------------------------------------
(* The hook and the daemon *)

\* handleHookAskUserQuestionRequest(): without a session the hook is told so at
\* once; else the question is held, its timer set, and it is forwarded.
HookAsks(q) ==
    /\ hook[q] = New
    /\ hook' = [hook EXCEPT ![q] = Waiting]
    /\ IF live
       THEN /\ askToClient' = askToClient \cup {q}
            /\ HubSend(Request(q))
            /\ UNCHANGED reply
       ELSE /\ reply' = [reply EXCEPT ![q] = <<Unknown>>]
            /\ UNCHANGED <<askToClient, queued, toHub>>
    /\ UNCHANGED <<live, late, ended, link, answers, cache, pwaVars, spent, unheard>>

HookHears(q) ==
    /\ reply[q] # <<>>
    /\ hook' = [hook EXCEPT ![q] = Head(reply[q])]
    /\ reply' = [reply EXCEPT ![q] = Tail(@)]
    /\ UNCHANGED <<daemonVars, linkVars, cache, pwaVars, spent, unheard>>

\* onClose(): what the client asked is dropped with its timer, and nobody is
\* told.
HookHangsUp(q) ==
    /\ hook[q] = Waiting
    /\ Spend("hangup")
    /\ hook' = [hook EXCEPT ![q] = Gone]
    /\ reply' = [reply EXCEPT ![q] = <<>>]
    /\ askToClient' = askToClient \ {q}
    /\ Misses(Pwas, askToClient \cap {q})
    /\ UNCHANGED <<live, late, ended, linkVars, cache, pwaVars>>

\* The end of a question, by an answer or by its timer.
End(q, result) ==
    /\ askToClient' = askToClient \ {q}
    /\ ended' = [ended EXCEPT ![q] = result]
    /\ ReplyTo(q, result)
    /\ HubSend(Resolved(q, result[1]))

Deadline(q) ==
    /\ q \in askToClient \ late
    /\ late' = late \cup {q}
    /\ UNCHANGED <<hookVars, live, askToClient, ended, linkVars, cache, pwaVars, spent, unheard>>

\* Mutant of Expire: the timer of an answered question is not cleared.
ExpireAgain(q) ==
    /\ q \in late
    /\ hook[q] = Waiting
    /\ ended[q] # <<"expired">>
    /\ End(q, <<"expired">>)
    /\ UNCHANGED <<hook, live, late, link, answers, cache, pwaVars, spent, unheard>>

\* Mutant of Expire: the hook is not told.
ExpireQuietly(q) ==
    /\ q \in askToClient \cap late
    /\ askToClient' = askToClient \ {q}
    /\ ended' = [ended EXCEPT ![q] = <<"expired">>]
    /\ HubSend(Resolved(q, "expired"))
    /\ UNCHANGED <<hookVars, live, late, link, answers, cache, pwaVars, spent, unheard>>

\* The callback of the timer.
Expire(q) ==
    /\ q \in askToClient \cap late
    /\ End(q, <<"expired">>)
    /\ UNCHANGED <<hook, live, late, link, answers, cache, pwaVars, spent, unheard>>

\* Mutant of OnAnswer: the last answer wins.
OnAnswerLastWins ==
    /\ answers # <<>>
    /\ answers' = Tail(answers)
    /\ LET f == Head(answers) IN End(f.id, <<"answered", f.answer>>)
    /\ UNCHANGED <<hook, live, late, link, cache, pwaVars, spent, unheard>>

\* An answer of a question that is not held any more is dropped.
OnAnswer ==
    /\ answers # <<>>
    /\ answers' = Tail(answers)
    /\ LET f == Head(answers) IN
       IF f.id \in askToClient
       THEN End(f.id, <<"answered", f.answer>>)
       ELSE UNCHANGED <<askToClient, ended, reply, queued, toHub>>
    /\ UNCHANGED <<hook, live, late, link, cache, pwaVars, spent, unheard>>

\* bye, or the plugin's socket closes; what its session asked stays.
SessionLeaves ==
    /\ live
    /\ Spend("leave")
    /\ live' = FALSE
    /\ UNCHANGED <<hookVars, askToClient, late, ended, linkVars, cache, pwaVars, unheard>>

SessionReturns ==
    /\ ~ live
    /\ live' = TRUE
    /\ UNCHANGED <<hookVars, askToClient, late, ended, linkVars, cache, pwaVars, spent, unheard>>

-----------------------------------------------------------------------------
(* The hub *)

ToEveryPwa(f) ==
    toPwa' = [p \in Pwas |-> IF pwa[p].online THEN Append(toPwa[p], f) ELSE toPwa[p]]

\* The open listener: hello, then onOpen's replay of the questions that are
\* held and not late, then what has waited.
LinkUp ==
    /\ link = "down"
    /\ link' = "up"
    /\ toHub' = <<Hello>>
                \o [i \in 1..Cardinality(askToClient \ late) |->
                        Request(SetToSeq(askToClient \ late)[i])]
                \o queued
    /\ queued' = <<>>
    /\ UNCHANGED <<hookVars, daemonVars, answers, cache, pwaVars, spent, unheard>>

\* The hub forgets the daemon, and the PWAs are told that it is offline, which
\* leaves their questions alone.
LinkDown ==
    /\ link = "up"
    /\ Spend("cut")
    /\ Len(toHub) + Len(answers) <= MaxLost
    /\ link' = "down"
    /\ toHub' = <<>> /\ answers' = <<>>
    /\ cache' = {}
    /\ Misses(Pwas, Ends(toHub))
    /\ UNCHANGED <<hookVars, daemonVars, queued, pwaVars>>

\* The process ends and starts: every socket closes, nothing is kept.
DaemonRestart ==
    /\ Spend("restart")
    /\ Len(toHub) + Len(answers) <= MaxLost
    /\ hook' = [q \in Questions |-> IF hook[q] = Waiting THEN Gone ELSE hook[q]]
    /\ reply' = [q \in Questions |-> <<>>]
    /\ askToClient' = {}
    /\ live' = FALSE
    /\ link' = "down"
    /\ queued' = <<>> /\ toHub' = <<>> /\ answers' = <<>>
    /\ cache' = {}
    /\ Misses(Pwas, askToClient \cup Ends(toHub) \cup Ends(queued))
    /\ UNCHANGED <<late, ended, pwaVars>>

\* onDaemonFrame(); what daemon_online does to a PWA is in HubLink.
HubReceive ==
    /\ toHub # <<>>
    /\ toHub' = Tail(toHub)
    /\ LET f == Head(toHub) IN
       /\ cache' = CASE f.type = "hello" -> {}
                     [] f.type = "ask_user_question_request" -> cache \cup {f.id}
                     [] OTHER -> cache \ {f.id}
       /\ IF f.type = "hello" THEN UNCHANGED toPwa ELSE ToEveryPwa(f)
       /\ Misses({p \in Pwas : ~ pwa[p].online}, Ends(<<f>>))
    /\ UNCHANGED <<hookVars, daemonVars, link, queued, answers, pwa, spent>>

-----------------------------------------------------------------------------
(* The PWAs *)

\* A key that is there already keeps its place in pendingQuestions.
AddCard(view, q) ==
    IF q \in Range(view.cards) THEN view
    ELSE [view EXCEPT !.cards = Append(@, q)]

\* RealApp has one AskQuestionSurface, for the first question; it is unmounted,
\* and its answers forgotten, when there is none, and not when the question is
\* another.
DropCard(view, q) ==
    LET left == RemoveFirst(view.cards, q) IN
    [view EXCEPT !.cards = left,
                 !.picked = IF left = <<>> THEN {} ELSE @]

\* Mutant of Reduce: only a PWA that has answered drops the card.
ReduceOwnAnswers(view, f) ==
    IF f.type = "ask_user_question_request" THEN AddCard(view, f.id)
    ELSE [(IF f.id \in view.sent THEN DropCard(view, f.id) ELSE view)
             EXCEPT !.sent = @ \ {f.id}, !.told[f.id] = f.resolution]

Reduce(view, f) ==
    IF f.type = "ask_user_question_request" THEN AddCard(view, f.id)
    ELSE [DropCard(view, f.id) EXCEPT !.sent = @ \ {f.id},
                                      !.told[f.id] = f.resolution]

PwaReceive(p) ==
    /\ toPwa[p] # <<>>
    /\ toPwa' = [toPwa EXCEPT ![p] = Tail(@)]
    /\ pwa' = [pwa EXCEPT ![p].view = Reduce(@, Head(toPwa[p]))]
    /\ UNCHANGED <<hookVars, daemonVars, linkVars, cache, spent, unheard>>

\* The buttons of the options.
Pick(p) ==
    /\ pwa[p].view.cards # <<>>
    /\ pwa[p].view.picked # {Head(pwa[p].view.cards)}
    /\ pwa' = [pwa EXCEPT ![p].view.picked = {Head(pwa[p].view.cards)}]
    /\ UNCHANGED <<hookVars, daemonVars, linkVars, cache, toPwa, spent, unheard>>

\* Submit, which is disabled while an option is missing or an answer pending.
\* The hub forwards to a connected daemon and drops otherwise.
SendAskAnswer(p) ==
    LET view == pwa[p].view
        q == Head(view.cards)
    IN
    /\ pwa[p].online
    /\ view.cards # <<>>
    /\ q \notin view.sent
    /\ \E of \in view.picked :
        answers' = IF link = "up" THEN Append(answers, Answer(q, [by |-> p, of |-> of]))
                   ELSE answers
    /\ pwa' = [pwa EXCEPT ![p].view.sent = @ \cup {q}]
    /\ UNCHANGED <<hookVars, daemonVars, link, queued, toHub, cache, toPwa, spent, unheard>>

CommandTimeout(p, q) ==
    /\ q \in pwa[p].view.sent
    /\ Spend("timeout")
    /\ pwa' = [pwa EXCEPT ![p].view.sent = @ \ {q}]
    /\ UNCHANGED <<hookVars, daemonVars, linkVars, cache, toPwa, unheard>>

PwaOffline(p) ==
    /\ pwa[p].online
    /\ Spend("away")
    /\ pwa' = [pwa EXCEPT ![p].online = FALSE]
    /\ toPwa' = [toPwa EXCEPT ![p] = <<>>]
    /\ Misses({p}, Ends(toPwa[p]))
    /\ UNCHANGED <<hookVars, daemonVars, linkVars, cache>>

\* The PWA reconnects, with its view or after a reload, and subscribes: the hub
\* sends the questions it has, and says nothing of those that have ended.
PwaOnline(p) ==
    /\ ~ pwa[p].online
    /\ \E view \in {pwa[p].view, NoView} :
           pwa' = [pwa EXCEPT ![p] = [online |-> TRUE, view |-> view]]
    /\ toPwa' = [toPwa EXCEPT ![p] =
                    [i \in 1..Cardinality(cache) |-> Request(SetToSeq(cache)[i])]]
    /\ UNCHANGED <<hookVars, daemonVars, linkVars, cache, spent, unheard>>

-----------------------------------------------------------------------------

Next ==
    \/ \E q \in Questions :
        \/ HookAsks(q) \/ HookHears(q) \/ HookHangsUp(q)
        \/ Deadline(q) \/ Expire(q)
        \/ \E p \in Pwas : CommandTimeout(p, q)
    \/ OnAnswer \/ SessionLeaves \/ SessionReturns \/ DaemonRestart
    \/ LinkUp \/ LinkDown \/ HubReceive
    \/ \E p \in Pwas :
        \/ PwaReceive(p) \/ Pick(p) \/ SendAskAnswer(p)
        \/ PwaOffline(p) \/ PwaOnline(p)

Spec == Init /\ [][Next]_vars

\* The event loops take what arrives, clocks advance, timers fire and the link
\* is retried; nothing is assumed of the hooks' lives or of the people.
Fairness ==
    /\ \A q \in Questions : WF_vars(HookHears(q)) /\ WF_vars(Deadline(q)) /\ WF_vars(Expire(q))
    /\ WF_vars(OnAnswer) /\ WF_vars(LinkUp) /\ WF_vars(HubReceive)
    /\ \A p \in Pwas : WF_vars(PwaReceive(p))

FairSpec == Spec /\ Fairness

-----------------------------------------------------------------------------

HubFrame ==
    [type : {"hello"}] \cup
    [type : {"ask_user_question_request"}, id : Questions] \cup
    [type : {"ask_user_question_resolved"}, id : Questions,
     resolution : {"answered", "expired"}]

\* Channels carry the frames the code knows; a view shows no question twice.
TypeOK ==
    /\ \A q \in Questions :
        /\ hook[q] \in {New, Waiting, Gone, Unknown} \cup Results
        /\ reply[q] \in Seq(Results \cup {Unknown})
        /\ ended[q] \in Results \cup {None}
    /\ askToClient \subseteq Questions /\ late \subseteq Questions
    /\ cache \subseteq Questions
    /\ unheard \in [Pwas -> SUBSET Questions]
    /\ queued \in Seq(HubFrame) /\ toHub \in Seq(HubFrame)
    /\ answers \in Seq([type : {"ask_user_question_answer"}, id : Questions,
                        answer : Answers])
    /\ \A p \in Pwas :
        /\ toPwa[p] \in Seq(HubFrame)
        /\ Range(pwa[p].view.cards) \subseteq Questions
        /\ IsInjective(pwa[p].view.cards)

InFlight(p, q) ==
    \E c \in {queued, toHub, toPwa[p]} :
        \E i \in 1..Len(c) : c[i].type # "hello" /\ c[i].id = q

\* What a PWA was told of a question, or is about to be, is how the daemon ended
\* it: an answer and the deadline never both end one.
ToldIsEnd ==
    LET Says(c) == \A i \in 1..Len(c) :
            c[i].type = "ask_user_question_resolved" =>
                c[i].resolution = ended[c[i].id][1]
    IN /\ Says(queued) /\ Says(toHub)
       /\ \A p \in Pwas :
            /\ Says(toPwa[p])
            /\ \A q \in Questions :
                pwa[p].view.told[q] # "none" => pwa[p].view.told[q] = ended[q][1]

\* A question somebody can still answer is in front of every PWA that has caught
\* up, through broken links, restarts of the daemon and reloads of the page.
OpenIsShown ==
    \A p \in Pwas, q \in askToClient \ late :
        link = "up" /\ pwa[p].online /\ ~ InFlight(p, q) =>
            q \in Range(pwa[p].view.cards)

\* The hub offers a question to newcomers only while the daemon holds it, once
\* it has caught up; the one way out is a hook that went away.
CachedIsHeld ==
    \A q \in cache :
        hook[q] # Gone /\ ~ (\E c \in {queued, toHub} :
            \E i \in 1..Len(c) : c[i].type # "hello" /\ c[i].id = q)
        => q \in askToClient

\* A card is of a question the daemon holds, or of one whose end is on its way:
\* the PWA drops it when the question is over, whoever ended it.  The ways out
\* are the ends a PWA is never told: the hook went away, the daemon restarted,
\* or the resolution was lost with a link, or came while the PWA was away.
ShownIsHeld ==
    \A p \in Pwas : \A q \in Range(pwa[p].view.cards) :
        \/ q \in askToClient \/ q \in unheard[p]
        \/ \E c \in {queued, toHub, toPwa[p]} : q \in Ends(c)

Decision == INSTANCE FirstAnswer WITH
    Requests <- Questions,
    Decisions <- Results,
    Undecided <- None,
    recorded <- {q \in Questions : hook[q] # New},
    decision <- ended,
    heard <- [q \in Questions |-> IF hook[q] \in Results THEN hook[q] ELSE None]

\* A question is decided once, by the first answer or the deadline, and what its
\* hook hears is that decision, once.
ImplementsDecision == Decision!Spec

\* A hook that stays is answered, whatever becomes of the hub, the session and
\* the PWAs: the deadline sees to it.
HookIsAnswered ==
    \A q \in Questions : hook[q] = Waiting ~> hook[q] # Waiting

\* As far as nothing was lost on its way, the cards of the PWAs that caught up
\* are the questions the daemon holds, no fewer and no more, and the hub offers
\* newcomers no others.
CardsAreOpen == TypeOK /\ OpenIsShown /\ ShownIsHeld /\ CachedIsHeld
=============================================================================
