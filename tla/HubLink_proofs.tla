--------------------------- MODULE HubLink_proofs ---------------------------
(***************************************************************************)
(* Proofs about HubLink, for any sessions, PWAs, numbers of faults and     *)
(* orders of connections.                                                  *)
(*                                                                         *)
(* First the registry of the hub and the state its router keeps: they      *)
(* agree with the connections that are open.                               *)
(*                                                                         *)
(* Then the lists on the way to the PWAs.  What is queued and in flight is *)
(* a sequence of any length, and the properties are about the fold of the  *)
(* handlers over it: the facts about folds come first, by induction over   *)
(* the length, then what the frames do to the state of the router and to a *)
(* view, then the greeting, and last the invariant and its steps.          *)
(***************************************************************************)
EXTENDS HubLink, Folding, FiniteSetTheorems, FunctionTheorems, TLAPS

-----------------------------------------------------------------------------
(* The registry and the router *)

\* What RegistryIsExact needs to be inductive: a connection that carries
\* frames is the last one dialed, and the next number is a new one.
ConnectionOrder ==
    /\ conn = [id |-> conn.id, status |-> conn.status, path |-> conn.path]
    /\ dialed \in Nat
    /\ registered \in Nat
    /\ conn.path \in BOOLEAN
    /\ conn.path => conn.status # "waiting" /\ conn.id # 0

\* The inductive invariant of the registry.
RegistryInv ==
    /\ ConnectionOrder
    /\ RegistryIsExact
    /\ OfflineIsForgotten

\* Nothing is open and nothing is remembered at first.
LEMMA RegistryInvInit == Init => RegistryInv
BY DEF Init, RegistryInv, ConnectionOrder, RegistryIsExact, OfflineIsForgotten, NoState

\* Steps that touch neither the connections nor the state of the router.
LEMMA RegistryInvFrame ==
    ASSUME RegistryInv, UNCHANGED <<conn, dialed, hubVars>>
    PROVE  RegistryInv'
BY DEF RegistryInv, ConnectionOrder, RegistryIsExact, OfflineIsForgotten, hubVars

\* The router forgets a daemon that disconnects.
LEMMA DisconnectForgets ==
    ASSUME OnDaemonDisconnect
    PROVE  ~cache'.known
BY DEF OnDaemonDisconnect, NoState

\* The old connection goes with its entry, the new one is alone.
LEMMA DialKeepsRegistry ==
    ASSUME RegistryInv, Dial
    PROVE  RegistryInv'
<1> DEFINE c == dialed + 1
<1>1. c \in Nat /\ c # 0
  BY DEF RegistryInv, ConnectionOrder
<1>2. /\ dialed' = c
      /\ conn' = [id |-> c, status |-> "dialing", path |-> TRUE]
      /\ registered' = c
      /\ open' = (open \ {registered}) \cup {c}
  BY DEF Dial, Add
<1> HIDE DEF c
<1>3. open \ {registered} = {}
  BY DEF RegistryInv, RegistryIsExact
<1>4. RegistryIsExact'
  BY <1>1, <1>2, <1>3 DEF RegistryIsExact
<1>5. ConnectionOrder'
  BY <1>1, <1>2 DEF ConnectionOrder
<1>6. OfflineIsForgotten'
  BY <1>1, <1>2 DEF OfflineIsForgotten
<1> QED BY <1>4, <1>5, <1>6 DEF RegistryInv

\* Only the registered connection can close, and not while it carries frames.
LEMMA CloseKeepsRegistry ==
    ASSUME RegistryInv, NEW c \in Connections, HubCloses(c)
    PROVE  RegistryInv'
<1>1. /\ c \in open
      /\ conn.id = c => ~conn.path
      /\ open' = open \ {c}
      /\ registered' = 0
      /\ UNCHANGED <<conn, dialed>>
  BY DEF HubCloses, clientVars
<1>2. c = registered /\ open = {registered}
  BY <1>1 DEF RegistryInv, RegistryIsExact
<1>3. ~conn.path
  BY <1>1, <1>2 DEF RegistryInv, RegistryIsExact
<1>4. RegistryIsExact'
  BY <1>1, <1>2, <1>3 DEF RegistryIsExact
<1>5. ConnectionOrder'
  BY <1>1 DEF RegistryInv, ConnectionOrder
<1>6. OfflineIsForgotten'
  <2>1. OnDaemonDisconnect
    BY DEF HubCloses
  <2> QED BY <2>1, DisconnectForgets DEF OfflineIsForgotten
<1> QED BY <1>4, <1>5, <1>6 DEF RegistryInv

\* A frame is handled on an open connection only, which is the registered one.
LEMMA FrameKeepsRegistry ==
    ASSUME RegistryInv, NEW c \in Connections, OnDaemonFrame(c)
    PROVE  RegistryInv'
<1>1. c \in open /\ UNCHANGED <<conn, dialed, open, registered>>
  BY DEF OnDaemonFrame, clientVars
<1>2. registered # 0
  BY <1>1 DEF RegistryInv, RegistryIsExact
<1>3. OfflineIsForgotten'
  BY <1>1, <1>2 DEF OfflineIsForgotten
<1> QED BY <1>1, <1>3 DEF RegistryInv, ConnectionOrder, RegistryIsExact

\* The daemon loses its connection, in whatever way: none carries frames.
LEMMA WaitingKeepsRegistry ==
    ASSUME RegistryInv, Waiting, UNCHANGED <<dialed, hubVars>>
    PROVE  RegistryInv'
BY DEF RegistryInv, ConnectionOrder, RegistryIsExact, OfflineIsForgotten, Waiting, hubVars

\* Every step keeps the registry exact.
LEMMA RegistryInvStep == RegistryInv /\ [Next]_vars => RegistryInv'
<1> SUFFICES ASSUME RegistryInv, [Next]_vars PROVE RegistryInv'
  OBVIOUS
<1>1. ASSUME NEW s \in Sessions,
             Register(s) \/ Scanned(s) \/ ScanFails(s) \/ Unregister(s)
             \/ \E status \in Statuses : Transition(s, status)
      PROVE  UNCHANGED <<conn, dialed, hubVars>>
  BY <1>1 DEF Register, Scanned, ScanFails, Unregister, Transition, clientVars
<1>2. ASSUME DaemonOpen PROVE RegistryInv'
  <2>1. conn' = [conn EXCEPT !.status = "open"] /\ UNCHANGED <<dialed, hubVars>>
    BY <1>2 DEF DaemonOpen
  <2> QED BY <2>1 DEF RegistryInv, ConnectionOrder, RegistryIsExact,
                       OfflineIsForgotten, hubVars
<1>3. ASSUME Cut PROVE RegistryInv'
  <2>1. conn' = [conn EXCEPT !.path = FALSE] /\ UNCHANGED <<dialed, hubVars>>
    BY <1>3 DEF Cut
  <2> QED BY <2>1 DEF RegistryInv, ConnectionOrder, RegistryIsExact,
                       OfflineIsForgotten, hubVars
<1>4. ASSUME DaemonNotices \/ DaemonCloses \/ DaemonRestart PROVE RegistryInv'
  <2>1. Waiting /\ UNCHANGED <<dialed, hubVars>>
    BY <1>4 DEF DaemonNotices, DaemonCloses, DaemonRestart
  <2> QED BY <2>1, WaitingKeepsRegistry
<1>5. ASSUME HubRestart PROVE RegistryInv'
  <2>1. /\ conn' = [conn EXCEPT !.path = FALSE]
        /\ open' = {} /\ registered' = 0 /\ cache' = NoState
        /\ UNCHANGED dialed
    BY <1>5 DEF HubRestart
  <2> QED BY <2>1 DEF RegistryInv, ConnectionOrder, RegistryIsExact,
                       OfflineIsForgotten, NoState
<1>6. ASSUME NEW p \in Pwas,
             PwaOpens(p) \/ OnPwaSubscribe(p) \/ PwaLost(p) \/ PwaReceive(p)
      PROVE  UNCHANGED <<conn, dialed, hubVars>>
  BY <1>6 DEF PwaOpens, OnPwaSubscribe, PwaLost, PwaReceive, clientVars
<1>7. CASE UNCHANGED vars
  BY <1>7, RegistryInvFrame DEF vars, clientVars
<1>8. CASE Next
  BY <1>8, <1>1, <1>2, <1>3, <1>4, <1>5, <1>6, RegistryInvFrame,
     DialKeepsRegistry, CloseKeepsRegistry, FrameKeepsRegistry DEF Next
<1> QED BY <1>7, <1>8

\* The hub has one connection of a daemon open, the registered one, and a
\* connection that works is it, whatever is cut, replaced or restarted.
THEOREM RegistryCorrect == Spec => []RegistryIsExact
<1>1. RegistryInv => RegistryIsExact
  BY DEF RegistryInv
<1> QED BY <1>1, RegistryInvInit, RegistryInvStep, PTL DEF Spec

\* The router has the state of a daemon only while the daemon is connected.
THEOREM OfflineCorrect == Spec => []OfflineIsForgotten
<1>1. RegistryInv => OfflineIsForgotten
  BY DEF RegistryInv
<1> QED BY <1>1, RegistryInvInit, RegistryInvStep, PTL DEF Spec

-----------------------------------------------------------------------------
(* Types *)

\* What the router can remember, and what a PWA can show.
CacheState == [known : BOOLEAN, sessions : Lists, inventory : SUBSET Sessions]

ViewState == [listed : BOOLEAN, online : BOOLEAN, sessions : Lists]

\* A list is a function from some sessions to statuses.
LEMMA ListsOf ==
    /\ \A S \in SUBSET Sessions : \A m \in [S -> Statuses] : m \in Lists
    /\ \A m \in Lists : DOMAIN m \in SUBSET Sessions /\ m \in [DOMAIN m -> Statuses]
<1>1. ASSUME NEW S \in SUBSET Sessions, NEW m \in [S -> Statuses] PROVE m \in Lists
  BY DEF Lists
<1>2. ASSUME NEW m \in Lists
      PROVE  DOMAIN m \in SUBSET Sessions /\ m \in [DOMAIN m -> Statuses]
  <2>1. PICK S \in SUBSET Sessions : m \in [S -> Statuses]
    BY DEF Lists
  <2>2. DOMAIN m = S
    BY <2>1
  <2>3. QED
    BY <2>1, <2>2
<1>3. QED
  BY <1>1, <1>2

\* The operations on lists give lists.
LEMMA ListTypes ==
    /\ NoSessions \in Lists
    /\ \A m \in Lists, s \in Sessions : Without(m, s) \in Lists
    /\ \A m \in Lists, s \in Sessions, status \in Statuses :
           With(m, s, status) \in Lists /\ [m EXCEPT ![s] = status] \in Lists
<1>1. NoSessions \in Lists
  <2>1. NoSessions \in [{} -> Statuses]
    BY DEF NoSessions
  <2>2. QED
    BY <2>1, ListsOf
<1>2. ASSUME NEW m \in Lists, NEW s \in Sessions PROVE Without(m, s) \in Lists
  <2>1. /\ DOMAIN m \ {s} \in SUBSET Sessions
        /\ Without(m, s) \in [DOMAIN m \ {s} -> Statuses]
    BY ListsOf DEF Without
  <2>2. QED
    BY <2>1, ListsOf
<1>3. ASSUME NEW m \in Lists, NEW s \in Sessions, NEW status \in Statuses
      PROVE  With(m, s, status) \in Lists /\ [m EXCEPT ![s] = status] \in Lists
  <2>1. /\ DOMAIN m \cup {s} \in SUBSET Sessions /\ DOMAIN m \in SUBSET Sessions
        /\ With(m, s, status) \in [DOMAIN m \cup {s} -> Statuses]
        /\ [m EXCEPT ![s] = status] \in [DOMAIN m -> Statuses]
    BY ListsOf DEF With
  <2>2. QED
    BY <2>1, ListsOf
<1>4. QED
  BY <1>1, <1>2, <1>3

\* The fields of a frame about a session.
LEMMA FrameKinds ==
    ASSUME NEW f \in SessionFrame
    PROVE  /\ f.session \in Sessions
           /\ f.type \in {"session_open", "session_state", "session_close"}
           /\ f.type # "session_close" => f.status \in Statuses
BY DEF SessionFrame

\* The lists that the handlers of frames leave are lists.
LEMMA ListedType ==
    ASSUME NEW m \in Lists, NEW f \in SessionFrame
    PROVE  Listed(m, f) \in Lists
BY FrameKinds, ListTypes DEF Listed

\* The router has a state after every frame.
LEMMA CachedType ==
    ASSUME NEW k \in CacheState, NEW f \in DaemonFrame
    PROVE  Cached(k, f) \in CacheState
<1>1. CASE f.type = "hello"
  BY <1>1 DEF Cached, CacheState, DaemonFrame, SessionFrame
<1>2. CASE f.type = "slash_inventory"
  BY <1>2 DEF Cached, CacheState, DaemonFrame, SessionFrame
<1>3. CASE f \in SessionFrame
  <2>1. f.type # "hello" /\ f.type # "slash_inventory" /\ f.session \in Sessions
    BY <1>3, FrameKinds
  <2>2. Listed(k.sessions, f) \in Lists
    BY <1>3, ListedType DEF CacheState
  <2>3. QED
    BY <2>1, <2>2 DEF Cached, CacheState
<1>4. QED
  BY <1>1, <1>2, <1>3 DEF DaemonFrame

\* A PWA has a view after every frame.
LEMMA ShownType ==
    ASSUME NEW v \in ViewState, NEW f \in PwaFrame
    PROVE  Shown(v, f) \in ViewState
<1>1. CASE f \in [type : {"snapshot"}, known : BOOLEAN, sessions : Lists]
  BY <1>1 DEF Shown, ViewState
<1>2. CASE f \in [type : {"daemon_online"}, sessions : Lists]
  BY <1>2 DEF Shown, ViewState
<1>3. CASE f = Offline
  BY <1>3 DEF Shown, ViewState, Offline
<1>4. CASE f \in SessionFrame
  <2>1. f.type \notin {"snapshot", "daemon_online", "daemon_offline"}
    BY <1>4, FrameKinds
  <2>2. Listed(v.sessions, f) \in Lists
    BY <1>4, ListedType DEF ViewState
  <2>3. QED
    BY <2>1, <2>2 DEF Shown, ViewState
<1>5. QED
  BY <1>1, <1>4, <1>2, <1>3 DEF PwaFrame

\* The handler of the router as a function.
CachedStep == [x \in CacheState \X DaemonFrame |-> Cached(x[1], x[2])]

\* It is a step of the kind that the lemmas about traces are for.
LEMMA CachedSteps ==
    /\ StepOf(CachedStep, CacheState, DaemonFrame)
    /\ \A k \in CacheState, f \in DaemonFrame : CachedStep[<<k, f>>] = Cached(k, f)
BY CachedType DEF CachedStep, StepOf

\* The fold of the code's function is what the loop leaves.
LEMMA CachedFolds ==
    ASSUME NEW k \in CacheState, NEW c \in Seq(DaemonFrame)
    PROVE  FoldLeft(Cached, k, c) = Folded(CachedStep, k, c)
<1> DEFINE Fold(f) == f = [s \in SUBSET DOMAIN c |->
                              IF s = {} THEN k
                              ELSE Cached(f[s \ {Max(s)}], c[Max(s)])]
           fold == CHOOSE f : Fold(f)
<1>1. StepOf(CachedStep, CacheState, DaemonFrame)
  BY CachedSteps
<1>2. PICK iter \in [SUBSET DOMAIN c -> CacheState] :
        CalculatesTyped(CachedStep, CacheState, DaemonFrame, k, c, iter)
  BY <1>1, LoopExists
<1>3. Fold(iter)
  BY <1>2, CachedSteps DEF CalculatesTyped
<1>4. Fold(fold)
  <2> HIDE DEF Fold
  <2>1. QED
    BY <1>3
<1>5. FoldLeft(Cached, k, c) = fold[DOMAIN c]
  BY Zenon DEF FoldLeft, MapThenFoldSet
<1> HIDE DEF fold
<1>6. Calculates(CachedStep, CacheState, DaemonFrame, k, c, fold)
  BY <1>4, CachedSteps DEF Calculates
<1> HIDE DEF Fold
<1>7. fold[DOMAIN c] = Folded(CachedStep, k, c)
  BY <1>1, <1>6, LoopIsFolded
<1>8. QED
  BY <1>5, <1>7

\* The reducer of the PWA as a function.
ShownStep == [x \in ViewState \X PwaFrame |-> Shown(x[1], x[2])]

\* It is a step of the same kind.
LEMMA ShownSteps ==
    /\ StepOf(ShownStep, ViewState, PwaFrame)
    /\ \A k \in ViewState, f \in PwaFrame : ShownStep[<<k, f>>] = Shown(k, f)
BY ShownType DEF ShownStep, StepOf

\* The fold of the code's function is what the loop leaves.
LEMMA ShownFolds ==
    ASSUME NEW k \in ViewState, NEW c \in Seq(PwaFrame)
    PROVE  FoldLeft(Shown, k, c) = Folded(ShownStep, k, c)
<1> DEFINE Fold(f) == f = [s \in SUBSET DOMAIN c |->
                              IF s = {} THEN k
                              ELSE Shown(f[s \ {Max(s)}], c[Max(s)])]
           fold == CHOOSE f : Fold(f)
<1>1. StepOf(ShownStep, ViewState, PwaFrame)
  BY ShownSteps
<1>2. PICK iter \in [SUBSET DOMAIN c -> ViewState] :
        CalculatesTyped(ShownStep, ViewState, PwaFrame, k, c, iter)
  BY <1>1, LoopExists
<1>3. Fold(iter)
  BY <1>2, ShownSteps DEF CalculatesTyped
<1>4. Fold(fold)
  <2> HIDE DEF Fold
  <2>1. QED
    BY <1>3
<1>5. FoldLeft(Shown, k, c) = fold[DOMAIN c]
  BY Zenon DEF FoldLeft, MapThenFoldSet
<1> HIDE DEF fold
<1>6. Calculates(ShownStep, ViewState, PwaFrame, k, c, fold)
  BY <1>4, ShownSteps DEF Calculates
<1> HIDE DEF Fold
<1>7. fold[DOMAIN c] = Folded(ShownStep, k, c)
  BY <1>1, <1>6, LoopIsFolded
<1>8. QED
  BY <1>5, <1>7

-----------------------------------------------------------------------------
(* What frames do to the state of the router and to a view *)

\* What the router has after the frames of c, and what a PWA shows.
Completed(k, c) == FoldLeft(Cached, k, c)
Seen(v, c) == FoldLeft(Shown, v, c)

\* Both are what a trace ends with, so they inherit what Folded has.
LEMMA CompletedIs ==
    ASSUME NEW k \in CacheState, NEW c \in Seq(DaemonFrame)
    PROVE  Completed(k, c) = Folded(CachedStep, k, c) /\ Completed(k, c) \in CacheState
BY CachedFolds, CachedSteps, FoldedType DEF Completed

\* No frames change nothing.
LEMMA CompletedNothing ==
    ASSUME NEW k \in CacheState PROVE Completed(k, <<>>) = k
<1> DEFINE none == <<>>
<1>1. none \in Seq(DaemonFrame)
  OBVIOUS
<1>2. Folded(CachedStep, k, none) = k
  BY CachedSteps, FoldedNothing
<1> HIDE DEF none
<1>3. Completed(k, none) = k
  BY <1>1, <1>2, CompletedIs
<1>4. QED
  BY <1>3 DEF none

\* One more frame is applied last.
LEMMA CompletedAppend ==
    ASSUME NEW k \in CacheState, NEW c \in Seq(DaemonFrame), NEW f \in DaemonFrame
    PROVE  Completed(k, Append(c, f)) = Cached(Completed(k, c), f)
<1>1. Append(c, f) \in Seq(DaemonFrame)
  OBVIOUS
<1>2. Folded(CachedStep, k, Append(c, f)) = CachedStep[<<Folded(CachedStep, k, c), f>>]
  BY CachedSteps, FoldedAppend
<1>3. QED
  BY <1>1, <1>2, CompletedIs, CachedSteps

\* The frames of c, then those of d.
LEMMA CompletedConcat ==
    ASSUME NEW k \in CacheState, NEW c \in Seq(DaemonFrame), NEW d \in Seq(DaemonFrame)
    PROVE  Completed(k, c \o d) = Completed(Completed(k, c), d)
<1>1. c \o d \in Seq(DaemonFrame)
  OBVIOUS
<1>2. Folded(CachedStep, k, c \o d) = Folded(CachedStep, Folded(CachedStep, k, c), d)
  BY CachedSteps, FoldedConcat
<1>3. QED
  BY <1>1, <1>2, CompletedIs

\* The first frame is applied first.
LEMMA CompletedTail ==
    ASSUME NEW k \in CacheState, NEW c \in Seq(DaemonFrame), c # <<>>
    PROVE  Completed(k, c) = Completed(Cached(k, Head(c)), Tail(c))
<1> DEFINE f == Head(c)
           rest == Tail(c)
<1>1. f \in DaemonFrame /\ rest \in Seq(DaemonFrame)
  OBVIOUS
<1>2. Folded(CachedStep, k, c) = Folded(CachedStep, CachedStep[<<k, f>>], rest)
  BY CachedSteps, FoldedTail
<1> HIDE DEF f, rest
<1>3. Completed(k, c) = Completed(Cached(k, f), rest)
  BY <1>1, <1>2, CachedSteps, CompletedIs, CachedType
<1>4. QED
  BY <1>3 DEF f, rest

\* What a PWA shows after the frames of c is a view.
LEMMA SeenIs ==
    ASSUME NEW v \in ViewState, NEW c \in Seq(PwaFrame)
    PROVE  Seen(v, c) = Folded(ShownStep, v, c) /\ Seen(v, c) \in ViewState
BY ShownFolds, ShownSteps, FoldedType DEF Seen

\* One more frame is applied last.
LEMMA SeenAppend ==
    ASSUME NEW v \in ViewState, NEW c \in Seq(PwaFrame), NEW f \in PwaFrame
    PROVE  Seen(v, Append(c, f)) = Shown(Seen(v, c), f)
<1>1. Append(c, f) \in Seq(PwaFrame)
  OBVIOUS
<1>2. Folded(ShownStep, v, Append(c, f)) = ShownStep[<<Folded(ShownStep, v, c), f>>]
  BY ShownSteps, FoldedAppend
<1>3. QED
  BY <1>1, <1>2, SeenIs, ShownSteps

\* The first frame is applied first.
LEMMA SeenTail ==
    ASSUME NEW v \in ViewState, NEW c \in Seq(PwaFrame), c # <<>>
    PROVE  Seen(v, c) = Seen(Shown(v, Head(c)), Tail(c))
<1> DEFINE f == Head(c)
           rest == Tail(c)
<1>1. f \in PwaFrame /\ rest \in Seq(PwaFrame)
  OBVIOUS
<1>2. Folded(ShownStep, v, c) = Folded(ShownStep, ShownStep[<<v, f>>], rest)
  BY ShownSteps, FoldedTail
<1> HIDE DEF f, rest
<1>3. Seen(v, c) = Seen(Shown(v, f), rest)
  BY <1>1, <1>2, ShownSteps, SeenIs, ShownType
<1>4. QED
  BY <1>3 DEF f, rest

\* A PWA that shows the daemon online lists it.
Sound == {v \in ViewState : v.online => v.listed}

\* No frame turns an unlisted daemon online.
LEMMA ShownSound ==
    ASSUME NEW v \in Sound, NEW f \in PwaFrame PROVE Shown(v, f) \in Sound
<1>1. Shown(v, f) \in ViewState
  BY ShownType DEF Sound
<1>2. Shown(v, f).online => Shown(v, f).listed
  <2>1. v.listed \in BOOLEAN /\ v.online \in BOOLEAN /\ (v.online => v.listed)
    BY DEF Sound, ViewState
  <2>2. QED
    BY <2>1 DEF Shown, Sound, ViewState
<1>3. QED
  BY <1>1, <1>2 DEF Sound

\* Nor do many.
LEMMA SeenSound ==
    ASSUME NEW v \in Sound, NEW c \in Seq(PwaFrame) PROVE Seen(v, c) \in Sound
<1>1. Sound \in SUBSET ViewState /\ v \in ViewState
  BY DEF Sound
<1>2. \A u \in Sound, f \in PwaFrame : ShownStep[<<u, f>>] \in Sound
  BY <1>1, ShownSound, ShownSteps
<1>3. Folded(ShownStep, v, c) \in Sound
  BY <1>1, <1>2, ShownSteps, FoldedKeeps
<1>4. QED
  BY <1>1, <1>3, SeenIs

-----------------------------------------------------------------------------
(* The frames about one session do not touch another *)

\* The states that agree on whether x is listed and with which status.
SameEntry(x) ==
    {p \in CacheState \X CacheState :
        /\ p[1].known /\ p[2].known
        /\ x \in DOMAIN p[1].sessions <=> x \in DOMAIN p[2].sessions
        /\ x \in DOMAIN p[1].sessions => p[1].sessions[x] = p[2].sessions[x]}

\* Those that agree on whether it is listed.
SamePresence(x) ==
    {p \in CacheState \X CacheState :
        /\ p[1].known /\ p[2].known
        /\ x \in DOMAIN p[1].sessions <=> x \in DOMAIN p[2].sessions}

\* Those that agree on whether its inventory is there.
SameInventory(x) ==
    {p \in CacheState \X CacheState :
        /\ p[1].known /\ p[2].known
        /\ x \in p[1].inventory <=> x \in p[2].inventory}

\* What a frame does to a state the router has, component by component.
LEMMA CachedParts ==
    ASSUME NEW k \in CacheState, k.known, NEW f \in DaemonFrame
    PROVE  LET next == Cached(k, f) IN
           /\ next \in CacheState /\ next.known
           /\ next.sessions = IF f.type = "hello" THEN f.sessions
                              ELSE IF f.type = "slash_inventory" THEN k.sessions
                              ELSE Listed(k.sessions, f)
           /\ next.inventory = IF f.type = "hello" THEN {}
                               ELSE IF f.type = "slash_inventory"
                               THEN k.inventory \cup {f.session}
                               ELSE IF f.type = "session_close"
                               THEN k.inventory \ {f.session} ELSE k.inventory
<1>1. Cached(k, f) \in CacheState
  BY CachedType
<1>2. CASE f.type = "hello"
  BY <1>1, <1>2 DEF Cached
<1>3. CASE f.type = "slash_inventory"
  BY <1>1, <1>3 DEF Cached, CacheState
<1>4. CASE f.type \notin {"hello", "slash_inventory"}
  <2>1. Cached(k, f) = [k EXCEPT !.sessions = Listed(k.sessions, f),
                                 !.inventory = IF f.type = "session_close"
                                               THEN k.inventory \ {f.session}
                                               ELSE k.inventory]
    BY <1>4 DEF Cached
  <2>2. k = [known |-> k.known, sessions |-> k.sessions, inventory |-> k.inventory]
    BY DEF CacheState
  <2>3. QED
    BY <1>1, <1>4, <2>1, <2>2
<1>5. QED
  BY <1>2, <1>3, <1>4

\* A frame keeps two lists that agree on a session in agreement.
LEMMA ListedEntry ==
    ASSUME NEW a \in Lists, NEW b \in Lists, NEW f \in SessionFrame, NEW x,
           x \in DOMAIN a <=> x \in DOMAIN b
    PROVE  /\ x \in DOMAIN Listed(a, f) <=> x \in DOMAIN Listed(b, f)
           /\ (x \in DOMAIN a => a[x] = b[x]) =>
                (x \in DOMAIN Listed(a, f) => Listed(a, f)[x] = Listed(b, f)[x])
<1>1. \A m \in {a, b} : m \in [DOMAIN m -> Statuses]
  BY ListsOf
<1>2. CASE f.type = "session_open"
  BY <1>1, <1>2 DEF Listed, With
<1>3. CASE f.type = "session_close"
  BY <1>1, <1>3 DEF Listed, Without
<1>4. CASE f.type = "session_state"
  BY <1>1, <1>4 DEF Listed
<1>5. QED
  BY <1>2, <1>3, <1>4, FrameKinds

\* It keeps two states of the router in agreement, in each of the three ways.
LEMMA CachedSame ==
    ASSUME NEW x, NEW a \in CacheState, NEW b \in CacheState, NEW f \in DaemonFrame
    PROVE  /\ <<a, b>> \in SameEntry(x) => <<Cached(a, f), Cached(b, f)>> \in SameEntry(x)
           /\ <<a, b>> \in SamePresence(x) =>
                  <<Cached(a, f), Cached(b, f)>> \in SamePresence(x)
           /\ <<a, b>> \in SameInventory(x) =>
                  <<Cached(a, f), Cached(b, f)>> \in SameInventory(x)
<1> SUFFICES ASSUME a.known, b.known
             PROVE  /\ <<a, b>> \in SameEntry(x) =>
                          <<Cached(a, f), Cached(b, f)>> \in SameEntry(x)
                    /\ <<a, b>> \in SamePresence(x) =>
                          <<Cached(a, f), Cached(b, f)>> \in SamePresence(x)
                    /\ <<a, b>> \in SameInventory(x) =>
                          <<Cached(a, f), Cached(b, f)>> \in SameInventory(x)
  BY DEF SameEntry, SamePresence, SameInventory
<1> DEFINE c == Cached(a, f)
           d == Cached(b, f)
<1>1. /\ c \in CacheState /\ c.known /\ d \in CacheState /\ d.known
      /\ f.type = "hello" => c.sessions = d.sessions /\ c.inventory = d.inventory
      /\ f.type = "slash_inventory" => c.sessions = a.sessions /\ d.sessions = b.sessions
      /\ f.type \notin {"hello", "slash_inventory"} =>
            c.sessions = Listed(a.sessions, f) /\ d.sessions = Listed(b.sessions, f)
      /\ f.type # "hello" /\ (x \in a.inventory <=> x \in b.inventory) =>
            (x \in c.inventory <=> x \in d.inventory)
  BY CachedParts
<1>2. f.type \notin {"hello", "slash_inventory"} => f \in SessionFrame
  BY DEF DaemonFrame
<1>3. a.sessions \in Lists /\ b.sessions \in Lists
  BY DEF CacheState
<1> HIDE DEF c, d
<1>4. (x \in DOMAIN a.sessions <=> x \in DOMAIN b.sessions) =>
        /\ x \in DOMAIN c.sessions <=> x \in DOMAIN d.sessions
        /\ (x \in DOMAIN a.sessions => a.sessions[x] = b.sessions[x]) =>
              (x \in DOMAIN c.sessions => c.sessions[x] = d.sessions[x])
  <2>1. CASE f.type \in {"hello", "slash_inventory"}
    BY <1>1, <2>1
  <2>2. CASE f.type \notin {"hello", "slash_inventory"}
    BY <1>1, <1>2, <1>3, <2>2, ListedEntry
  <2>3. QED
    BY <2>1, <2>2
<1>5. (x \in a.inventory <=> x \in b.inventory) =>
        (x \in c.inventory <=> x \in d.inventory)
  BY <1>1
<1>6. <<c, d>> \in CacheState \X CacheState
  BY <1>1
<1>7. <<a, b>> \in SameEntry(x) => <<c, d>> \in SameEntry(x)
  BY <1>1, <1>4, <1>6 DEF SameEntry
<1>8. <<a, b>> \in SamePresence(x) => <<c, d>> \in SamePresence(x)
  BY <1>1, <1>4, <1>6 DEF SamePresence
<1>9. <<a, b>> \in SameInventory(x) => <<c, d>> \in SameInventory(x)
  BY <1>1, <1>5, <1>6 DEF SameInventory
<1>10. QED
  BY <1>7, <1>8, <1>9 DEF c, d

\* Frames that lead the state a to itself leave of another state what it has
\* in common with a.
LEMMA CompletedSame ==
    ASSUME NEW a \in CacheState, NEW b \in CacheState, NEW q \in Seq(DaemonFrame),
           Completed(a, q) = a, NEW x
    PROVE  /\ <<a, b>> \in SameEntry(x) => <<a, Completed(b, q)>> \in SameEntry(x)
           /\ <<a, b>> \in SamePresence(x) => <<a, Completed(b, q)>> \in SamePresence(x)
           /\ <<a, b>> \in SameInventory(x) => <<a, Completed(b, q)>> \in SameInventory(x)
<1> DEFINE Kept(R) == \A c \in CacheState, d \in CacheState, f \in DaemonFrame :
               <<c, d>> \in R => <<CachedStep[<<c, f>>], CachedStep[<<d, f>>]>> \in R
<1>1. ASSUME NEW R \in SUBSET (CacheState \X CacheState), Kept(R), <<a, b>> \in R
      PROVE  <<a, Completed(b, q)>> \in R
  <2>1. <<Folded(CachedStep, a, q), Folded(CachedStep, b, q)>> \in R
    BY <1>1, CachedSteps, FoldedRelates
  <2>2. QED
    BY <2>1, CompletedIs
<1>2. Kept(SameEntry(x)) /\ Kept(SamePresence(x)) /\ Kept(SameInventory(x))
  BY CachedSteps, CachedSame
<1>3. /\ SameEntry(x) \in SUBSET (CacheState \X CacheState)
      /\ SamePresence(x) \in SUBSET (CacheState \X CacheState)
      /\ SameInventory(x) \in SUBSET (CacheState \X CacheState)
  BY DEF SameEntry, SamePresence, SameInventory
<1> HIDE DEF Kept
<1>4. QED
  BY <1>1, <1>2, <1>3

-----------------------------------------------------------------------------
(* The greeting of a connection *)

\* A finite set is listed whole.
LEMMA SetToSeqLists ==
    ASSUME NEW S, IsFiniteSet(S)
    PROVE  /\ SetToSeq(S) \in Seq(S)
           /\ \A x \in S : \E i \in 1..Len(SetToSeq(S)) : SetToSeq(S)[i] = x
<1> DEFINE n == Cardinality(S)
           q == SetToSeq(S)
<1>1. n \in Nat /\ ExistsBijection(1..n, S)
  BY FS_CardinalityType
<1>2. PICK f : f \in Bijection(1..n, S)
  BY <1>1 DEF ExistsBijection
<1>3. f \in [1..n -> S] /\ IsInjective(f)
  <2>1. f \in [1..n -> S] /\ \A a, b \in 1..n : f[a] = f[b] => a = b
    <3> HIDE DEF n
    <3>1. QED
      BY <1>2, Fun_BijectionProperties
  <2>2. DOMAIN f = 1..n
    BY <2>1
  <2>3. QED
    BY <2>1, <2>2 DEF IsInjective
<1>4. q \in [1..n -> S] /\ IsInjective(q)
  BY <1>3 DEF SetToSeq
<1> HIDE DEF q
<1>5. q \in Injection(1..n, S)
  BY <1>4 DEF Injection
<1>6. IsFiniteSet(1..n) /\ Cardinality(1..n) = n
  BY <1>1, FS_Interval
<1>7. q \in Surjection(1..n, S)
  BY <1>5, <1>6, FS_Injection
<1>8. \A x \in S : \E i \in 1..n : q[i] = x
  BY <1>7 DEF Surjection
<1> HIDE DEF n
<1>9. q \in Seq(S) /\ Len(q) = n
  BY <1>1, <1>4
<1>10. QED
  BY <1>8, <1>9 DEF q

\* The sessions whose inventory the first i frames of q bring.
Brought(q, i) == {q[j].session : j \in 1..i}

\* Frames that bring inventories add them one by one.
LEMMA InventoriesAdd ==
    ASSUME NEW m \in Lists,
           NEW q \in Seq([type : {"slash_inventory"}, session : Sessions])
    PROVE  Completed([known |-> TRUE, sessions |-> m, inventory |-> {}], q)
               = [known |-> TRUE, sessions |-> m, inventory |-> Brought(q, Len(q))]
<1> DEFINE n == Len(q)
           Then(i) == [known |-> TRUE, sessions |-> m, inventory |-> Brought(q, i)]
           k == [known |-> TRUE, sessions |-> m, inventory |-> {}]
           I == [type : {"slash_inventory"}, session : Sessions]
<1>1. I \subseteq DaemonFrame
  BY DEF DaemonFrame
<1>2. q \in Seq(I) /\ \A f \in I : f.type = "slash_inventory"
  OBVIOUS
<1>3. n \in Nat /\ \A i \in 1..n : q[i] \in DaemonFrame /\ q[i].type = "slash_inventory"
  <2> HIDE DEF I
  <2>1. n \in Nat /\ \A i \in 1..n : q[i] \in I
    BY <1>2
  <2>2. QED
    BY <1>1, <1>2, <2>1
<1>4. q \in Seq(DaemonFrame)
  <2> HIDE DEF I
  <2>1. QED
    BY <1>1, <1>2, SeqMonotonic
<1>5. k \in CacheState
  BY DEF CacheState
<1>6. PICK h : Trace(CachedStep, k, q, h)
  <2> HIDE DEF k
  <2>1. QED
    BY <1>4, <1>5, CachedSteps, TraceExists
<1> DEFINE S == {i \in Nat : i <= n => h[i] = Then(i) /\ h[i] \in CacheState}
<1>7. 0 \in S
  <2>1. Brought(q, 0) = {}
    BY DEF Brought
  <2>2. QED
    BY <1>5, <1>6, <2>1 DEF Trace
<1>8. ASSUME NEW j \in S \cap Nat PROVE j + 1 \in S
  <2> SUFFICES ASSUME j + 1 <= n
               PROVE  h[j + 1] = Then(j + 1) /\ h[j + 1] \in CacheState
    OBVIOUS
  <2> DEFINE i == j + 1
  <2>1. i \in 1..n /\ i - 1 = j /\ j <= n
    BY <1>3
  <2>2. h[j] = Then(j) /\ h[j] \in CacheState /\ h[j].known
    BY <1>8, <2>1
  <2>3. Brought(q, i) = Brought(q, j) \cup {q[i].session}
    <3>1. 1..i = (1..j) \cup {i}
      OBVIOUS
    <3>2. QED
      BY <3>1 DEF Brought
  <2> HIDE DEF i, S, Then, n
  <2>4. h[i] = Cached(h[j], q[i])
    BY <1>3, <1>6, <2>1, <2>2, CachedSteps DEF Trace, n
  <2>5. h[i] \in CacheState
    BY <1>3, <2>1, <2>2, <2>4, CachedType
  <2>6. h[i] = [h[j] EXCEPT !.inventory = @ \cup {q[i].session}]
    BY <1>3, <2>1, <2>2, <2>4 DEF Cached
  <2>7. h[i] = [Then(j) EXCEPT !.inventory = @ \cup {q[i].session}]
    BY <2>2, <2>6
  <2>8. h[i] = Then(i)
    BY <2>3, <2>7 DEF Then
  <2>9. QED
    BY <2>5, <2>8 DEF i
<1>9. h[n] = Then(n)
  <2> HIDE DEF S, n
  <2>1. n \in S
    BY <1>3, <1>7, <1>8, SetInduction
  <2>2. QED
    BY <1>3, <2>1 DEF S
<1>10. Completed(k, q) = h[n]
  <2> HIDE DEF k
  <2>1. QED
    BY <1>3, <1>4, <1>5, <1>6, CompletedIs, FoldedIsLast
<1>11. QED
  BY <1>9, <1>10

\* The types and the finiteness that the greeting needs.
DaemonState ==
    /\ live \in Lists
    /\ inventory \in SUBSET Sessions
    /\ IsFiniteSet(inventory)

\* What the daemon knows of itself is a state of the router.
LEMMA TruthState == DaemonState => Truth \in CacheState
BY DEF DaemonState, Truth, CacheState

\* Whatever the router has: after the greeting it has the truth.
LEMMA GreetingTells ==
    ASSUME DaemonState, NEW k \in CacheState
    PROVE  Greeting \in Seq(DaemonFrame) /\ Completed(k, Greeting) = Truth
<1> DEFINE S == {Inventory(s) : s \in inventory}
           I == [type : {"slash_inventory"}, session : Sessions]
           q == SetToSeq(S)
           hello == <<Hello>>
           start == [known |-> TRUE, sessions |-> live, inventory |-> {}]
<1>1. S \subseteq I
  BY DEF DaemonState, Inventory
<1>2. IsFiniteSet(S)
  <2> DEFINE f == [s \in inventory |-> Inventory(s)]
  <2>1. f \in Surjection(inventory, S)
    <3>1. f \in [inventory -> S] /\ \A x \in S : \E s \in inventory : f[s] = x
      OBVIOUS
    <3> HIDE DEF f, S
    <3>2. QED
      BY <3>1, Fun_IsSurj
  <2> HIDE DEF f, S
  <2>2. QED
    BY <2>1, FS_Surjection DEF DaemonState
<1> HIDE DEF S
<1>3. q \in Seq(S) /\ \A x \in S : \E i \in 1..Len(q) : q[i] = x
  BY <1>2, SetToSeqLists
<1> HIDE DEF q
<1>4. q \in Seq(I) /\ q \in Seq(DaemonFrame)
  <2>1. I \subseteq DaemonFrame
    BY DEF DaemonFrame
  <2> HIDE DEF I
  <2>2. QED
    BY <1>1, <1>3, <2>1, SeqMonotonic
<1>5. Hello \in DaemonFrame /\ hello \in Seq(DaemonFrame)
  BY DEF Hello, DaemonFrame, DaemonState
<1>6. Cached(k, Hello) = start /\ start \in CacheState
  BY DEF Cached, Hello, CacheState, DaemonState
<1>7. Completed(k, hello) = start
  <2>1. Hello = Head(hello) /\ hello # <<>> /\ Tail(hello) = <<>>
    OBVIOUS
  <2> HIDE DEF hello, start
  <2>2. Completed(k, hello) = Completed(start, <<>>)
    BY <1>5, <1>6, <2>1, CompletedTail
  <2>3. QED
    BY <1>6, <2>2, CompletedNothing
<1>8. Completed(start, q) = Truth
  <2>1. Completed(start, q)
          = [known |-> TRUE, sessions |-> live, inventory |-> Brought(q, Len(q))]
    BY <1>4, InventoriesAdd DEF DaemonState
  <2>2. Brought(q, Len(q)) = inventory
    <3>1. ASSUME NEW s \in inventory PROVE s \in Brought(q, Len(q))
      <4>1. Inventory(s) \in S
        BY DEF S
      <4>2. PICK i \in 1..Len(q) : q[i] = Inventory(s)
        BY <1>3, <4>1
      <4>3. QED
        BY <4>2 DEF Brought, Inventory
    <3>2. ASSUME NEW i \in 1..Len(q) PROVE q[i].session \in inventory
      <4>1. q[i] \in S
        BY <1>3
      <4>2. QED
        BY <4>1 DEF S, Inventory
    <3>3. QED
      BY <3>1, <3>2 DEF Brought
  <2>3. QED
    BY <2>1, <2>2 DEF Truth
<1>9. Greeting = hello \o q
  BY DEF Greeting, q, S
<1>10. hello \o q \in Seq(DaemonFrame)
  <2> HIDE DEF hello
  <2>1. QED
    BY <1>4, <1>5
<1>11. Completed(k, hello \o q) = Completed(Completed(k, hello), q)
  <2> HIDE DEF hello
  <2>1. QED
    BY <1>4, <1>5, CompletedConcat
<1>12. QED
  BY <1>7, <1>8, <1>9, <1>10, <1>11

\* What waits in the queue changes nothing of the truth.
QueueIsStale == Completed(Truth, pending) = Truth

\* QueueCompletes says of the queue that it is stale.
LEMMA QueueStale ==
    ASSUME DaemonState, pending \in Seq(DaemonFrame)
    PROVE  QueueCompletes <=> QueueIsStale
<1>1. NoState \in CacheState
  BY ListTypes DEF NoState, CacheState
<1>2. Completed(NoState, Greeting \o pending) = Completed(Truth, pending)
  BY <1>1, GreetingTells, CompletedConcat
<1>3. QED
  BY <1>2 DEF QueueCompletes, QueueIsStale, Completed

\* Two states of the router that agree on every session are the same.
LEMMA SameEverywhere ==
    ASSUME NEW a \in CacheState, NEW b \in CacheState, a.known, b.known,
           \A x : <<a, b>> \in SameEntry(x) /\ <<a, b>> \in SameInventory(x)
    PROVE  a = b
<1>1. \A x : /\ x \in DOMAIN a.sessions <=> x \in DOMAIN b.sessions
             /\ x \in DOMAIN a.sessions => a.sessions[x] = b.sessions[x]
             /\ x \in a.inventory <=> x \in b.inventory
  BY DEF SameEntry, SameInventory
<1>2. a.sessions = b.sessions
  <2>1. /\ a.sessions \in [DOMAIN a.sessions -> Statuses]
        /\ b.sessions \in [DOMAIN b.sessions -> Statuses]
    BY ListsOf DEF CacheState
  <2>2. DOMAIN a.sessions = DOMAIN b.sessions
    BY <1>1
  <2>3. QED
    BY <1>1, <2>1, <2>2
<1>3. a.inventory = b.inventory
  BY <1>1
<1>4. QED
  BY <1>2, <1>3 DEF CacheState

\* A frame about a session leaves what the router has of the others, and a
\* status or an inventory does not change which sessions there are.
LEMMA CachedElsewhere ==
    ASSUME NEW k \in CacheState, k.known, NEW f \in DaemonFrame, f.type # "hello", NEW x
    PROVE  /\ x # f.session \/ f.type = "slash_inventory" =>
                <<k, Cached(k, f)>> \in SameEntry(x)
           /\ f.type = "session_state" => <<k, Cached(k, f)>> \in SamePresence(x)
           /\ x # f.session \/ f.type \in {"session_open", "session_state"} =>
                <<k, Cached(k, f)>> \in SameInventory(x)
<1> DEFINE d == Cached(k, f)
<1>1. /\ d \in CacheState /\ d.known
      /\ f.type = "slash_inventory" => d.sessions = k.sessions
      /\ f.type # "slash_inventory" => d.sessions = Listed(k.sessions, f)
      /\ x # f.session \/ f.type \in {"session_open", "session_state"} =>
            (x \in k.inventory <=> x \in d.inventory)
  BY CachedParts
<1>2. f.type # "slash_inventory" =>
        f \in SessionFrame /\ f.type \in {"session_open", "session_state", "session_close"}
  BY FrameKinds DEF DaemonFrame
<1>3. k.sessions \in [DOMAIN k.sessions -> Statuses]
  BY ListsOf DEF CacheState
<1>4. <<k, d>> \in CacheState \X CacheState
  BY <1>1
<1> HIDE DEF d
<1>5. x # f.session \/ f.type = "slash_inventory" => <<k, d>> \in SameEntry(x)
  <2>1. CASE f.type = "slash_inventory"
    BY <1>1, <1>4, <2>1 DEF SameEntry
  <2>2. CASE f.type # "slash_inventory"
    <3> SUFFICES ASSUME x # f.session PROVE <<k, d>> \in SameEntry(x)
      BY <2>2
    <3>1. /\ x \in DOMAIN k.sessions <=> x \in DOMAIN d.sessions
          /\ x \in DOMAIN k.sessions => k.sessions[x] = d.sessions[x]
      BY <1>1, <1>2, <1>3, <2>2 DEF Listed, With, Without
    <3>2. QED
      BY <1>1, <1>4, <3>1 DEF SameEntry
  <2>3. QED
    BY <2>1, <2>2
<1>6. f.type = "session_state" => <<k, d>> \in SamePresence(x)
  <2> SUFFICES ASSUME f.type = "session_state" PROVE <<k, d>> \in SamePresence(x)
    OBVIOUS
  <2>1. x \in DOMAIN k.sessions <=> x \in DOMAIN d.sessions
    BY <1>1, <1>3 DEF Listed
  <2>2. QED
    BY <1>1, <1>4, <2>1 DEF SamePresence
<1>7. x # f.session \/ f.type \in {"session_open", "session_state"} =>
        <<k, d>> \in SameInventory(x)
  BY <1>1, <1>4 DEF SameInventory
<1>8. QED
  BY <1>5, <1>6, <1>7 DEF d

\* What a frame says of its session does not depend on what was there before,
\* but a status counts only for a session that is listed.
LEMMA CachedHere ==
    ASSUME NEW a \in CacheState, NEW b \in CacheState, a.known, b.known,
           NEW f \in DaemonFrame, f.type # "hello"
    PROVE  /\ (\/ f.type \in {"session_open", "session_close"}
               \/ f.type = "session_state" /\ <<a, b>> \in SamePresence(f.session))
              => <<Cached(a, f), Cached(b, f)>> \in SameEntry(f.session)
           /\ f.type \in {"slash_inventory", "session_close"} =>
                <<Cached(a, f), Cached(b, f)>> \in SameInventory(f.session)
<1> DEFINE c == Cached(a, f)
           d == Cached(b, f)
           s == f.session
<1>1. /\ c \in CacheState /\ c.known /\ d \in CacheState /\ d.known
      /\ f.type # "slash_inventory" =>
            c.sessions = Listed(a.sessions, f) /\ d.sessions = Listed(b.sessions, f)
      /\ f.type \in {"slash_inventory", "session_close"} =>
            (s \in c.inventory <=> s \in d.inventory)
  BY CachedParts
<1>2. <<c, d>> \in CacheState \X CacheState
  BY <1>1
<1>3. /\ a.sessions \in [DOMAIN a.sessions -> Statuses]
      /\ b.sessions \in [DOMAIN b.sessions -> Statuses]
  BY ListsOf DEF CacheState
<1> HIDE DEF c, d
<1>4. ASSUME \/ f.type \in {"session_open", "session_close"}
             \/ f.type = "session_state" /\ <<a, b>> \in SamePresence(s)
      PROVE  <<c, d>> \in SameEntry(s)
  <2>1. /\ s \in DOMAIN c.sessions <=> s \in DOMAIN d.sessions
        /\ s \in DOMAIN c.sessions => c.sessions[s] = d.sessions[s]
    <3>1. CASE f.type = "session_open"
      BY <1>1, <1>3, <3>1 DEF Listed, With
    <3>2. CASE f.type = "session_close"
      BY <1>1, <1>3, <3>2 DEF Listed, Without
    <3>3. CASE f.type = "session_state"
      <4>1. s \in DOMAIN a.sessions <=> s \in DOMAIN b.sessions
        BY <1>4, <3>3 DEF SamePresence
      <4>2. QED
        BY <1>1, <1>3, <3>3, <4>1 DEF Listed
    <3>4. QED
      BY <1>4, <3>1, <3>2, <3>3
  <2>2. QED
    BY <1>1, <1>2, <2>1 DEF SameEntry
<1>5. f.type \in {"slash_inventory", "session_close"} => <<c, d>> \in SameInventory(s)
  BY <1>1, <1>2 DEF SameInventory
<1>6. QED
  BY <1>4, <1>5 DEF c, d

\* Frames that change nothing of a state, and then one more: they change
\* nothing of the state that the new frame leads to.
LEMMA StaleAppend ==
    ASSUME NEW a \in CacheState, a.known, NEW q \in Seq(DaemonFrame),
           Completed(a, q) = a, NEW f \in DaemonFrame, f.type # "hello"
    PROVE  Completed(Cached(a, f), Append(q, f)) = Cached(a, f)
<1> DEFINE b == Cached(a, f)
           u == Completed(b, q)
<1>1. b \in CacheState /\ b.known
  BY CachedParts
<1>2. u \in CacheState
  BY <1>1, CompletedIs
<1>3. Completed(b, Append(q, f)) = Cached(u, f)
  BY <1>1, CompletedAppend
<1> HIDE DEF b, u
<1>4. u.known
  <2>1. PICK x : x # f.session
    <3>1. {} # {{}} /\ (f.session # {} \/ f.session # {{}})
      OBVIOUS
    <3>2. QED
      BY <3>1
  <2>2. <<a, b>> \in SameInventory(x)
    BY <2>1, CachedElsewhere DEF b
  <2>3. <<a, u>> \in SameInventory(x)
    BY <1>1, <2>2, CompletedSame DEF u
  <2>4. QED
    BY <2>3 DEF SameInventory
<1>5. ASSUME NEW x PROVE <<b, Cached(u, f)>> \in SameEntry(x)
  <2>1. CASE x # f.session \/ f.type = "slash_inventory"
    <3>1. <<a, b>> \in SameEntry(x)
      BY <2>1, CachedElsewhere DEF b
    <3>2. <<a, u>> \in SameEntry(x)
      BY <1>1, <3>1, CompletedSame DEF u
    <3>3. QED
      BY <1>2, <3>2, CachedSame DEF b
  <2>2. CASE x = f.session /\ f.type \in {"session_open", "session_close"}
    BY <1>2, <1>4, <2>2, CachedHere DEF b
  <2>3. CASE x = f.session /\ f.type = "session_state"
    <3>1. <<a, b>> \in SamePresence(x)
      BY <2>3, CachedElsewhere DEF b
    <3>2. <<a, u>> \in SamePresence(x)
      BY <1>1, <3>1, CompletedSame DEF u
    <3>3. QED
      BY <1>2, <1>4, <2>3, <3>2, CachedHere DEF b
  <2>4. f.type \in {"slash_inventory", "session_open", "session_close", "session_state"}
    BY FrameKinds DEF DaemonFrame
  <2>5. QED
    BY <2>1, <2>2, <2>3, <2>4
<1>6. ASSUME NEW x PROVE <<b, Cached(u, f)>> \in SameInventory(x)
  <2>1. CASE x # f.session \/ f.type \in {"session_open", "session_state"}
    <3>1. <<a, b>> \in SameInventory(x)
      BY <2>1, CachedElsewhere DEF b
    <3>2. <<a, u>> \in SameInventory(x)
      BY <1>1, <3>1, CompletedSame DEF u
    <3>3. QED
      BY <1>2, <3>2, CachedSame DEF b
  <2>2. CASE x = f.session /\ f.type \in {"slash_inventory", "session_close"}
    BY <1>2, <1>4, <2>2, CachedHere DEF b
  <2>3. f.type \in {"slash_inventory", "session_open", "session_close", "session_state"}
    BY FrameKinds DEF DaemonFrame
  <2>4. QED
    BY <2>1, <2>2, <2>3
<1>7. Cached(u, f) \in CacheState /\ Cached(u, f).known
  BY <1>2, <1>4, CachedParts
<1>8. b = Cached(u, f)
  BY <1>1, <1>5, <1>6, <1>7, SameEverywhere
<1>9. QED
  BY <1>3, <1>8 DEF b

\* How many of the faults that make the daemon dial again have happened.
FaultCount == spent["cut"] + spent["close"] + spent["restart"] + spent["hub"]

\* Every connection but the first follows a fault of its own.
DialBound ==
    /\ \A e \in Events : spent[e] <= Limit[e]
    /\ dialed <= 1 + FaultCount
    /\ conn.status = "waiting" \/ ~conn.path => dialed <= FaultCount

\* The types, and what the types of the next state need.
TypeInv == TypeOK /\ RegistryInv /\ DialBound /\ IsFiniteSet(inventory)

\* The first state has its types.
LEMMA TypeInvInit == Init => TypeInv
<1> SUFFICES ASSUME Init PROVE TypeInv
  OBVIOUS
<1>1. RegistryInv
  BY RegistryInvInit
<1>2. DialBound
  BY LimitAssumption DEF Init, DialBound, FaultCount, Events
<1>3. TypeOK
  <2>1. NoSessions \in Lists
    BY ListTypes
  <2>2. QED
    BY <2>1 DEF Init, TypeOK, NoState, Unlisted, Events
<1>4. IsFiniteSet(inventory)
  BY FS_EmptySet DEF Init
<1>5. QED
  BY <1>1, <1>2, <1>3, <1>4 DEF TypeInv

\* One more event of a kind, with the kinds that are faults named.
LEMMA SpendCounts ==
    ASSUME TypeInv, NEW e \in Events, Spend(e)
    PROVE  /\ spent' \in [Events -> Nat]
           /\ \A x \in Events : spent'[x] <= Limit[x]
           /\ e \in {"cut", "close", "restart", "hub"} => FaultCount' = FaultCount + 1
           /\ e \notin {"cut", "close", "restart", "hub"} => FaultCount' = FaultCount
<1>1. spent[e] < Limit[e] /\ spent' = [spent EXCEPT ![e] = @ + 1]
  BY DEF Spend
<1>2. /\ spent \in [Events -> Nat]
      /\ \A x \in Events : spent[x] <= Limit[x] /\ Limit[x] \in Nat
  BY LimitAssumption DEF TypeInv, TypeOK, DialBound
<1>3. /\ spent' \in [Events -> Nat]
      /\ \A x \in Events : spent'[x] <= Limit[x]
  BY <1>1, <1>2
<1>4. {"cut", "close", "restart", "hub"} \subseteq Events
  BY DEF Events
<1> HIDE DEF Events
<1>5. /\ e \in {"cut", "close", "restart", "hub"} => FaultCount' = FaultCount + 1
      /\ e \notin {"cut", "close", "restart", "hub"} => FaultCount' = FaultCount
  BY <1>1, <1>2, <1>4 DEF FaultCount
<1>6. QED
  BY <1>3, <1>5

\* The next number is the number of a connection.
LEMMA NextConnection ==
    ASSUME TypeInv, conn.status = "waiting"
    PROVE  dialed + 1 \in Connections
<1>1. /\ dialed \in Nat /\ dialed <= FaultCount
      /\ \A e \in Events : spent[e] \in Nat /\ Limit[e] \in Nat /\ spent[e] <= Limit[e]
  BY LimitAssumption DEF TypeInv, TypeOK, RegistryInv, ConnectionOrder, DialBound
<1>2. {"cut", "close", "restart", "hub"} \subseteq Events
  BY DEF Events
<1>3. QED
  BY <1>1, <1>2 DEF FaultCount, Connections

\* A connection that carries frames is one of the connections.
LEMMA CarriedConnection ==
    ASSUME TypeInv, conn.path
    PROVE  conn.id \in Connections /\ open = {conn.id} /\ conn.id # 0
BY DEF TypeInv, TypeOK, RegistryInv, ConnectionOrder, RegistryIsExact

\* A frame is sent or queued.
LEMMA HubSendTypes ==
    ASSUME TypeInv, NEW f \in DaemonFrame, HubSend(f)
    PROVE  pending' \in Seq(DaemonFrame) /\ wire' \in [Connections -> Seq(DaemonFrame)]
<1>1. pending \in Seq(DaemonFrame) /\ wire \in [Connections -> Seq(DaemonFrame)]
  BY DEF TypeInv, TypeOK
<1>2. CASE conn.status = "open" /\ conn.path
  <2>1. conn.id \in Connections
    BY <1>2, CarriedConnection
  <2>2. Append(wire[conn.id], f) \in Seq(DaemonFrame)
    BY <1>1, <2>1
  <2>3. wire' = [wire EXCEPT ![conn.id] = Append(wire[conn.id], f)] /\ pending' = pending
    BY <1>2 DEF HubSend
  <2>4. QED
    BY <1>1, <2>2, <2>3
<1>3. CASE conn.status = "open" /\ ~conn.path
  BY <1>1, <1>3 DEF HubSend
<1>4. CASE conn.status # "open"
  <2>1. Append(pending, f) \in Seq(DaemonFrame)
    BY <1>1
  <2>2. pending' = Append(pending, f) /\ wire' = wire
    BY <1>4 DEF HubSend
  <2>3. QED
    BY <1>1, <2>1, <2>2
<1>5. QED
  BY <1>2, <1>3, <1>4

\* A frame is on its way to every PWA that is connected.
LEMMA BroadcastTypes ==
    ASSUME TypeInv, NEW f \in PwaFrame, Broadcast(f)
    PROVE  toPwa' \in [Pwas -> Seq(PwaFrame)]
<1>1. toPwa \in [Pwas -> Seq(PwaFrame)]
  BY DEF TypeInv, TypeOK
<1>2. QED
  BY <1>1 DEF Broadcast

\* The router forgets and the PWAs are told.
LEMMA DisconnectTypes ==
    ASSUME TypeInv, OnDaemonDisconnect
    PROVE  cache' \in CacheState /\ toPwa' \in [Pwas -> Seq(PwaFrame)]
<1>1. cache \in CacheState /\ toPwa \in [Pwas -> Seq(PwaFrame)]
  BY DEF TypeInv, TypeOK, CacheState
<1>2. NoState \in CacheState
  BY ListTypes DEF NoState, CacheState
<1>3. Offline \in PwaFrame
  BY DEF PwaFrame
<1>4. QED
  BY <1>1, <1>2, <1>3, BroadcastTypes DEF OnDaemonDisconnect

\* The list of the daemon's sessions and what is sent of it.
LEMMA SessionTypes ==
    ASSUME TypeInv, NEW s \in Sessions,
           \/ Register(s) \/ Scanned(s) \/ ScanFails(s) \/ Unregister(s)
           \/ \E status \in Statuses : Transition(s, status)
    PROVE  TypeOK' /\ DialBound'
<1>1. TypeOK /\ DialBound
  BY DEF TypeInv
<1>2. live \in Lists
  BY <1>1 DEF TypeOK
<1>3. CASE Register(s)
  <2>1. Spend("register") /\ "register" \in Events
    BY <1>3 DEF Register, Events
  <2>2. Opened(s) \in DaemonFrame
    BY InitialAssumption DEF Opened, DaemonFrame, SessionFrame
  <2>3. HubSend(Opened(s)) /\ live' \in Lists
    BY <1>2, <1>3, ListTypes, InitialAssumption DEF Register
  <2>4. /\ pending' \in Seq(DaemonFrame) /\ wire' \in [Connections -> Seq(DaemonFrame)]
        /\ spent' \in [Events -> Nat]
    BY <2>1, <2>2, <2>3, HubSendTypes, SpendCounts
  <2>5. TypeOK'
    BY <1>1, <1>3, <2>3, <2>4 DEF TypeOK, Register, hubVars, pwaVars
  <2>6. DialBound'
    <3>1. FaultCount' = FaultCount /\ \A x \in Events : spent'[x] <= Limit[x]
      BY <2>1, SpendCounts
    <3>2. UNCHANGED <<conn, dialed>>
      BY <1>3 DEF Register
    <3>3. QED
      BY <1>1, <3>1, <3>2 DEF DialBound
  <2>7. QED
    BY <2>5, <2>6
<1>4. CASE Scanned(s)
  <2>1. Inventory(s) \in DaemonFrame
    BY DEF Inventory, DaemonFrame
  <2>2. HubSend(Inventory(s))
    BY <1>4 DEF Scanned
  <2>3. pending' \in Seq(DaemonFrame) /\ wire' \in [Connections -> Seq(DaemonFrame)]
    BY <2>1, <2>2, HubSendTypes
  <2>4. scans' \in [Sessions -> Nat]
    BY <1>1, <1>4 DEF TypeOK, Scanned
  <2>5. QED
    BY <1>1, <1>4, <2>3, <2>4 DEF TypeOK, Scanned, DialBound, FaultCount, hubVars, pwaVars
<1>5. CASE ScanFails(s)
  <2>1. scans' \in [Sessions -> Nat]
    BY <1>1, <1>5 DEF TypeOK, ScanFails
  <2>2. QED
    BY <1>1, <1>5, <2>1 DEF TypeOK, ScanFails, DialBound, FaultCount, clientVars,
                            hubVars, pwaVars
<1>6. CASE Unregister(s)
  <2>1. Closed(s) \in DaemonFrame
    BY DEF Closed, DaemonFrame, SessionFrame
  <2>2. HubSend(Closed(s)) /\ live' \in Lists
    BY <1>2, <1>6, ListTypes DEF Unregister
  <2>3. pending' \in Seq(DaemonFrame) /\ wire' \in [Connections -> Seq(DaemonFrame)]
    BY <2>1, <2>2, HubSendTypes
  <2>4. QED
    BY <1>1, <1>6, <2>2, <2>3 DEF TypeOK, Unregister, DialBound, FaultCount, hubVars,
                                  pwaVars
<1>7. ASSUME NEW status \in Statuses, Transition(s, status)
      PROVE  TypeOK' /\ DialBound'
  <2>1. Spend("change") /\ "change" \in Events
    BY <1>7 DEF Transition, Events
  <2>2. State(s, status) \in DaemonFrame
    BY DEF State, DaemonFrame, SessionFrame
  <2>3. HubSend(State(s, status)) /\ live' \in Lists
    BY <1>2, <1>7, ListTypes DEF Transition
  <2>4. /\ pending' \in Seq(DaemonFrame) /\ wire' \in [Connections -> Seq(DaemonFrame)]
        /\ spent' \in [Events -> Nat]
    BY <2>1, <2>2, <2>3, HubSendTypes, SpendCounts
  <2>5. TypeOK'
    BY <1>1, <1>7, <2>3, <2>4 DEF TypeOK, Transition, hubVars, pwaVars
  <2>6. DialBound'
    <3>1. FaultCount' = FaultCount /\ \A x \in Events : spent'[x] <= Limit[x]
      BY <2>1, SpendCounts
    <3>2. UNCHANGED <<conn, dialed>>
      BY <1>7 DEF Transition
    <3>3. QED
      BY <1>1, <3>1, <3>2 DEF DialBound
  <2>7. QED
    BY <2>5, <2>6
<1>8. QED
  BY <1>3, <1>4, <1>5, <1>6, <1>7

\* The router takes a frame.
LEMMA FrameTypes ==
    ASSUME TypeInv, NEW c \in Connections, OnDaemonFrame(c)
    PROVE  TypeOK' /\ DialBound'
<1>1. TypeOK /\ DialBound
  BY DEF TypeInv
<1> DEFINE f == Head(wire[c])
<1>2. wire[c] \in Seq(DaemonFrame) /\ wire[c] # <<>>
  BY <1>1 DEF TypeOK, OnDaemonFrame
<1>3. f \in DaemonFrame /\ wire' \in [Connections -> Seq(DaemonFrame)]
  BY <1>1, <1>2 DEF TypeOK, OnDaemonFrame
<1>4. cache' = Cached(cache, f)
  BY DEF OnDaemonFrame
<1>5. cache' \in CacheState
  <2>1. cache \in CacheState
    BY <1>1 DEF TypeOK, CacheState
  <2> HIDE DEF f
  <2>2. QED
    BY <1>3, <1>4, <2>1, CachedType
<1>6. toPwa' \in [Pwas -> Seq(PwaFrame)]
  <2>1. CASE f.type = "hello" /\ Broadcast(Online(f.sessions))
    <3>1. f.sessions \in Lists
      <4> HIDE DEF f
      <4>1. QED
        BY <1>3, <2>1 DEF DaemonFrame, SessionFrame
    <3>2. Online(f.sessions) \in PwaFrame
      BY <3>1 DEF Online, PwaFrame
    <3>3. QED
      BY <2>1, <3>2, BroadcastTypes
  <2>2. CASE f \in SessionFrame /\ Broadcast(f)
    BY <2>2, BroadcastTypes DEF PwaFrame
  <2>3. CASE UNCHANGED toPwa
    BY <1>1, <2>3 DEF TypeOK
  <2>4. QED
    BY <2>1, <2>2, <2>3 DEF OnDaemonFrame
<1>7. UNCHANGED <<sessionVars, clientVars, open, registered, pwa, spent>>
  BY DEF OnDaemonFrame
<1>8. TypeOK'
  BY <1>1, <1>3, <1>5, <1>6, <1>7 DEF TypeOK, CacheState, sessionVars, clientVars
<1>9. DialBound'
  BY <1>1, <1>7 DEF DialBound, FaultCount, clientVars
<1>10. QED
  BY <1>8, <1>9

\* A connection closes at the hub.
LEMMA CloseTypes ==
    ASSUME TypeInv, NEW c \in Connections, HubCloses(c)
    PROVE  TypeOK' /\ DialBound'
<1>1. TypeOK /\ DialBound
  BY DEF TypeInv
<1>2. cache' \in CacheState /\ toPwa' \in [Pwas -> Seq(PwaFrame)]
  BY DisconnectTypes DEF HubCloses
<1>3. wire' \in [Connections -> Seq(DaemonFrame)]
  BY <1>1 DEF TypeOK, HubCloses
<1>4. TypeOK'
  BY <1>1, <1>2, <1>3 DEF TypeOK, HubCloses, CacheState, sessionVars, clientVars
<1>5. DialBound'
  BY <1>1 DEF HubCloses, DialBound, FaultCount, clientVars
<1>6. QED
  BY <1>4, <1>5

\* A new connection has the next number.
LEMMA DialTypes ==
    ASSUME TypeInv, Dial
    PROVE  TypeOK' /\ DialBound'
<1>1. TypeOK /\ DialBound
  BY DEF TypeInv
<1>2. dialed' \in Connections /\ dialed' = dialed + 1 /\ Add(dialed')
  BY NextConnection DEF Dial
<1>3. cache' \in CacheState /\ toPwa' \in [Pwas -> Seq(PwaFrame)]
  <2>1. CASE registered = 0
    BY <1>1, <1>2, <2>1 DEF TypeOK, CacheState, Add
  <2>2. CASE registered # 0
    BY <1>2, <2>2, DisconnectTypes DEF Add
  <2>3. QED
    BY <2>1, <2>2
<1>4. wire' \in [Connections -> Seq(DaemonFrame)]
  BY <1>1, <1>2 DEF TypeOK, Add
<1>5. registered' \in {0} \cup Connections /\ open' \subseteq Connections
  BY <1>1, <1>2 DEF TypeOK, Add
<1>6. conn' \in [id : {0} \cup Connections, status : {"waiting", "dialing", "open"},
                 path : BOOLEAN]
  BY <1>2 DEF Dial
<1>7. TypeOK'
  BY <1>1, <1>2, <1>3, <1>4, <1>5, <1>6 DEF TypeOK, Dial, CacheState, sessionVars
<1>8. DialBound'
  <2>1. dialed' <= 1 + FaultCount /\ UNCHANGED spent
    <3>1. dialed \in Nat /\ dialed <= FaultCount
      BY <1>1 DEF TypeInv, RegistryInv, ConnectionOrder, DialBound, Dial
    <3>2. FaultCount \in Nat
      BY <1>1 DEF TypeOK, FaultCount, Events
    <3>3. QED
      BY <1>2, <3>1, <3>2 DEF Dial
  <2>2. conn'.status = "dialing" /\ conn'.path
    BY DEF Dial
  <2>3. QED
    BY <1>1, <2>1, <2>2 DEF DialBound, FaultCount
<1>9. QED
  BY <1>7, <1>8
\* What is sent first on a connection are frames.
LEMMA OpenTypes ==
    ASSUME TypeInv, DaemonOpen
    PROVE  TypeOK' /\ DialBound'
<1>1. TypeOK /\ DialBound
  BY DEF TypeInv
<1>2. conn.id \in Connections
  BY CarriedConnection DEF DaemonOpen
<1>3. Greeting \in Seq(DaemonFrame)
  <2>1. DaemonState
    BY DEF TypeInv, TypeOK, DaemonState
  <2>2. QED
    BY <1>1, <2>1, GreetingTells DEF TypeOK, CacheState
<1>4. wire' \in [Connections -> Seq(DaemonFrame)]
  <2>1. wire[conn.id] \o Greeting \o pending \in Seq(DaemonFrame)
    BY <1>1, <1>2, <1>3 DEF TypeOK
  <2>2. wire' = [wire EXCEPT ![conn.id] = wire[conn.id] \o Greeting \o pending]
    BY DEF DaemonOpen
  <2>3. QED
    BY <1>1, <2>1, <2>2 DEF TypeOK
<1>5. conn' = [conn EXCEPT !.status = "open"] /\ pending' = <<>>
      /\ UNCHANGED <<sessionVars, dialed, hubVars, pwaVars, spent>>
  BY DEF DaemonOpen
<1>6. TypeOK'
  <2>1. conn' \in [id : {0} \cup Connections,
                   status : {"waiting", "dialing", "open"}, path : BOOLEAN]
    BY <1>1, <1>5 DEF TypeOK
  <2>2. pending' \in Seq(DaemonFrame)
    <3>1. <<>> \in Seq(DaemonFrame)
      OBVIOUS
    <3>2. QED
      BY <1>5, <3>1
  <2>3. QED
    BY <1>1, <1>4, <1>5, <2>1, <2>2 DEF TypeOK, sessionVars, hubVars, pwaVars
<1>7. conn.status = "dialing" /\ conn.path /\ conn'.path /\ conn'.status = "open"
  BY <1>1, <1>5 DEF DaemonOpen, TypeOK
<1>8. DialBound'
  BY <1>1, <1>5, <1>7 DEF DialBound, FaultCount
<1>9. QED
  BY <1>6, <1>8

\* A cut is one more fault.
LEMMA CutTypes ==
    ASSUME TypeInv, Cut
    PROVE  TypeOK' /\ DialBound'
<1>1. TypeOK /\ DialBound
  BY DEF TypeInv
<1>2. wire' \in [Connections -> Seq(DaemonFrame)]
  <2>1. wire \in [Connections -> Seq(DaemonFrame)] /\ <<>> \in Seq(DaemonFrame)
    BY <1>1 DEF TypeOK
  <2>2. wire' = [wire EXCEPT ![conn.id] = <<>>]
    BY DEF Cut
  <2>3. QED
    BY <2>1, <2>2
<1>3. /\ spent' \in [Events -> Nat] /\ FaultCount' = FaultCount + 1
      /\ \A x \in Events : spent'[x] <= Limit[x]
  BY SpendCounts DEF Cut, Events
<1>4. TypeOK'
  BY <1>1, <1>2, <1>3 DEF TypeOK, Cut, sessionVars, hubVars, pwaVars
<1>5. DialBound'
  <2>1. dialed \in Nat /\ FaultCount \in Nat
    BY <1>1 DEF TypeInv, RegistryInv, ConnectionOrder, TypeOK, FaultCount, Events
  <2>2. dialed' = dialed
    BY DEF Cut
  <2>3. QED
    BY <1>1, <1>3, <2>1, <2>2 DEF DialBound
<1>6. QED
  BY <1>4, <1>5

\* Whatever ends a connection of the daemon: it had carried frames, and one
\* more fault has happened, or it had not.
LEMMA WaitingTypes ==
    ASSUME TypeInv, Waiting, UNCHANGED dialed,
           \/ UNCHANGED spent /\ ~conn.path
           \/ Spend("close") \/ Spend("restart")
    PROVE  /\ conn' \in [id : {0} \cup Connections,
                         status : {"waiting", "dialing", "open"}, path : BOOLEAN]
           /\ spent' \in [Events -> Nat]
           /\ DialBound'
<1>1. TypeOK /\ DialBound
  BY DEF TypeInv
<1>2. conn' = [id |-> 0, status |-> "waiting", path |-> FALSE]
  BY DEF Waiting
<1>3. dialed \in Nat /\ FaultCount \in Nat /\ spent \in [Events -> Nat]
  BY <1>1 DEF TypeInv, RegistryInv, ConnectionOrder, TypeOK, FaultCount, Events
<1>4. CASE UNCHANGED spent /\ ~conn.path
  <2>1. dialed <= FaultCount
    BY <1>1, <1>4 DEF DialBound
  <2>2. FaultCount' = FaultCount
    BY <1>4 DEF FaultCount
  <2>3. DialBound'
    BY <1>1, <1>2, <1>3, <1>4, <2>1, <2>2 DEF DialBound
  <2>4. QED
    BY <1>2, <1>3, <1>4, <2>3
<1>5. CASE Spend("close") \/ Spend("restart")
  <2>1. /\ spent' \in [Events -> Nat] /\ FaultCount' = FaultCount + 1
        /\ \A x \in Events : spent'[x] <= Limit[x]
    BY <1>5, SpendCounts DEF Events
  <2>2. DialBound'
    BY <1>1, <1>2, <1>3, <2>1 DEF DialBound
  <2>3. QED
    BY <1>2, <2>1, <2>2
<1>6. QED
  BY <1>4, <1>5

\* The daemon is without a connection.
LEMMA EndTypes ==
    ASSUME TypeInv, DaemonNotices \/ DaemonCloses \/ DaemonRestart
    PROVE  TypeOK' /\ DialBound'
<1>1. TypeOK
  BY DEF TypeInv
<1>2. /\ Waiting /\ UNCHANGED dialed
      /\ \/ UNCHANGED spent /\ ~conn.path
         \/ Spend("close") \/ Spend("restart")
      /\ UNCHANGED <<hubVars, wire, pwaVars>>
  BY DEF DaemonNotices, DaemonCloses, DaemonRestart
<1>3. live' \in Lists /\ inventory' \subseteq Sessions /\ scans' \in [Sessions -> Nat]
      /\ pending' \in Seq(DaemonFrame)
  <2>1. CASE UNCHANGED <<sessionVars, pending>>
    BY <1>1, <2>1 DEF TypeOK, sessionVars
  <2>2. CASE DaemonRestart
    <3>1. /\ live' = NoSessions /\ inventory' = {} /\ pending' = <<>>
          /\ scans' = [s \in Sessions |-> 0]
      BY <2>2 DEF DaemonRestart
    <3>2. <<>> \in Seq(DaemonFrame)
      OBVIOUS
    <3>3. QED
      BY <3>1, <3>2, ListTypes
  <2>3. QED
    BY <2>1, <2>2 DEF DaemonNotices, DaemonCloses
<1>4. TypeOK'
  BY <1>1, <1>2, <1>3, WaitingTypes DEF TypeOK, hubVars, pwaVars
<1>5. QED
  BY <1>2, <1>4, WaitingTypes

\* A restart of the hub is one more fault.
LEMMA HubRestartTypes ==
    ASSUME TypeInv, HubRestart
    PROVE  TypeOK' /\ DialBound'
<1>1. TypeOK /\ DialBound
  BY DEF TypeInv
<1>2. /\ spent' \in [Events -> Nat] /\ FaultCount' = FaultCount + 1
      /\ \A x \in Events : spent'[x] <= Limit[x]
  BY SpendCounts DEF HubRestart, Events
<1>3. cache' \in CacheState
  BY ListTypes DEF HubRestart, NoState, CacheState
<1>4. /\ wire' \in [Connections -> Seq(DaemonFrame)]
      /\ toPwa' \in [Pwas -> Seq(PwaFrame)]
      /\ pwa' \in [Pwas -> [status : {"off", "open", "subscribed"}, view : ViewState]]
  <2>1. /\ pwa \in [Pwas -> [status : {"off", "open", "subscribed"}, view : ViewState]]
        /\ <<>> \in Seq(DaemonFrame) /\ <<>> \in Seq(PwaFrame)
    BY <1>1 DEF TypeOK, ViewState
  <2>2. /\ wire' = [c \in Connections |-> <<>>]
        /\ toPwa' = [p \in Pwas |-> <<>>]
        /\ pwa' = [p \in Pwas |-> [pwa[p] EXCEPT !.status = "off"]]
    BY DEF HubRestart
  <2>3. QED
    BY <2>1, <2>2
<1>5. TypeOK'
  BY <1>1, <1>2, <1>3, <1>4 DEF TypeOK, HubRestart, CacheState, ViewState, sessionVars
<1>6. DialBound'
  <2>1. dialed \in Nat /\ FaultCount \in Nat
    BY <1>1 DEF TypeInv, RegistryInv, ConnectionOrder, TypeOK, FaultCount, Events
  <2>2. dialed' = dialed
    BY DEF HubRestart
  <2>3. QED
    BY <1>1, <1>2, <2>1, <2>2 DEF DialBound
<1>7. QED
  BY <1>5, <1>6

\* The connection of a PWA and what it shows.
LEMMA PwaTypes ==
    ASSUME TypeInv, NEW p \in Pwas,
           PwaOpens(p) \/ OnPwaSubscribe(p) \/ PwaLost(p) \/ PwaReceive(p)
    PROVE  TypeOK' /\ DialBound'
<1>1. TypeOK /\ DialBound
  BY DEF TypeInv
<1>2. /\ pwa \in [Pwas -> [status : {"off", "open", "subscribed"}, view : ViewState]]
      /\ toPwa \in [Pwas -> Seq(PwaFrame)]
  BY <1>1 DEF TypeOK, ViewState
<1>3. /\ pwa' \in [Pwas -> [status : {"off", "open", "subscribed"}, view : ViewState]]
      /\ toPwa' \in [Pwas -> Seq(PwaFrame)]
  <2>1. CASE PwaOpens(p)
    BY <1>2, <2>1 DEF PwaOpens
  <2>2. CASE OnPwaSubscribe(p)
    <3>1. Snapshot(cache) \in PwaFrame
      BY <1>1 DEF TypeOK, Snapshot, PwaFrame
    <3>2. Append(toPwa[p], Snapshot(cache)) \in Seq(PwaFrame)
      BY <1>2, <3>1
    <3>3. /\ toPwa' = [toPwa EXCEPT ![p] = Append(toPwa[p], Snapshot(cache))]
          /\ pwa' = [pwa EXCEPT ![p].status = "subscribed"]
      BY <2>2 DEF OnPwaSubscribe
    <3>4. QED
      BY <1>2, <3>2, <3>3
  <2>3. CASE PwaLost(p)
    BY <1>2, <2>3 DEF PwaLost
  <2>4. CASE PwaReceive(p)
    <3>1. toPwa[p] \in Seq(PwaFrame) /\ toPwa[p] # <<>> /\ pwa[p].view \in ViewState
      BY <1>2, <2>4 DEF PwaReceive
    <3>2. Shown(pwa[p].view, Head(toPwa[p])) \in ViewState
      BY <3>1, ShownType
    <3>3. Tail(toPwa[p]) \in Seq(PwaFrame)
      BY <3>1
    <3>4. /\ toPwa' = [toPwa EXCEPT ![p] = Tail(toPwa[p])]
          /\ pwa' = [pwa EXCEPT ![p].view = Shown(pwa[p].view, Head(toPwa[p]))]
      BY <2>4 DEF PwaReceive
    <3>5. QED
      BY <1>2, <3>2, <3>3, <3>4
  <2>5. QED
    BY <2>1, <2>2, <2>3, <2>4
<1>4. UNCHANGED <<sessionVars, clientVars, hubVars, wire>>
  BY DEF PwaOpens, OnPwaSubscribe, PwaLost, PwaReceive
<1>5. /\ spent' \in [Events -> Nat] /\ FaultCount' = FaultCount
      /\ \A x \in Events : spent'[x] <= Limit[x]
  <2>1. CASE UNCHANGED spent
    BY <1>1, <2>1 DEF TypeOK, DialBound, FaultCount
  <2>2. CASE Spend("away")
    BY <2>2, SpendCounts DEF Events
  <2>3. QED
    BY <2>1, <2>2 DEF PwaOpens, OnPwaSubscribe, PwaLost, PwaReceive
<1>6. TypeOK'
  BY <1>1, <1>3, <1>4, <1>5 DEF TypeOK, ViewState, sessionVars, clientVars, hubVars
<1>7. DialBound'
  BY <1>1, <1>4, <1>5 DEF DialBound, clientVars
<1>8. QED
  BY <1>6, <1>7

\* One inventory is added or removed at a time.
LEMMA InventoryStaysFinite ==
    ASSUME IsFiniteSet(inventory), [Next]_vars
    PROVE  IsFiniteSet(inventory')
<1>1. \/ UNCHANGED inventory \/ inventory' = {}
      \/ \E s \in Sessions : inventory' = inventory \cup {s}
      \/ \E s \in Sessions : inventory' = inventory \ {s}
  BY DEF Next, vars, sessionVars, Register, Scanned, ScanFails, Unregister, Transition,
         HubCloses, OnDaemonFrame, Dial, DaemonOpen, Cut, DaemonNotices, DaemonCloses,
         DaemonRestart, HubRestart, PwaOpens, OnPwaSubscribe, PwaLost, PwaReceive
<1>2. QED
  BY <1>1, FS_EmptySet, FS_AddElement, FS_RemoveElement

\* Every step keeps the types.
LEMMA TypeInvStep == TypeInv /\ [Next]_vars => TypeInv'
<1> SUFFICES ASSUME TypeInv, [Next]_vars PROVE TypeInv'
  OBVIOUS
<1>1. RegistryInv' /\ IsFiniteSet(inventory')
  BY RegistryInvStep, InventoryStaysFinite DEF TypeInv
<1>2. TypeOK' /\ DialBound'
  <2>1. CASE UNCHANGED vars
    BY <2>1 DEF TypeInv, TypeOK, DialBound, FaultCount, vars, sessionVars, clientVars,
                hubVars, pwaVars
  <2>2. CASE Next
    BY <2>2, SessionTypes, CloseTypes, FrameTypes, DialTypes, OpenTypes, CutTypes,
       EndTypes, HubRestartTypes, PwaTypes DEF Next
  <2>3. QED
    BY <2>1, <2>2
<1>3. QED
  BY <1>1, <1>2 DEF TypeInv

-----------------------------------------------------------------------------
(* The way from the daemon to the hub *)

\* The daemon queues only while its connection is not open, and what the hub
\* and the queue still lack is exactly what the next greeting says.
DaemonInv ==
    /\ conn.status = "open" => pending = <<>>
    /\ QueueIsStale
    /\ InFlightCompletes

\* Types, in the form that the lemmas about folds use.
LEMMA Typed ==
    ASSUME TypeInv
    PROVE  /\ DaemonState
           /\ cache \in CacheState /\ Truth \in CacheState /\ Truth.known
           /\ pending \in Seq(DaemonFrame)
           /\ \A c \in Connections : wire[c] \in Seq(DaemonFrame)
           /\ \A p \in Pwas : pwa[p].view \in ViewState /\ toPwa[p] \in Seq(PwaFrame)
           /\ \A p \in Pwas : pwa[p].status \in {"off", "open", "subscribed"}
<1>1. DaemonState
  BY DEF TypeInv, TypeOK, DaemonState
<1>2. Truth \in CacheState /\ Truth.known
  BY <1>1, TruthState DEF Truth
<1>3. QED
  BY <1>1, <1>2 DEF TypeInv, TypeOK, CacheState, ViewState

\* What the daemon knows after the step is a state of the router too.
LEMMA TruthTyped ==
    ASSUME TypeInv' PROVE Truth' \in CacheState
BY DEF TypeInv, TypeOK, Truth, CacheState

\* The daemon says what has changed: applied to the truth of before, the frame
\* gives the truth of now.
SaysTheChange(f) == Cached(Truth, f) = Truth'

\* A change that is sent or queued with its frame keeps the invariant.
LEMMA ChangeIsSaid ==
    ASSUME TypeInv, TypeInv', NEW f \in DaemonFrame, f.type # "hello",
           HubSend(f), SaysTheChange(f), UNCHANGED <<conn, hubVars>>, DaemonInv
    PROVE  DaemonInv'
<1> DEFINE a == Truth
           b == Truth'
<1>1. /\ a \in CacheState /\ a.known /\ b \in CacheState
      /\ pending \in Seq(DaemonFrame)
      /\ cache \in CacheState
      /\ Cached(a, f) = b
  BY Typed, TruthTyped DEF SaysTheChange
<1>2. CASE conn.status = "open"
  <2>1. conn'.status = "open" /\ pending = <<>> /\ pending' = <<>>
    BY <1>2 DEF DaemonInv, HubSend
  <2>2. QueueIsStale'
    <3>1. Completed(b, <<>>) = b
      <4> HIDE DEF b
      <4>1. QED
        BY <1>1, CompletedNothing
    <3>2. QED
      BY <2>1, <3>1 DEF QueueIsStale
  <2>3. InFlightCompletes'
    <3> SUFFICES ASSUME conn'.path
                 PROVE  Completed(cache, wire'[conn.id]) = b
      BY DEF InFlightCompletes, Completed, hubVars
    <3>1. conn.path /\ conn.id \in Connections
      BY CarriedConnection
    <3>2. wire[conn.id] \in Seq(DaemonFrame) /\ Completed(cache, wire[conn.id]) = a
      BY <1>2, <3>1, Typed DEF DaemonInv, InFlightCompletes, Completed
    <3>3. wire'[conn.id] = Append(wire[conn.id], f)
      BY <1>2, <3>1 DEF HubSend, TypeInv, TypeOK
    <3> HIDE DEF a, b
    <3>4. QED
      BY <1>1, <3>2, <3>3, CompletedAppend
  <2>4. QED
    BY <2>1, <2>2, <2>3 DEF DaemonInv
<1>3. CASE conn.status # "open"
  <2>1. conn'.status # "open" /\ pending' = Append(pending, f)
    BY <1>3 DEF HubSend
  <2>2. Completed(a, pending) = a
    BY DEF DaemonInv, QueueIsStale
  <2>3. Completed(b, Append(pending, f)) = b
    <3> HIDE DEF a, b
    <3>1. QED
      BY <1>1, <2>2, StaleAppend
  <2>4. QueueIsStale'
    BY <2>1, <2>3 DEF QueueIsStale
  <2>5. QED
    BY <2>1, <2>4 DEF DaemonInv, InFlightCompletes
<1>4. QED
  BY <1>2, <1>3

\* The daemon says every change of its sessions.
LEMMA SessionsAreSaid ==
    ASSUME TypeInv, TypeInv', DaemonInv, NEW s \in Sessions,
           \/ Register(s) \/ Scanned(s) \/ ScanFails(s) \/ Unregister(s)
           \/ \E status \in Statuses : Transition(s, status)
    PROVE  DaemonInv'
<1> DEFINE Said(f) == f \in DaemonFrame /\ f.type # "hello" /\ HubSend(f)
                      /\ UNCHANGED <<conn, hubVars>>
<1>1. CASE Register(s)
  <2>1. Said(Opened(s))
    BY <1>1, InitialAssumption DEF Register, Opened, DaemonFrame, SessionFrame
  <2>2. SaysTheChange(Opened(s))
    BY <1>1 DEF Register, SaysTheChange, Cached, Truth, Opened, Listed
  <2>3. QED
    BY <2>1, <2>2, ChangeIsSaid
<1>2. CASE Scanned(s)
  <2>1. Said(Inventory(s))
    BY <1>2 DEF Scanned, Inventory, DaemonFrame, SessionFrame
  <2>2. SaysTheChange(Inventory(s))
    BY <1>2 DEF Scanned, SaysTheChange, Cached, Truth, Inventory
  <2>3. QED
    BY <2>1, <2>2, ChangeIsSaid
<1>3. CASE Unregister(s)
  <2>1. Said(Closed(s))
    BY <1>3 DEF Unregister, Closed, DaemonFrame, SessionFrame
  <2>2. SaysTheChange(Closed(s))
    BY <1>3 DEF Unregister, SaysTheChange, Cached, Truth, Closed, Listed
  <2>3. QED
    BY <2>1, <2>2, ChangeIsSaid
<1>4. ASSUME NEW status \in Statuses, Transition(s, status) PROVE DaemonInv'
  <2>1. Said(State(s, status))
    BY <1>4 DEF Transition, State, DaemonFrame, SessionFrame
  <2>2. SaysTheChange(State(s, status))
    BY <1>4 DEF Transition, SaysTheChange, Cached, Truth, State, Listed
  <2>3. QED
    BY <2>1, <2>2, ChangeIsSaid
<1>5. CASE ScanFails(s)
  BY <1>5 DEF ScanFails, DaemonInv, QueueIsStale, InFlightCompletes, Truth, clientVars,
              hubVars
<1>6. QED
  BY <1>1, <1>2, <1>3, <1>4, <1>5

\* A working connection is greeted before the queue, so the hub has the truth.
LEMMA OpenCompletes ==
    ASSUME TypeInv, DaemonInv, DaemonOpen, wire[conn.id] \in Seq(DaemonFrame)
    PROVE  DaemonInv'
<1>1. conn.path /\ conn.id \in Connections /\ conn.status = "dialing"
  BY CarriedConnection DEF DaemonOpen
<1>2. /\ conn' = [conn EXCEPT !.status = "open"] /\ pending' = <<>>
      /\ wire' = [wire EXCEPT ![conn.id] = wire[conn.id] \o Greeting \o pending]
      /\ UNCHANGED <<live, inventory, cache>>
  BY DEF DaemonOpen, sessionVars, hubVars
<1>3. conn'.id = conn.id
  BY <1>2 DEF TypeInv, RegistryInv, ConnectionOrder
<1>4. Truth' = Truth
  BY <1>2 DEF Truth
<1>5. QueueIsStale'
  BY <1>2, <1>4, Typed, CompletedNothing DEF QueueIsStale
<1>6. Completed(cache, wire[conn.id] \o Greeting \o pending) = Truth
  <2> DEFINE w == wire[conn.id]
             k == Completed(cache, w)
  <2>1. /\ k \in CacheState /\ w \in Seq(DaemonFrame) /\ pending \in Seq(DaemonFrame)
        /\ cache \in CacheState
    BY Typed, CompletedIs
  <2>2. Greeting \in Seq(DaemonFrame) /\ Completed(k, Greeting) = Truth
    <3> HIDE DEF k
    <3>1. QED
      BY <2>1, Typed, GreetingTells
  <2> HIDE DEF w
  <2>3. w \o Greeting \in Seq(DaemonFrame)
    BY <2>1, <2>2
  <2>4. Completed(cache, w \o Greeting) = Truth
    BY <2>1, <2>2, CompletedConcat
  <2>5. Completed(cache, (w \o Greeting) \o pending) = Truth
    BY <2>1, <2>3, <2>4, CompletedConcat DEF DaemonInv, QueueIsStale
  <2>6. QED
    BY <2>5 DEF w
<1>7. wire'[conn.id] = wire[conn.id] \o Greeting \o pending
  BY <1>1, <1>2 DEF TypeInv, TypeOK
<1>8. InFlightCompletes'
  BY <1>2, <1>3, <1>4, <1>6, <1>7 DEF InFlightCompletes, Completed
<1>9. QED
  BY <1>2, <1>5, <1>8 DEF DaemonInv

\* The hub takes the frames of the connection in their order.
LEMMA FrameCompletes ==
    ASSUME TypeInv, DaemonInv, NEW c \in Connections, OnDaemonFrame(c)
    PROVE  DaemonInv'
<1>1. UNCHANGED <<sessionVars, clientVars>>
  BY DEF OnDaemonFrame
<1>2. Truth' = Truth /\ conn' = conn /\ pending' = pending
  BY <1>1 DEF Truth, sessionVars, clientVars
<1>3. QueueIsStale'
  BY <1>2 DEF DaemonInv, QueueIsStale
<1>4. InFlightCompletes'
  <2> SUFFICES ASSUME conn.status = "open", conn.path
               PROVE  Completed(cache', wire'[conn.id]) = Truth
    BY <1>2 DEF InFlightCompletes, Completed
  <2>1. c = conn.id
    BY CarriedConnection DEF OnDaemonFrame
  <2>2. /\ wire[c] \in Seq(DaemonFrame) /\ wire[c] # <<>> /\ cache \in CacheState
        /\ cache' = Cached(cache, Head(wire[c]))
    BY Typed DEF OnDaemonFrame
  <2>3. wire'[c] = Tail(wire[c])
    BY DEF OnDaemonFrame, TypeInv, TypeOK
  <2>4. Completed(cache, wire[c]) = Truth
    BY <2>1 DEF DaemonInv, InFlightCompletes, Completed
  <2>5. QED
    BY <2>1, <2>2, <2>3, <2>4, CompletedTail
<1>5. QED
  BY <1>2, <1>3, <1>4 DEF DaemonInv

\* Nothing is in flight on a connection that does not work.
LEMMA NothingToComplete ==
    ASSUME TypeInv, DaemonInv, ~(conn.status = "open" /\ conn.path)',
           UNCHANGED <<live, inventory, pending>>, conn'.status # "open" \/ UNCHANGED conn
    PROVE  DaemonInv'
BY DEF DaemonInv, QueueIsStale, InFlightCompletes, Truth

\* Every step keeps what the hub and the queue lack in order.
LEMMA DaemonInvStep == TypeInv /\ TypeInv' /\ DaemonInv /\ [Next]_vars => DaemonInv'
<1> SUFFICES ASSUME TypeInv, TypeInv', DaemonInv, [Next]_vars PROVE DaemonInv'
  OBVIOUS
<1>1. CASE \E s \in Sessions :
               \/ Register(s) \/ Scanned(s) \/ ScanFails(s) \/ Unregister(s)
               \/ \E status \in Statuses : Transition(s, status)
  BY <1>1, SessionsAreSaid
<1>2. ASSUME NEW c \in Connections, HubCloses(c) PROVE DaemonInv'
  <2>1. ~conn.path
    BY <1>2, CarriedConnection DEF HubCloses
  <2>2. UNCHANGED <<conn, live, inventory, pending>>
    BY <1>2 DEF HubCloses, sessionVars, clientVars
  <2>3. QED
    BY <2>1, <2>2, NothingToComplete
<1>3. ASSUME NEW c \in Connections, OnDaemonFrame(c) PROVE DaemonInv'
  BY <1>3, FrameCompletes
<1>4. CASE Dial
  <2>1. conn'.status = "dialing" /\ UNCHANGED <<live, inventory, pending>>
    BY <1>4 DEF Dial, sessionVars
  <2>2. QED
    BY <2>1, NothingToComplete
<1>5. CASE DaemonOpen
  <2>1. wire[conn.id] \in Seq(DaemonFrame)
    BY <1>5, Typed, CarriedConnection DEF DaemonOpen
  <2>2. QED
    BY <1>5, <2>1, OpenCompletes
<1>6. CASE Cut \/ HubRestart
  <2>1. conn' = [conn EXCEPT !.path = FALSE] /\ UNCHANGED <<live, inventory, pending>>
    BY <1>6 DEF Cut, HubRestart, sessionVars
  <2>2. ~conn'.path /\ conn'.status = conn.status
    BY <2>1 DEF TypeInv, RegistryInv, ConnectionOrder
  <2>3. QED
    BY <2>1, <2>2 DEF DaemonInv, QueueIsStale, InFlightCompletes, Truth
<1>7. CASE DaemonNotices \/ DaemonCloses
  <2>1. conn'.status = "waiting" /\ UNCHANGED <<live, inventory, pending>>
    BY <1>7 DEF DaemonNotices, DaemonCloses, Waiting, sessionVars
  <2>2. QED
    BY <2>1, NothingToComplete
<1>8. CASE DaemonRestart
  <2>1. conn'.status = "waiting" /\ pending' = <<>>
    BY <1>8 DEF DaemonRestart, Waiting
  <2>2. Truth' \in CacheState
    BY TruthTyped
  <2>3. QueueIsStale'
    BY <2>1, <2>2, CompletedNothing DEF QueueIsStale
  <2>4. QED
    BY <2>1, <2>3 DEF DaemonInv, InFlightCompletes
<1>9. CASE \E p \in Pwas :
               PwaOpens(p) \/ OnPwaSubscribe(p) \/ PwaLost(p) \/ PwaReceive(p)
  <2>1. UNCHANGED <<sessionVars, clientVars, hubVars, wire>>
    BY <1>9 DEF PwaOpens, OnPwaSubscribe, PwaLost, PwaReceive
  <2>2. QED
    BY <2>1 DEF DaemonInv, QueueIsStale, InFlightCompletes, Truth, sessionVars,
                clientVars, hubVars
<1>10. CASE UNCHANGED vars
  BY <1>10 DEF DaemonInv, QueueIsStale, InFlightCompletes, Truth, vars, sessionVars,
               clientVars, hubVars
<1>11. QED
  BY <1>1, <1>2, <1>3, <1>4, <1>5, <1>6, <1>7, <1>8, <1>9, <1>10 DEF Next

-----------------------------------------------------------------------------
(* The way from the hub to the PWAs *)

\* What a PWA will show once it has all its frames follows the router; no PWA
\* shows a daemon online that it does not list.
PwaInv ==
    /\ \A p \in Pwas : pwa[p].view \in Sound
    /\ PwaFollows

\* The router state k, and a view that follows it.
Following(v, k) == v.online = k.known /\ (k.known => v.sessions = k.sessions)

\* Every frame that is broadcast turns a view that followed the router before
\* into one that follows it afterwards.
Leads(f, k, next) ==
    \A v \in Sound : Following(v, k) => Following(Shown(v, f), next)

\* A frame that leads keeps the PWAs following.
LEMMA BroadcastLeads ==
    ASSUME TypeInv, PwaInv, NEW f \in PwaFrame, Broadcast(f), UNCHANGED pwa,
           Leads(f, cache, cache')
    PROVE  PwaInv'
<1> SUFFICES ASSUME NEW p \in Pwas, pwa[p].status = "subscribed"
             PROVE  Following(Seen(pwa[p].view, toPwa'[p]), cache')
  BY DEF PwaInv, PwaFollows, Following, Seen
<1>1. /\ pwa[p].view \in ViewState /\ toPwa[p] \in Seq(PwaFrame)
      /\ pwa[p].view \in Sound
  BY Typed DEF PwaInv
<1>2. toPwa'[p] = Append(toPwa[p], f)
  BY DEF Broadcast
<1>3. Seen(pwa[p].view, toPwa'[p]) = Shown(Seen(pwa[p].view, toPwa[p]), f)
  BY <1>1, <1>2, SeenAppend
<1>4. Following(Seen(pwa[p].view, toPwa[p]), cache)
  BY DEF PwaInv, PwaFollows, Following, Seen
<1>5. Seen(pwa[p].view, toPwa[p]) \in Sound
  BY <1>1, SeenSound
<1>6. QED
  BY <1>3, <1>4, <1>5 DEF Leads

\* A frame that is not broadcast changes nothing that a PWA is to show.
LEMMA SilenceLeads ==
    ASSUME PwaInv, UNCHANGED <<pwa, toPwa>>, UNCHANGED <<cache.known, cache.sessions>>
    PROVE  PwaInv'
BY DEF PwaInv, PwaFollows

\* A PWA is told that the daemon is gone when the router forgets it.
LEMMA DisconnectLeads ==
    ASSUME TypeInv, PwaInv, UNCHANGED pwa,
           OnDaemonDisconnect \/ UNCHANGED <<cache, toPwa>>
    PROVE  PwaInv'
<1>1. CASE UNCHANGED <<cache, toPwa>>
  BY <1>1, SilenceLeads
<1>2. CASE cache.known /\ OnDaemonDisconnect
  <2>1. cache' = NoState /\ Broadcast(Offline) /\ Offline \in PwaFrame
    BY <1>2 DEF OnDaemonDisconnect, PwaFrame
  <2>2. ASSUME NEW v \in Sound PROVE Shown(v, Offline).online = FALSE
    BY DEF Shown, Offline, Sound, ViewState
  <2>3. Leads(Offline, cache, cache')
    BY <2>1, <2>2 DEF Leads, Following, NoState
  <2>4. QED
    BY <2>1, <2>3, BroadcastLeads
<1>3. QED
  BY <1>1, <1>2 DEF OnDaemonDisconnect

\* A PWA is told what the router remembers of a frame.
LEMMA FrameLeads ==
    ASSUME TypeInv, PwaInv, NEW c \in Connections, OnDaemonFrame(c)
    PROVE  PwaInv'
<1> DEFINE f == Head(wire[c])
<1>1. /\ wire[c] \in Seq(DaemonFrame) /\ wire[c] # <<>> /\ cache \in CacheState
      /\ cache' = Cached(cache, f) /\ UNCHANGED pwa
  BY Typed DEF OnDaemonFrame
<1>2. f \in DaemonFrame
  BY <1>1
<1>3. CASE f.type = "hello" /\ Broadcast(Online(f.sessions))
  <2>1. f.sessions \in Lists
    <3> HIDE DEF f
    <3>1. QED
      BY <1>2, <1>3 DEF DaemonFrame, SessionFrame
  <2>2. Online(f.sessions) \in PwaFrame
    BY <2>1 DEF Online, PwaFrame
  <2> HIDE DEF f
  <2>3. cache'.known /\ cache'.sessions = f.sessions
    BY <1>1, <1>3 DEF Cached
  <2>4. Leads(Online(f.sessions), cache, cache')
    BY <2>3 DEF Leads, Following, Shown, Online
  <2>5. QED
    BY <1>1, <1>3, <2>2, <2>4, BroadcastLeads
<1>4. CASE f \in SessionFrame /\ cache.known /\ Broadcast(f)
  <2> HIDE DEF f
  <2>1. f \in PwaFrame /\ f.type \in {"session_open", "session_state", "session_close"}
    BY <1>4, FrameKinds DEF PwaFrame
  <2>2. cache'.known /\ cache'.sessions = Listed(cache.sessions, f)
    BY <1>1, <1>2, <1>4, <2>1, CachedParts
  <2>3. ASSUME NEW v \in Sound, Following(v, cache)
        PROVE  Following(Shown(v, f), cache')
    <3>1. v.listed /\ v.online /\ v.sessions = cache.sessions /\ v \in ViewState
      BY <1>4, <2>3 DEF Sound, Following
    <3>2. Shown(v, f) = [v EXCEPT !.sessions = Listed(v.sessions, f)]
      BY <2>1, <3>1 DEF Shown
    <3>3. QED
      BY <2>2, <3>1, <3>2 DEF Following, ViewState
  <2>4. Leads(f, cache, cache')
    BY <2>3 DEF Leads
  <2>5. QED
    BY <1>1, <1>4, <2>1, <2>4, BroadcastLeads
<1>5. CASE f.type = "slash_inventory" /\ UNCHANGED toPwa
  <2> HIDE DEF f
  <2>1. cache'.known = cache.known /\ cache'.sessions = cache.sessions
    BY <1>1, <1>5 DEF Cached, CacheState
  <2>2. QED
    BY <1>1, <1>5, <2>1, SilenceLeads
<1>6. CASE f \in SessionFrame /\ ~cache.known /\ UNCHANGED toPwa
  <2> HIDE DEF f
  <2>1. cache' = cache
    BY <1>1, <1>6, FrameKinds DEF Cached
  <2>2. QED
    BY <1>1, <1>6, <2>1, SilenceLeads
<1>7. QED
  BY <1>3, <1>4, <1>5, <1>6 DEF OnDaemonFrame

\* A snapshot is what the router has, and frames are taken in their order.
LEMMA PwaLeads ==
    ASSUME TypeInv, PwaInv, NEW p \in Pwas,
           PwaOpens(p) \/ OnPwaSubscribe(p) \/ PwaLost(p) \/ PwaReceive(p)
    PROVE  PwaInv'
<1> SUFFICES ASSUME NEW x \in Pwas
             PROVE  /\ pwa'[x].view \in Sound
                    /\ pwa'[x].status = "subscribed" =>
                         Following(Seen(pwa'[x].view, toPwa'[x]), cache')
  BY DEF PwaInv, PwaFollows, Following, Seen
<1>1. cache' = cache /\ cache \in CacheState
  BY Typed DEF PwaOpens, OnPwaSubscribe, PwaLost, PwaReceive, hubVars
<1>2. /\ \A y \in Pwas : pwa[y].view \in Sound /\ pwa[y].view \in ViewState
      /\ \A y \in Pwas : toPwa[y] \in Seq(PwaFrame)
      /\ \A y \in Pwas : pwa[y].status = "subscribed" =>
             Following(Seen(pwa[y].view, toPwa[y]), cache)
  BY Typed DEF PwaInv, PwaFollows, Following, Seen
<1>3. /\ pwa \in [Pwas -> [status : {"off", "open", "subscribed"}, view : ViewState]]
      /\ toPwa \in [Pwas -> Seq(PwaFrame)]
  BY DEF TypeInv, TypeOK, ViewState
<1>4. CASE PwaOpens(p) \/ PwaLost(p)
  <2>1. /\ pwa'[x].view = pwa[x].view
        /\ x # p => pwa'[x] = pwa[x] /\ toPwa'[x] = toPwa[x]
        /\ x = p => pwa'[x].status # "subscribed"
    BY <1>3, <1>4 DEF PwaOpens, PwaLost
  <2>2. QED
    BY <1>1, <1>2, <2>1
<1>5. CASE OnPwaSubscribe(p)
  <2>1. /\ pwa'[x].view = pwa[x].view
        /\ x # p => pwa'[x] = pwa[x] /\ toPwa'[x] = toPwa[x]
        /\ x = p => toPwa'[x] = Append(toPwa[x], Snapshot(cache))
    BY <1>3, <1>5 DEF OnPwaSubscribe
  <2>2. Snapshot(cache) \in PwaFrame
    BY <1>1 DEF Snapshot, PwaFrame, CacheState
  <2>3. ASSUME NEW v PROVE Following(Shown(v, Snapshot(cache)), cache)
    BY DEF Following, Shown, Snapshot
  <2>4. CASE x = p
    <3>1. Seen(pwa[x].view, Append(toPwa[x], Snapshot(cache)))
            = Shown(Seen(pwa[x].view, toPwa[x]), Snapshot(cache))
      BY <1>2, <2>2, SeenAppend
    <3>2. Seen(pwa'[x].view, toPwa'[x])
            = Shown(Seen(pwa[x].view, toPwa[x]), Snapshot(cache))
      BY <2>1, <2>4, <3>1
    <3>3. QED
      BY <1>1, <1>2, <2>1, <2>3, <3>2
  <2>5. QED
    BY <1>1, <1>2, <2>1, <2>4
<1>6. CASE PwaReceive(p)
  <2>1. /\ x # p => pwa'[x] = pwa[x] /\ toPwa'[x] = toPwa[x]
        /\ x = p => /\ toPwa[x] # <<>> /\ toPwa'[x] = Tail(toPwa[x])
                    /\ pwa'[x].view = Shown(pwa[x].view, Head(toPwa[x]))
                    /\ pwa'[x].status = pwa[x].status
    BY <1>3, <1>6 DEF PwaReceive
  <2>2. CASE x = p
    <3>1. Head(toPwa[x]) \in PwaFrame
      BY <1>2, <2>1, <2>2
    <3>2. pwa'[x].view \in Sound
      BY <1>2, <2>1, <2>2, <3>1, ShownSound
    <3>3. Seen(pwa[x].view, toPwa[x]) = Seen(pwa'[x].view, toPwa'[x])
      BY <1>2, <2>1, <2>2, SeenTail
    <3>4. QED
      BY <1>1, <1>2, <2>1, <2>2, <3>2, <3>3
  <2>3. QED
    BY <1>1, <1>2, <2>1, <2>2
<1>7. QED
  BY <1>4, <1>5, <1>6

\* Every step keeps the PWAs following.
LEMMA PwaInvStep == TypeInv /\ PwaInv /\ [Next]_vars => PwaInv'
<1> SUFFICES ASSUME TypeInv, PwaInv, [Next]_vars PROVE PwaInv'
  OBVIOUS
<1>1. CASE \/ UNCHANGED vars \/ DaemonOpen \/ Cut \/ DaemonNotices \/ DaemonCloses
           \/ DaemonRestart
           \/ \E s \in Sessions :
                  \/ Register(s) \/ Scanned(s) \/ ScanFails(s) \/ Unregister(s)
                  \/ \E status \in Statuses : Transition(s, status)
  <2>1. UNCHANGED <<hubVars, pwaVars>>
    BY <1>1 DEF vars, DaemonOpen, Cut, DaemonNotices, DaemonCloses, DaemonRestart,
                Register, Scanned, ScanFails, Unregister, Transition
  <2>2. QED
    BY <2>1, SilenceLeads DEF hubVars, pwaVars
<1>2. ASSUME NEW c \in Connections, HubCloses(c) PROVE PwaInv'
  BY <1>2, DisconnectLeads DEF HubCloses
<1>3. CASE Dial
  <2>1. UNCHANGED pwa /\ (OnDaemonDisconnect \/ UNCHANGED <<cache, toPwa>>)
    BY <1>3 DEF Dial, Add
  <2>2. QED
    BY <2>1, DisconnectLeads
<1>4. ASSUME NEW c \in Connections, OnDaemonFrame(c) PROVE PwaInv'
  BY <1>4, FrameLeads
<1>5. CASE HubRestart
  <2>1. \A p \in Pwas : pwa'[p].status = "off" /\ pwa'[p].view = pwa[p].view
    BY <1>5 DEF HubRestart, TypeInv, TypeOK
  <2>2. QED
    BY <2>1 DEF PwaInv, PwaFollows
<1>6. CASE \E p \in Pwas :
               PwaOpens(p) \/ OnPwaSubscribe(p) \/ PwaLost(p) \/ PwaReceive(p)
  BY <1>6, PwaLeads
<1>7. QED
  BY <1>1, <1>2, <1>3, <1>4, <1>5, <1>6 DEF Next

-----------------------------------------------------------------------------

\* The inductive invariant of the lists.
ListInv == TypeInv /\ DaemonInv /\ PwaInv

\* At first there is nothing to complete and nobody to follow.
LEMMA ListInvInit == Init => ListInv
<1> SUFFICES ASSUME Init PROVE ListInv
  OBVIOUS
<1>1. TypeInv
  BY TypeInvInit
<1>2. DaemonInv
  <2>1. Completed(Truth, <<>>) = Truth
    BY <1>1, Typed, CompletedNothing
  <2>2. QED
    BY <2>1 DEF Init, DaemonInv, QueueIsStale, InFlightCompletes
<1>3. PwaInv
  <2>1. Unlisted \in Sound
    BY ListTypes DEF Unlisted, Sound, ViewState
  <2>2. QED
    BY <2>1 DEF Init, PwaInv, PwaFollows
<1>4. QED
  BY <1>1, <1>2, <1>3 DEF ListInv

\* What is queued and what is in flight completes the hub's cache to the list
\* the daemon has, and every PWA follows the cache, for any number of sessions,
\* frames, connections and faults: handlers, queues, greetings and snapshots of
\* hub-client, router and reducer leave no gap and undo nothing.
THEOREM ListsCorrect == Spec => []ListsAddUp
<1>1. ListInv /\ [Next]_vars => ListInv'
  <2> SUFFICES ASSUME ListInv, [Next]_vars PROVE ListInv'
    OBVIOUS
  <2>1. TypeInv'
    BY TypeInvStep DEF ListInv
  <2>2. QED
    BY <2>1, DaemonInvStep, PwaInvStep DEF ListInv
<1>2. ListInv => ListsAddUp
  <2> SUFFICES ASSUME ListInv PROVE ListsAddUp
    OBVIOUS
  <2>1. QueueCompletes
    BY Typed, QueueStale DEF ListInv, DaemonInv
  <2>2. QED
    BY <2>1 DEF ListInv, TypeInv, DaemonInv, PwaInv, ListsAddUp
<1>3. QED
  BY <1>1, <1>2, ListInvInit, PTL DEF Spec
=============================================================================
