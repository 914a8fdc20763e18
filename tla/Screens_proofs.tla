--------------------------- MODULE Screens_proofs ---------------------------
(***************************************************************************)
(* Proofs about the screens of the PWA and what they are filled from, for  *)
(* any values of the constants.                                            *)
(*                                                                         *)
(* FsListing: whatever overtakes whatever, a field shows only listings of  *)
(* the directory it completes, and the hub remembers requests of the       *)
(* connected PWA only.                                                     *)
(*                                                                         *)
(* DaemonList: what the drawer shows is what the hub said last.            *)
(*                                                                         *)
(* ReadMarks: nothing counts as read that was never at the bottom of the   *)
(* screen, and what is stored is what was marked.                          *)
(*                                                                         *)
(* AgentProbe, FsRoots, SlashInventory: what the daemon reads of its       *)
(* machine is all of it and nothing besides.                               *)
(*                                                                         *)
(* Composer: picking a row in a text field leads one step down or ends.    *)
(***************************************************************************)
EXTENDS MCFsListing, DaemonList, ReadMarks, Folding, FiniteSetTheorems, TLAPS

-----------------------------------------------------------------------------
(* FsListing *)

Bounds == MaxRequests \in Nat /\ MaxChanges \in Nat /\ MaxLosses \in Nat

LEMMA BoundsAreNat == Bounds
BY BoundsAssumption DEF Bounds

Versions == 0..(MaxChanges + 1)
Listings == [status : {"ready"}, of : Paths, v : Versions]
Places == {"toHub", "toDaemon", "read", "back", "queued", "toPwa"}
Answered == {"back", "queued", "toPwa"}
Message == [id : 1..MaxRequests, path : Paths, at : Places,
            is : {Loading, Error} \cup Listings]

-----------------------------------------------------------------------------
(* The inductive invariant, in parts.                                      *)

CountInv ==
    /\ asked \in 0..MaxRequests /\ changes \in 0..MaxChanges /\ conns \in Nat \ {0}
    /\ dir \in [Paths -> 0..(changes + 1)]

\* No two fields own one request; a timer runs for a request of its field.
FieldInv ==
    /\ want \in [Fields -> Paths \cup {None}] /\ shown \in [Fields -> States]
    /\ active \in [Fields -> 0..asked] /\ timer \subseteq Fields
    /\ \A f \in Fields, g \in Fields : active[f] = active[g] /\ active[f] # 0 => f = g
    /\ \A f \in timer : active[f] # 0 /\ want[f] # None

\* The request that owns a field was made for the parent it has now.
ListenerInv ==
    /\ listener \subseteq [id : 1..asked, parent : Paths, f : Fields]
    /\ \A l \in listener : active[l.f] = l.id => want[l.f] = l.parent

CacheInv ==
    /\ cache \in [Paths -> {Nothing, Error} \cup Listings]
    /\ \A p \in Paths : cache[p].status = "ready" => cache[p].of = Real[p]

WellFormed(m) ==
    /\ m \in Message /\ m.id <= asked
    /\ m.at \in Answered <=> m.is # Loading
    /\ m.at = "read" => Real[m.path] = m.path
    /\ m.is.status = "ready" => m.is.of = Real[m.path]
    /\ m.at = "toHub" => pwa # 0

MsgInv ==
    /\ \A m \in msgs : WellFormed(m)
    /\ \A m \in msgs, n \in msgs : m.id = n.id => m = n

\* A frame is about the parent of the listener that waits for it; what the
\* debounce timer is about to ask has not been asked.
MatchInv ==
    /\ \A l \in listener, m \in msgs : l.id = m.id => Real[m.path] = Real[l.parent]
    /\ \A f \in timer :
        /\ \A l \in listener : l.id # active[f]
        /\ \A m \in msgs : m.id # active[f]

FieldsInv == FieldInv /\ ListenerInv /\ CacheInv /\ ShownIsOfParent
ListInv == CountInv /\ FieldsInv /\ MsgInv /\ MatchInv /\ PendingIsConnected

LEMMA StatesApart ==
    /\ Nothing # Error /\ Error # Loading /\ Nothing # Loading
    /\ \A s \in Listings : s # Nothing /\ s # Error /\ s # Loading
    /\ Nothing.status = "nothing" /\ Error.status = "error" /\ Loading.status = "loading"
    /\ Idle.status = "idle"
BY DEF Nothing, Error, Loading, Idle, State, Listings

LEMMA StatesAreStates ==
    /\ Nothing \in States /\ Error \in States /\ Loading \in States /\ Idle \in States
    /\ Listings \subseteq States
BY BoundsAreNat DEF Nothing, Error, Loading, Idle, State, Listings, States, Versions, Bounds

LEMMA ListInvImplies == ListInv => ListingsAreOwn
<1> SUFFICES ASSUME ListInv PROVE ListingsAreOwn
  OBVIOUS
<1>1. active \in [Fields -> 0..MaxRequests] /\ dir \in [Paths -> 0..(MaxChanges + 1)]
  BY BoundsAreNat DEF ListInv, CountInv, FieldsInv, FieldInv, Bounds
<1>2. /\ cache \in [Paths -> States]
      /\ \A p \in Paths : cache[p].status \in {"nothing", "error", "ready"}
  <2>1. \A s \in {Nothing, Error} \cup Listings :
          s \in States /\ s.status \in {"nothing", "error", "ready"}
    BY StatesApart, StatesAreStates DEF Listings
  <2> QED BY <2>1 DEF ListInv, FieldsInv, CacheInv
<1>3. \A m \in msgs : m.at \in {"back", "queued", "toPwa"} <=> m.is # Loading
  BY DEF ListInv, MsgInv, WellFormed, Answered
<1> QED BY <1>1, <1>2, <1>3 DEF ListInv, FieldsInv, FieldInv, MsgInv, TypeOK, ListingsAreOwn

LEMMA ListInvInit == Init => ListInv
<1> SUFFICES ASSUME Init PROVE ListInv
  OBVIOUS
<1>1. CountInv
  BY BoundsAreNat DEF Init, CountInv, Bounds
<1>2. FieldInv /\ ListenerInv
  BY BoundsAreNat, StatesAreStates DEF Init, FieldInv, ListenerInv, Bounds
<1>3. CacheInv /\ ShownIsOfParent
  BY StatesApart DEF Init, CacheInv, ShownIsOfParent
<1>4. MsgInv /\ MatchInv /\ PendingIsConnected
  BY DEF Init, MsgInv, MatchInv, PendingIsConnected
<1> QED BY <1>1, <1>2, <1>3, <1>4 DEF ListInv, FieldsInv

-----------------------------------------------------------------------------
(* What a part does not speak of leaves it alone.                          *)

LEMMA CountFrame ==
    ASSUME CountInv, UNCHANGED <<asked, changes, conns, dir>> PROVE CountInv'
BY DEF CountInv

LEMMA FieldsFrame ==
    ASSUME FieldsInv, UNCHANGED <<screen, asked>> PROVE FieldsInv'
BY DEF FieldsInv, FieldInv, ListenerInv, CacheInv, ShownIsOfParent, screen

LEMMA PendingFrame ==
    ASSUME PendingIsConnected, UNCHANGED <<pending, pwa>> PROVE PendingIsConnected'
BY DEF PendingIsConnected

\* A step that keeps some of the frames, moving or answering some, each about
\* the directory it was about.
LEMMA MovesKeep ==
    ASSUME ListInv, UNCHANGED <<listener, timer, active, asked>>,
           \A n \in msgs' : /\ WellFormed(n)'
                            /\ \E m \in msgs : n.id = m.id /\ Real[n.path] = Real[m.path],
           \A n \in msgs', o \in msgs' : n.id = o.id => n = o
    PROVE  MsgInv' /\ MatchInv'
<1>1. MsgInv'
  BY DEF MsgInv
<1>2. MatchInv'
  BY DEF ListInv, MatchInv
<1> QED BY <1>1, <1>2

\* One frame becomes another of the same request and directory.
LEMMA MoveKeeps ==
    ASSUME ListInv, NEW m \in msgs, NEW n, msgs' = (msgs \ {m}) \cup {n},
           n.id = m.id, Real[n.path] = Real[m.path], WellFormed(n)',
           UNCHANGED <<screen, asked, pwa>>
    PROVE  MsgInv' /\ MatchInv'
<1>1. UNCHANGED <<listener, timer, active, asked>>
  BY DEF screen
<1>2. \A o \in msgs : WellFormed(o)'
  BY DEF ListInv, MsgInv, WellFormed
<1>3. \A o \in msgs' : WellFormed(o)' /\ \E k \in msgs : o.id = k.id /\ Real[o.path] = Real[k.path]
  BY <1>2
<1>4. \A o \in msgs', k \in msgs' : o.id = k.id => o = k
  BY DEF ListInv, MsgInv
<1> QED BY <1>1, <1>3, <1>4, MovesKeep

\* Frames that are lost take nothing with them.
LEMMA LossKeeps ==
    ASSUME ListInv, msgs' \subseteq msgs, UNCHANGED <<screen, asked>>,
           \A n \in msgs' : n.at = "toHub" => pwa' # 0
    PROVE  MsgInv' /\ MatchInv'
<1>1. UNCHANGED <<listener, timer, active, asked>>
  BY DEF screen
<1>2. \A n \in msgs' : WellFormed(n)'
  BY DEF ListInv, MsgInv, WellFormed
<1>3. \A n \in msgs', o \in msgs' : n.id = o.id => n = o
  BY DEF ListInv, MsgInv
<1> QED BY <1>1, <1>2, <1>3, MovesKeep
-----------------------------------------------------------------------------
(* The hook.                                                               *)

LEMMA SeekKeeps ==
    ASSUME ListInv, NEW f \in Fields, NEW p \in Paths \cup {None}, Seek(f, p)
    PROVE  ListInv'
<1>1. /\ want' = [want EXCEPT ![f] = p] /\ listener' = {l \in listener : l.id # active[f]}
      /\ UNCHANGED <<cache, msgs, pending, pwa, dir, changes, conns>>
  BY DEF Seek
<1>2. PendingIsConnected'
  BY <1>1 DEF ListInv, PendingIsConnected
<1>3. asked \in Nat /\ MaxRequests \in Nat
  BY BoundsAreNat DEF ListInv, CountInv, Bounds
<1>4. CASE /\ Known(p) # Nothing /\ shown' = [shown EXCEPT ![f] = Known(p)]
           /\ active' = [active EXCEPT ![f] = 0] /\ timer' = timer \ {f} /\ UNCHANGED asked
  <2>1. CountInv' /\ CacheInv'
    BY <1>1, <1>4 DEF ListInv, FieldsInv, CountInv, CacheInv
  <2>2. /\ Known(p) \in States
        /\ Known(p).status = "ready" => p # None /\ Known(p).of = Real[p]
    BY StatesApart, StatesAreStates DEF Known, ListInv, FieldsInv, CacheInv
  <2>3. FieldInv'
    BY <1>1, <1>3, <1>4, <2>2 DEF ListInv, FieldsInv, FieldInv
  <2>4. ListenerInv'
    BY <1>1, <1>3, <1>4 DEF ListInv, FieldsInv, FieldInv, ListenerInv
  <2>5. ShownIsOfParent'
    BY <1>1, <1>4, <2>2 DEF ListInv, FieldsInv, FieldInv, ShownIsOfParent
  <2>6. MsgInv'
    BY <1>1, <1>4 DEF ListInv, MsgInv, WellFormed
  <2>7. MatchInv'
    BY <1>1, <1>4 DEF ListInv, FieldsInv, FieldInv, MatchInv
  <2> QED BY <1>2, <2>1, <2>3, <2>4, <2>5, <2>6, <2>7 DEF ListInv, FieldsInv
<1>5. CASE /\ Known(p) = Nothing /\ asked < MaxRequests /\ asked' = asked + 1
           /\ shown' = [shown EXCEPT ![f] = Loading]
           /\ active' = [active EXCEPT ![f] = asked'] /\ timer' = timer \cup {f}
  <2>1. CountInv' /\ CacheInv'
    BY <1>1, <1>3, <1>5 DEF ListInv, FieldsInv, CountInv, CacheInv
  <2>2. p # None
    BY <1>5, StatesApart DEF Known, Idle, Nothing, State
  <2>3. \A g \in Fields : active[g] \in 0..asked
    BY DEF ListInv, FieldsInv, FieldInv
  <2>4. FieldInv'
    BY <1>1, <1>3, <1>5, <2>2, <2>3, StatesAreStates DEF ListInv, FieldsInv, FieldInv
  <2>5. ListenerInv'
    BY <1>1, <1>3, <1>5 DEF ListInv, FieldsInv, FieldInv, ListenerInv
  <2>6. ShownIsOfParent'
    BY <1>1, <1>5, StatesApart DEF ListInv, FieldsInv, FieldInv, ShownIsOfParent
  <2>7. MsgInv'
    BY <1>1, <1>3, <1>5 DEF ListInv, MsgInv, WellFormed, Message
  <2>8. MatchInv'
    <3>1. \A m \in msgs : m.id # asked'
      BY <1>3, <1>5 DEF ListInv, MsgInv, WellFormed, Message
    <3>2. \A l \in listener : l.id # asked'
      BY <1>3, <1>5 DEF ListInv, FieldsInv, ListenerInv
    <3> QED BY <1>1, <1>5, <3>1, <3>2 DEF ListInv, FieldsInv, FieldInv, MatchInv
  <2> QED BY <1>2, <2>1, <2>4, <2>5, <2>6, <2>7, <2>8 DEF ListInv, FieldsInv
<1> QED BY <1>4, <1>5 DEF Seek

LEMMA DebouncedKeeps ==
    ASSUME ListInv, NEW f \in Fields, Debounced(f)
    PROVE  ListInv'
<1> DEFINE l == [id |-> active[f], parent |-> want[f], f |-> f]
           m == [id |-> active[f], path |-> want[f], at |-> "toHub", is |-> Loading]
<1>1. /\ f \in timer /\ timer' = timer \ {f} /\ listener' = listener \cup {l}
      /\ msgs' = IF pwa = 0 THEN msgs ELSE msgs \cup {m}
      /\ UNCHANGED <<want, shown, active, cache, pending, pwa, dir, asked, changes, conns>>
  BY DEF Debounced, count
<1>2. asked \in Nat /\ MaxRequests \in Nat /\ asked <= MaxRequests
  BY BoundsAreNat DEF ListInv, CountInv, Bounds
<1>3. active[f] \in 1..asked /\ want[f] \in Paths
  BY <1>1, <1>2 DEF ListInv, FieldsInv, FieldInv
<1>4. CountInv' /\ PendingIsConnected'
  BY <1>1, CountFrame, PendingFrame DEF ListInv
<1>5. FieldInv' /\ CacheInv' /\ ShownIsOfParent'
  BY <1>1 DEF ListInv, FieldsInv, FieldInv, CacheInv, ShownIsOfParent
<1>6. ListenerInv'
  BY <1>1, <1>3 DEF ListInv, FieldsInv, ListenerInv
<1>7. m.id = active[f] /\ m.path = want[f] /\ l.id = active[f] /\ l.parent = want[f]
  OBVIOUS
<1>8. pwa # 0 => WellFormed(m)
  BY <1>2, <1>3, StatesApart DEF WellFormed, Message, Places, Answered
<1>9. /\ \A k \in listener : k.id # active[f]
      /\ \A k \in msgs : k.id # active[f]
      /\ \A g \in timer \ {f} : active[g] # active[f]
  BY <1>1, <1>3 DEF ListInv, MatchInv, FieldsInv, FieldInv
<1> HIDE DEF l, m
<1>10. MsgInv'
  <2>1. \A k \in msgs' : WellFormed(k)
    BY <1>1, <1>8 DEF ListInv, MsgInv
  <2>2. \A k \in msgs' : WellFormed(k)'
    BY <1>1, <2>1 DEF WellFormed
  <2> QED BY <1>1, <1>7, <1>9, <2>2 DEF ListInv, MsgInv
<1>11. MatchInv'
  BY <1>1, <1>7, <1>9 DEF ListInv, MatchInv
<1> QED BY <1>4, <1>5, <1>6, <1>10, <1>11 DEF ListInv, FieldsInv

LEMMA ResultKeeps ==
    ASSUME ListInv, NEW m \in msgs, OnResult(m)
    PROVE  ListInv'
<1>1. /\ m.at = "toPwa" /\ msgs' = msgs \ {m}
      /\ UNCHANGED <<want, active, timer, listener, pending, pwa, asked, changes, conns, dir>>
  BY DEF OnResult, count
<1>2. CountInv' /\ PendingIsConnected'
  BY <1>1, CountFrame, PendingFrame DEF ListInv
<1>3. MsgInv' /\ MatchInv'
  <2>1. \A n \in msgs' : WellFormed(n)'
    BY <1>1 DEF ListInv, MsgInv, WellFormed
  <2> QED BY <1>1, <2>1, MovesKeep DEF ListInv, MsgInv
<1>4. WellFormed(m)
  BY DEF ListInv, MsgInv
<1>5. m.is \in {Error} \cup Listings /\ m.is \in States
  BY <1>1, <1>4, StatesAreStates DEF WellFormed, Message, Answered
<1>6. FieldsInv'
  <2>1. CASE UNCHANGED <<cache, shown>>
    BY <1>1, <2>1, FieldsFrame DEF screen, ListInv
  <2>2. ASSUME NEW l \in listener, l.id = m.id, cache' = [cache EXCEPT ![Key(l, m)] = m.is],
               shown' = IF active[l.f] = l.id THEN [shown EXCEPT ![l.f] = m.is] ELSE shown
        PROVE  FieldsInv'
    <3>1. l.parent \in Paths /\ l.f \in Fields /\ Real[m.path] = Real[l.parent]
      BY <2>2 DEF ListInv, FieldsInv, ListenerInv, MatchInv
    <3>2. m.is.status = "ready" => m.is.of \in Paths /\ m.is.of = Real[l.parent]
      BY <1>4, <1>5, <3>1, StatesApart DEF WellFormed, Listings
    <3>3. m.is.status = "ready" => Real[m.is.of] = m.is.of
      BY <3>1, <3>2, PathsAssumption
    <3>4. CacheInv'
      BY <1>5, <2>2, <3>1, <3>2, <3>3 DEF Key, ListInv, FieldsInv, CacheInv
    <3>5. FieldInv'
      BY <1>1, <1>5, <2>2, <3>1 DEF ListInv, FieldsInv, FieldInv
    <3>6. ListenerInv'
      BY <1>1 DEF ListInv, FieldsInv, ListenerInv
    <3>7. active[l.f] = l.id => want[l.f] = l.parent /\ l.parent # None
      BY <2>2, <3>1, PathsAssumption DEF ListInv, FieldsInv, ListenerInv
    <3>8. ShownIsOfParent'
      BY <1>1, <2>2, <3>1, <3>2, <3>7 DEF ListInv, FieldsInv, FieldInv, ShownIsOfParent
    <3> QED BY <3>4, <3>5, <3>6, <3>8 DEF FieldsInv
  <2> QED BY <2>1, <2>2 DEF OnResult
<1> QED BY <1>2, <1>3, <1>6 DEF ListInv

LEMMA ExpiresKeeps ==
    ASSUME ListInv, NEW p \in Paths, CacheExpires(p)
    PROVE  ListInv'
<1>1. /\ cache' = [cache EXCEPT ![p] = Nothing]
      /\ UNCHANGED <<want, shown, active, timer, listener, msgs, pending, pwa, dir,
                     asked, changes, conns>>
  BY DEF CacheExpires, count
<1>2. CountInv' /\ PendingIsConnected'
  BY <1>1, CountFrame, PendingFrame DEF ListInv
<1>3. FieldsInv'
  BY <1>1, StatesApart DEF ListInv, FieldsInv, FieldInv, ListenerInv, CacheInv, ShownIsOfParent
<1>4. MsgInv' /\ MatchInv'
  BY <1>1 DEF ListInv, MsgInv, MatchInv, WellFormed
<1> QED BY <1>2, <1>3, <1>4 DEF ListInv

-----------------------------------------------------------------------------
(* The hub and the daemon.                                                 *)

LEMMA RequestKeeps ==
    ASSUME ListInv, NEW m \in msgs, OnPwaFsList(m)
    PROVE  ListInv'
<1>1. m.at = "toHub" /\ UNCHANGED <<screen, pwa, dir, asked, changes, conns>>
  BY DEF OnPwaFsList, count
<1>2. WellFormed(m) /\ m.is = Loading /\ pwa # 0
  BY <1>1 DEF ListInv, MsgInv, WellFormed, Answered
<1>3. CountInv' /\ FieldsInv'
  BY <1>1, CountFrame, FieldsFrame DEF ListInv
<1>4. PendingIsConnected'
  BY <1>1, <1>2 DEF ListInv, PendingIsConnected, OnPwaFsList
<1>5. CASE link
  <2> DEFINE n == [m EXCEPT !.at = "toDaemon"]
  <2>1. msgs' = (msgs \ {m}) \cup {n}
    BY <1>5 DEF OnPwaFsList, At
  <2>2. n.id = m.id /\ n.path = m.path /\ WellFormed(n)'
    BY <1>1, <1>2, StatesApart DEF WellFormed, Message, Places, Answered
  <2> HIDE DEF n
  <2> QED BY <1>1, <1>3, <1>4, <2>1, <2>2, MoveKeeps DEF ListInv
<1>6. CASE ~link
  <2> DEFINE n == [m EXCEPT !.at = "toPwa", !.is = Error]
  <2>1. msgs' = (msgs \ {m}) \cup {n}
    BY <1>6 DEF OnPwaFsList
  <2>2. n.id = m.id /\ n.path = m.path /\ WellFormed(n)'
    BY <1>1, <1>2, StatesApart DEF WellFormed, Message, Places, Answered
  <2> HIDE DEF n
  <2> QED BY <1>1, <1>3, <1>4, <2>1, <2>2, MoveKeeps DEF ListInv
<1> QED BY <1>5, <1>6

LEMMA ReturnKeeps ==
    ASSUME ListInv, NEW m \in msgs, OnFsListResult(m)
    PROVE  ListInv'
<1>1. /\ m.at = "back" /\ pending' \subseteq pending
      /\ UNCHANGED <<screen, pwa, dir, asked, changes, conns>>
  BY DEF OnFsListResult, count
<1>2. WellFormed(m)
  BY DEF ListInv, MsgInv
<1>3. CountInv' /\ FieldsInv' /\ PendingIsConnected'
  BY <1>1, CountFrame, FieldsFrame DEF ListInv, PendingIsConnected
<1>4. CASE msgs' = msgs \ {m}
  <2>1. \A n \in msgs' : n.at = "toHub" => pwa' # 0
    BY <1>1, <1>4 DEF ListInv, MsgInv, WellFormed
  <2> QED BY <1>1, <1>3, <1>4, <2>1, LossKeeps DEF ListInv
<1>5. CASE At(m, "toPwa")
  <2> DEFINE n == [m EXCEPT !.at = "toPwa"]
  <2>1. msgs' = (msgs \ {m}) \cup {n}
    BY <1>5 DEF At
  <2>2. n.id = m.id /\ n.path = m.path /\ WellFormed(n)'
    BY <1>1, <1>2 DEF WellFormed, Message, Places, Answered
  <2> HIDE DEF n
  <2> QED BY <1>1, <1>3, <2>1, <2>2, MoveKeeps DEF ListInv
<1> QED BY <1>4, <1>5 DEF OnFsListResult

\* The daemon's answer to a request it works on.
LEMMA ReplyKeeps ==
    ASSUME ListInv, NEW m \in msgs, NEW is \in {Error} \cup Listings, Reply(m, is),
           is.status = "ready" => is.of = Real[m.path],
           UNCHANGED <<screen, asked, pwa>>
    PROVE  MsgInv' /\ MatchInv'
<1> PICK at \in {"back", "queued"} : msgs' = (msgs \ {m}) \cup {[m EXCEPT !.at = at, !.is = is]}
  BY DEF Reply
<1> DEFINE n == [m EXCEPT !.at = at, !.is = is]
<1>1. msgs' = (msgs \ {m}) \cup {n}
  OBVIOUS
<1>2. WellFormed(m)
  BY DEF ListInv, MsgInv
<1>3. n.id = m.id /\ n.path = m.path /\ WellFormed(n)'
  BY <1>2, StatesApart DEF WellFormed, Message, Places, Answered
<1> HIDE DEF n
<1> QED BY <1>1, <1>3, MoveKeeps

LEMMA ResolveKeeps ==
    ASSUME ListInv, NEW m \in msgs, Resolve(m)
    PROVE  ListInv'
<1> DEFINE q == Real[m.path]
           n == [m EXCEPT !.at = "read", !.path = q]
<1>1. m.at = "toDaemon" /\ UNCHANGED <<screen, pending, pwa, dir, asked, changes, conns>>
  BY DEF Resolve, count
<1>2. CountInv' /\ FieldsInv' /\ PendingIsConnected'
  BY <1>1, CountFrame, FieldsFrame, PendingFrame DEF ListInv
<1>3. WellFormed(m) /\ m.path \in Paths
  BY DEF ListInv, MsgInv, WellFormed, Message
<1>4. q \in Paths /\ Real[q] = q
  BY <1>3, PathsAssumption
<1>5. CASE Reply(m, Error)
  BY <1>1, <1>2, <1>5, ReplyKeeps, StatesApart DEF ListInv
<1>6. CASE msgs' = (msgs \ {m}) \cup {n}
  <2>1. n.id = m.id /\ n.path = q /\ n.at = "read" /\ n.is = m.is /\ n \in Message
    BY <1>3, <1>4 DEF WellFormed, Message, Places
  <2>2. m.is = Loading
    BY <1>1, <1>3 DEF WellFormed, Answered
  <2>3. WellFormed(n)'
    BY <1>1, <1>3, <1>4, <2>1, <2>2, StatesApart DEF WellFormed, Answered
  <2> HIDE DEF n
  <2> QED BY <1>1, <1>2, <1>4, <1>6, <2>1, <2>3, MoveKeeps DEF ListInv
<1> QED BY <1>5, <1>6 DEF Resolve

LEMMA ReadKeeps ==
    ASSUME ListInv, NEW m \in msgs, ReadDir(m)
    PROVE  ListInv'
<1> DEFINE is == IF dir[m.path] = 0 THEN Error ELSE State("ready", m.path, dir[m.path])
<1>1. /\ m.at = "read" /\ Reply(m, is)
      /\ UNCHANGED <<screen, pending, pwa, dir, asked, changes, conns>>
  BY DEF ReadDir, count
<1>2. CountInv' /\ FieldsInv' /\ PendingIsConnected'
  BY <1>1, CountFrame, FieldsFrame, PendingFrame DEF ListInv
<1>3. m.path \in Paths /\ Real[m.path] = m.path
  BY <1>1 DEF ListInv, MsgInv, WellFormed, Message
<1>4. dir[m.path] \in Versions
  BY <1>3, BoundsAreNat DEF ListInv, CountInv, Versions, Bounds
<1>5. is \in {Error} \cup Listings /\ (is.status = "ready" => is.of = Real[m.path])
  BY <1>3, <1>4, StatesApart DEF State, Listings
<1> HIDE DEF is
<1> QED BY <1>1, <1>2, <1>5, ReplyKeeps DEF ListInv

LEMMA ChangeKeeps ==
    ASSUME ListInv, NEW p \in Paths, Change(p)
    PROVE  ListInv'
<1>1. /\ changes < MaxChanges /\ changes' = changes + 1
      /\ UNCHANGED <<screen, msgs, pending, pwa, asked, conns>>
  BY DEF Change
<1>2. PICK v \in {0, dir[p] + 1} : dir' = [dir EXCEPT ![p] = v]
  BY DEF Change
<1>3. CountInv'
  BY <1>1, <1>2, BoundsAreNat DEF ListInv, CountInv, Bounds
<1>4. FieldsInv' /\ PendingIsConnected'
  BY <1>1, FieldsFrame, PendingFrame DEF ListInv
<1>5. MsgInv' /\ MatchInv'
  BY <1>1, LossKeeps DEF ListInv, MsgInv, WellFormed
<1> QED BY <1>3, <1>4, <1>5 DEF ListInv

-----------------------------------------------------------------------------
(* Connections.                                                            *)

LEMMA PwaKeeps ==
    ASSUME ListInv, PwaDrops \/ PwaConnects
    PROVE  ListInv'
<1>1. UNCHANGED <<screen, dir, asked, changes>>
  BY DEF PwaDrops, PwaConnects
<1>2. FieldsInv'
  BY <1>1, FieldsFrame DEF ListInv
<1>3. CASE PwaDrops
  <2>1. /\ pwa' = 0 /\ pending' = {e \in pending : e.pwa # pwa} /\ UNCHANGED conns
        /\ msgs' = {m \in msgs : m.at \notin {"toHub", "toPwa"}}
    BY <1>3 DEF PwaDrops
  <2>2. CountInv'
    BY <1>1, <2>1, CountFrame DEF ListInv
  <2>3. PendingIsConnected'
    BY <2>1 DEF ListInv, PendingIsConnected
  <2>4. MsgInv' /\ MatchInv'
    BY <1>1, <2>1, LossKeeps
  <2> QED BY <1>2, <2>2, <2>3, <2>4 DEF ListInv
<1>4. CASE PwaConnects
  <2>1. /\ pwa = 0 /\ conns' = conns + 1 /\ pwa' = conns' /\ UNCHANGED <<msgs, pending>>
    BY <1>4 DEF PwaConnects
  <2>2. CountInv' /\ pwa' # 0
    BY <1>1, <2>1 DEF ListInv, CountInv
  <2>3. PendingIsConnected'
    BY <2>1 DEF ListInv, PendingIsConnected
  <2>4. MsgInv' /\ MatchInv'
    BY <1>1, <2>1, <2>2, LossKeeps
  <2> QED BY <1>2, <2>2, <2>3, <2>4 DEF ListInv
<1> QED BY <1>3, <1>4

LEMMA LinkKeeps ==
    ASSUME ListInv, LinkDrops \/ LinkComes
    PROVE  ListInv'
<1>1. UNCHANGED <<screen, pending, pwa, dir, asked, changes, conns>>
  BY DEF LinkDrops, LinkComes, count
<1>2. CountInv' /\ FieldsInv' /\ PendingIsConnected'
  BY <1>1, CountFrame, FieldsFrame, PendingFrame DEF ListInv
<1>3. CASE LinkDrops
  <2>1. msgs' \subseteq msgs
    BY <1>3 DEF LinkDrops
  <2>2. \A n \in msgs' : n.at = "toHub" => pwa' # 0
    BY <1>1, <2>1 DEF ListInv, MsgInv, WellFormed
  <2> QED BY <1>1, <1>2, <2>1, <2>2, LossKeeps DEF ListInv
<1>4. CASE LinkComes
  <2> DEFINE Sent(m) == [m EXCEPT !.at = IF m.at = "queued" THEN "back" ELSE m.at]
  <2>1. msgs' = {Sent(m) : m \in msgs}
    BY <1>4 DEF LinkComes
  <2>2. ASSUME NEW m \in msgs
        PROVE  Sent(m).id = m.id /\ Sent(m).path = m.path /\ WellFormed(Sent(m))'
    <3>1. WellFormed(m)
      BY DEF ListInv, MsgInv
    <3>2. UNCHANGED <<asked, pwa>>
      BY <1>1
    <3>3. CASE m.at = "queued"
      <4>1. Sent(m) = [m EXCEPT !.at = "back"]
        BY <3>3
      <4> QED BY <3>1, <3>2, <3>3, <4>1 DEF WellFormed, Message, Places, Answered
    <3>4. CASE m.at # "queued"
      <4>1. Sent(m) = m
        BY <3>1, <3>4 DEF WellFormed, Message
      <4> QED BY <3>1, <3>2, <4>1 DEF WellFormed
    <3> QED BY <3>3, <3>4
  <2> HIDE DEF Sent
  <2>3. \A n \in msgs' : WellFormed(n)' /\ \E m \in msgs : n.id = m.id /\ Real[n.path] = Real[m.path]
    BY <2>1, <2>2
  <2>4. \A n \in msgs', o \in msgs' : n.id = o.id => n = o
    BY <2>1, <2>2 DEF ListInv, MsgInv
  <2>5. UNCHANGED <<listener, timer, active, asked>>
    BY <1>1 DEF screen
  <2> QED BY <1>2, <2>3, <2>4, <2>5, MovesKeep DEF ListInv
<1> QED BY <1>3, <1>4

LEMMA StutterKeeps ==
    ASSUME ListInv, UNCHANGED vars
    PROVE  ListInv'
<1>1. UNCHANGED <<screen, msgs, pending, pwa, dir, asked, changes, conns>>
  BY DEF vars, count
<1>2. CountInv' /\ FieldsInv' /\ PendingIsConnected'
  BY <1>1, CountFrame, FieldsFrame, PendingFrame DEF ListInv
<1>3. MsgInv' /\ MatchInv'
  BY <1>1, LossKeeps DEF ListInv, MsgInv, WellFormed
<1> QED BY <1>2, <1>3 DEF ListInv

LEMMA ListInvStep == ListInv /\ [Next]_vars => ListInv'
<1> SUFFICES ASSUME ListInv, [Next]_vars PROVE ListInv'
  OBVIOUS
<1>1. ASSUME NEW f \in Fields, NEW p \in Paths \cup {None}, Seek(f, p) PROVE ListInv'
  BY <1>1, SeekKeeps
<1>2. ASSUME NEW f \in Fields, Debounced(f) PROVE ListInv'
  BY <1>2, DebouncedKeeps
<1>3. ASSUME NEW m \in msgs, OnResult(m) PROVE ListInv'
  BY <1>3, ResultKeeps
<1>4. ASSUME NEW m \in msgs, OnPwaFsList(m) PROVE ListInv'
  BY <1>4, RequestKeeps
<1>5. ASSUME NEW m \in msgs, OnFsListResult(m) PROVE ListInv'
  BY <1>5, ReturnKeeps
<1>6. ASSUME NEW m \in msgs, Resolve(m) PROVE ListInv'
  BY <1>6, ResolveKeeps
<1>7. ASSUME NEW m \in msgs, ReadDir(m) PROVE ListInv'
  BY <1>7, ReadKeeps
<1>8. ASSUME NEW p \in Paths, CacheExpires(p) PROVE ListInv'
  BY <1>8, ExpiresKeeps
<1>9. ASSUME NEW p \in Paths, Change(p) PROVE ListInv'
  BY <1>9, ChangeKeeps
<1>10. CASE PwaDrops \/ PwaConnects
  BY <1>10, PwaKeeps
<1>11. CASE LinkDrops \/ LinkComes
  BY <1>11, LinkKeeps
<1>12. CASE UNCHANGED vars
  BY <1>12, StutterKeeps
<1> QED BY <1>1, <1>2, <1>3, <1>4, <1>5, <1>6, <1>7, <1>8, <1>9, <1>10, <1>11, <1>12
        DEF Next, Handlers

\* Whatever overtakes whatever, a field shows only listings of the directory
\* it completes (useFsList), and the hub remembers requests of the connected
\* PWA only (onPwaDisconnect).
THEOREM ListingsCorrect == Spec => []ListingsAreOwn
BY ListInvInit, ListInvStep, ListInvImplies, PTL DEF Spec

-----------------------------------------------------------------------------
(* DaemonList *)

(* The inductive invariant, in parts by the variables they speak of.       *)

\* A daemon with a connection is paired and known by the name in the table.
NamesInv ==
    /\ name \in [Daemons -> Names] /\ row \in [Daemons -> {"none", "paired", "revoked"}]
    /\ known \in [Daemons -> Names] /\ linked \subseteq paired
    /\ KnownNameIsStored
    /\ \A q \in saves :
        /\ q = [op |-> q.op, id |-> q.id, name |-> q.name, at |-> q.at]
        /\ q.id \in Daemons /\ q.name \in Names

LoadsInv ==
    /\ list.status \in {"loading", "error", "ready"}
    /\ loads = [s \in Slots |-> loads[s]]
    /\ \A s \in Slots : loads[s].at \in {"free", "sent", "listed"}

\* At most one request for a code has no answer; it is about the code issued
\* last, and no code is shown beside it.
OneCall ==
    /\ \A c, e \in calls : c = e
    /\ \A c \in calls : c = [n |-> c.n, code |-> c.code] /\ c.code \in {0, issued}
    /\ ~issuing => calls = {}
    /\ box.status \in {"idle", "issuing", "active"}
    /\ box.status = "active" <=> box.code # 0
    /\ box.status = "active" => calls = {} /\ box.code = issued

\* A code is issued for a call, and every call is an event.
Counted ==
    /\ events \in 0 .. MaxEvents /\ issued \in 0 .. events
    /\ \A c \in calls : c.code = 0 => issued < events
    /\ codes \subseteq 1 .. issued

CodesInv == OneCall /\ Counted

DrawerInv == NamesInv /\ LoadsInv /\ CodesInv

\* The invariant is strong enough.
LEMMA DrawerInvImplies == DrawerInv => DrawerIsTrue
<1> SUFFICES ASSUME DrawerInv PROVE DrawerIsTrue
  OBVIOUS
<1>1. codes \subseteq 1 .. MaxEvents /\ issued \in 0 .. MaxEvents
  BY DrawerBounds DEF DrawerInv, CodesInv, Counted
<1>2. DrawerTypeOK
  BY <1>1 DEF DrawerInv, NamesInv, LoadsInv, CodesInv, OneCall, DrawerTypeOK
<1> QED BY <1>2 DEF DrawerInv, NamesInv, CodesInv, OneCall, DrawerIsTrue, LastCodeIsShown

LEMMA DrawerInvInit == DrawerInit => DrawerInv
<1> SUFFICES ASSUME DrawerInit PROVE DrawerInv
  OBVIOUS
<1>1. NamesInv
  BY NamesAssumption DEF DrawerInit, NamesInv, KnownNameIsStored
<1>2. LoadsInv
  BY DEF DrawerInit, LoadsInv, Resource, Free, Load
<1>3. OneCall
  BY DEF DrawerInit, OneCall, Box
<1>4. Counted
  BY DrawerBounds DEF DrawerInit, Counted
<1> QED BY <1>1, <1>2, <1>3, <1>4 DEF DrawerInv, CodesInv

-----------------------------------------------------------------------------
(* The steps.                                                              *)

\* A load that starts, is listed, arrives or fails keeps the loads well formed.
LEMMA LoadsKept ==
    ASSUME LoadsInv, NEW s \in Slots,
           StartLoad(s) \/ Lists(s) \/ Arrives(s) \/ LoadFails(s)
    PROVE  LoadsInv'
<1>1. CASE StartLoad(s)
  BY <1>1 DEF LoadsInv, StartLoad, Resource, Load
<1>2. CASE Lists(s)
  BY <1>2 DEF LoadsInv, Lists, Load
<1>3. CASE Arrives(s)
  BY <1>3 DEF LoadsInv, Arrives, Resource, Free, Load
<1>4. CASE LoadFails(s)
  BY <1>4 DEF LoadsInv, LoadFails, Resource, Free, Load
<1> QED BY <1>1, <1>2, <1>3, <1>4

\* More requests in `saves`, or fewer, change nothing of what is known.
LEMMA NamesKept ==
    ASSUME NamesInv, UNCHANGED <<name, row, known, linked>>, saves' \subseteq saves
    PROVE  NamesInv'
BY DEF NamesInv, KnownNameIsStored, paired

LEMMA AskKeepsNames ==
    ASSUME NamesInv, NEW op, NEW d \in Daemons, NEW n \in Names, Ask(op, d, n)
    PROVE  NamesInv'
BY DEF NamesInv, Ask, Save, KnownNameIsStored, paired, hub

\* A request moves on; the requests beside it stay.
LEMMA MovesKeepsShape ==
    ASSUME NamesInv, NEW q \in saves, NEW at, Moves(q, at)
    PROVE  \A r \in saves' :
             /\ r = [op |-> r.op, id |-> r.id, name |-> r.name, at |-> r.at]
             /\ r.id \in Daemons /\ r.name \in Names
BY DEF NamesInv, Moves

\* A rename changes the name in the table and the one that is known in one step.
LEMMA RenameKeepsNames ==
    ASSUME NamesInv, NEW q \in saves, OnRename(q)
    PROVE  NamesInv'
<1>1. q.id \in Daemons /\ q.name \in Names
  BY DEF NamesInv
<1>2. PICK at : Moves(q, at)
  BY DEF OnRename
<1>3. /\ name' \in [Daemons -> Names] /\ known' \in [Daemons -> Names]
      /\ row' = row /\ linked' = linked
  BY <1>1 DEF NamesInv, OnRename
<1>4. KnownNameIsStored'
  BY <1>1 DEF NamesInv, OnRename, KnownNameIsStored, paired
<1> QED BY <1>2, <1>3, <1>4, MovesKeepsShape DEF NamesInv, paired

\* A revocation takes the connection along.
LEMMA RevokeKeepsNames ==
    ASSUME NamesInv, NEW q \in saves, OnRevoke(q)
    PROVE  NamesInv'
<1>1. q.id \in Daemons
  BY DEF NamesInv
<1>2. PICK at : Moves(q, at)
  BY DEF OnRevoke
<1>3. /\ row' \in [Daemons -> {"none", "paired", "revoked"}]
      /\ known' \in [Daemons -> Names] /\ name' = name
  BY <1>1, NamesAssumption DEF NamesInv, OnRevoke
<1>4. linked' \subseteq paired'
  BY <1>1 DEF NamesInv, OnRevoke, paired
<1>5. KnownNameIsStored'
  BY <1>1 DEF NamesInv, OnRevoke, KnownNameIsStored, paired
<1> QED BY <1>2, <1>3, <1>4, <1>5, MovesKeepsShape DEF NamesInv

\* A daemon that connects is known by its name; one that leaves or pairs is not known.
LEMMA LinksKeepNames ==
    ASSUME NamesInv, NEW d \in Daemons, Link(d) \/ Unlink(d) \/ \E c \in codes : Pair(d, c)
    PROVE  NamesInv'
<1>1. CASE Link(d)
  BY <1>1 DEF NamesInv, Link, KnownNameIsStored, paired
<1>2. CASE Unlink(d)
  BY <1>2, NamesAssumption DEF NamesInv, Unlink, KnownNameIsStored, paired
<1>3. CASE \E c \in codes : Pair(d, c)
  BY <1>3 DEF NamesInv, Pair, KnownNameIsStored, paired
<1> QED BY <1>1, <1>2, <1>3

\* Events are counted, codes expire or are used, the box is cleared.
LEMMA CodesKept ==
    ASSUME CodesInv, codes' \subseteq codes, UNCHANGED <<issuing, calls, issued>>,
           UNCHANGED box \/ box' = Box("idle", 0),
           UNCHANGED events \/ Counts
    PROVE  CodesInv'
<1>1. OneCall'
  BY DEF CodesInv, OneCall, Box
<1>2. events' \in 0 .. MaxEvents /\ events <= events'
  BY DrawerBounds DEF CodesInv, Counted, Counts
<1>3. Counted'
  BY <1>2, DrawerBounds DEF CodesInv, Counted
<1> QED BY <1>1, <1>3 DEF CodesInv

\* A call is made only while there is none.
LEMMA GenerateKeepsCodes ==
    ASSUME CodesInv, Generate
    PROVE  CodesInv'
<1>1. calls = {}
  BY DEF CodesInv, OneCall, Generate
<1>2. calls' = {[n |-> issued + Cardinality(calls), code |-> 0]}
  BY <1>1 DEF Generate
<1>3. OneCall'
  BY <1>2 DEF CodesInv, OneCall, Generate, Box
<1>4. events' = events + 1 /\ events' \in 0 .. MaxEvents
  BY DrawerBounds DEF CodesInv, Counted, Generate, Counts
<1>5. issued' = issued /\ codes' = codes
  BY DEF Generate, hub
<1>6. Counted'
  BY <1>4, <1>5, DrawerBounds DEF CodesInv, Counted
<1> QED BY <1>3, <1>6 DEF CodesInv

\* The code issued is the one of the only call, and the last.
LEMMA IssueKeepsCodes ==
    ASSUME CodesInv, NEW c \in calls, Issue(c)
    PROVE  CodesInv'
<1>1. /\ c.code = 0 /\ issued' = issued + 1 /\ codes' = codes \cup {issued'}
      /\ calls' = (calls \ {c}) \cup {[c EXCEPT !.code = issued']}
      /\ UNCHANGED <<box, issuing, events>>
  BY DEF Issue
<1>2. calls' = {[n |-> c.n, code |-> issued']}
  BY <1>1 DEF CodesInv, OneCall
<1>3. OneCall'
  BY <1>1, <1>2 DEF CodesInv, OneCall
<1>4. issued < events /\ issued' \in 1 .. events' /\ issued' # 0
  BY <1>1, DrawerBounds DEF CodesInv, Counted
<1>5. Counted'
  BY <1>1, <1>2, <1>4, DrawerBounds DEF CodesInv, Counted
<1> QED BY <1>3, <1>5 DEF CodesInv

\* With its answer the only call is gone.
LEMMA AnswerKeepsCodes ==
    ASSUME CodesInv, NEW c \in calls, Issued(c) \/ IssueFails(c)
    PROVE  CodesInv'
<1>1. calls' = {}
  BY DEF CodesInv, OneCall, Issued, IssueFails
<1>2. UNCHANGED <<codes, issued>>
  BY DEF Issued, IssueFails, hub
<1>3. OneCall'
  BY <1>1, <1>2 DEF CodesInv, OneCall, Issued, IssueFails, Box
<1>4. events' \in 0 .. MaxEvents /\ events <= events'
  BY DrawerBounds DEF CodesInv, Counted, Issued, IssueFails, Counts
<1>5. Counted'
  BY <1>1, <1>2, <1>4, DrawerBounds DEF CodesInv, Counted
<1> QED BY <1>3, <1>5 DEF CodesInv

-----------------------------------------------------------------------------

\* One step per action: which part it touches, and that the others stay.
LEMMA DrawerInvStep == DrawerInv /\ [DrawerNext]_drawerVars => DrawerInv'
<1> SUFFICES ASSUME DrawerInv, [DrawerNext]_drawerVars PROVE DrawerInv'
  OBVIOUS
<1> USE DEF DrawerInv
<1>1. CASE Open \/ Poll
  <2>1. PICK s \in Slots : StartLoad(s)
    BY <1>1 DEF Open, Poll
  <2>2. UNCHANGED <<hub, saves, pairing, events>>
    BY <1>1 DEF Open, Poll
  <2> QED BY <2>1, <2>2, LoadsKept, NamesKept, CodesKept DEF hub, pairing
<1>2. CASE Close \/ Render \/ UNCHANGED drawerVars
  <2>1. UNCHANGED <<hub, saves, list, loads, box, issuing, calls, issued, events>>
    BY <1>2 DEF Close, Render, drawerVars, pairing
  <2>2. LoadsInv'
    BY <2>1 DEF LoadsInv
  <2> QED BY <2>1, <2>2, NamesKept, CodesKept DEF hub
<1>3. ASSUME NEW op, NEW d \in Daemons, NEW n \in Names, Ask(op, d, n) PROVE DrawerInv'
  <2>1. UNCHANGED <<hub, list, loads, pairing>> /\ Counts
    BY <1>3 DEF Ask
  <2>2. LoadsInv'
    BY <2>1 DEF LoadsInv
  <2> QED BY <1>3, <2>1, <2>2, AskKeepsNames, CodesKept DEF hub, pairing
<1>4. CASE Generate
  <2>1. UNCHANGED <<hub, list, loads, saves>>
    BY <1>4 DEF Generate
  <2>2. LoadsInv'
    BY <2>1 DEF LoadsInv
  <2> QED BY <1>4, <2>1, <2>2, NamesKept, GenerateKeepsCodes DEF hub
<1>5. CASE Cancel
  <2>1. UNCHANGED <<hub, list, loads, saves, issuing, calls, issued, events>> /\ box' = Box("idle", 0)
    BY <1>5 DEF Cancel
  <2>2. LoadsInv'
    BY <2>1 DEF LoadsInv
  <2> QED BY <2>1, <2>2, NamesKept, CodesKept DEF hub
<1>6. CASE PairingTick
  <2>1. PICK s \in Slots : StartLoad(s)
    BY <1>6 DEF PairingTick
  <2>2. UNCHANGED <<hub, saves, issuing, calls, issued, events>> /\ box' = Box("idle", 0)
    BY <1>6 DEF PairingTick
  <2> QED BY <2>1, <2>2, LoadsKept, NamesKept, CodesKept DEF hub
<1>7. ASSUME NEW s \in Slots, AnswerLoad(s) \/ LoadFails(s) PROVE DrawerInv'
  <2>1. UNCHANGED <<hub, saves, pairing>> /\ (UNCHANGED events \/ Counts)
    BY <1>7 DEF AnswerLoad, Lists, Arrives, LoadFails
  <2> QED BY <1>7, <2>1, LoadsKept, NamesKept, CodesKept DEF AnswerLoad, hub, pairing
<1>8. ASSUME NEW q \in saves, OnRename(q) \/ OnRevoke(q) PROVE DrawerInv'
  <2>1. UNCHANGED <<codes, list, loads, pairing, events>>
    BY <1>8 DEF OnRename, OnRevoke
  <2>2. LoadsInv'
    BY <2>1 DEF LoadsInv
  <2> QED BY <1>8, <2>1, <2>2, RenameKeepsNames, RevokeKeepsNames, CodesKept DEF pairing
<1>9. ASSUME NEW q \in saves, SaveDone(q) PROVE DrawerInv'
  <2>1. PICK s \in Slots : StartLoad(s)
    BY <1>9 DEF SaveDone
  <2>2. UNCHANGED <<hub, pairing, events>> /\ saves' \subseteq saves
    BY <1>9 DEF SaveDone
  <2> QED BY <2>1, <2>2, LoadsKept, NamesKept, CodesKept DEF hub, pairing
<1>10. ASSUME NEW q \in saves, SaveFails(q) PROVE DrawerInv'
  <2>1. UNCHANGED <<hub, list, loads, pairing>> /\ saves' \subseteq saves
        /\ (UNCHANGED events \/ Counts)
    BY <1>10 DEF SaveFails
  <2>2. LoadsInv'
    BY <2>1 DEF LoadsInv
  <2> QED BY <2>1, <2>2, NamesKept, CodesKept DEF hub, pairing
<1>11. ASSUME NEW c \in calls, AnswerCall(c) \/ IssueFails(c) PROVE DrawerInv'
  <2>1. UNCHANGED <<name, row, known, linked, list, loads, saves>>
    BY <1>11 DEF AnswerCall, Issue, Issued, IssueFails, hub
  <2>2. LoadsInv'
    BY <2>1 DEF LoadsInv
  <2> QED BY <1>11, <2>1, <2>2, NamesKept, IssueKeepsCodes, AnswerKeepsCodes DEF AnswerCall
<1>12. ASSUME NEW d \in Daemons, Link(d) \/ Unlink(d) \/ \E c \in codes : Pair(d, c)
       PROVE DrawerInv'
  <2>1. UNCHANGED <<list, loads, pairing>> /\ codes' \subseteq codes /\ Counts
    BY <1>12 DEF Link, Unlink, Pair
  <2>2. LoadsInv'
    BY <2>1 DEF LoadsInv
  <2> QED BY <1>12, <2>1, <2>2, LinksKeepNames, CodesKept DEF pairing
<1>13. ASSUME NEW c \in codes, CodeExpires(c) PROVE DrawerInv'
  <2>1. UNCHANGED <<name, row, known, linked, list, loads, saves, pairing, events>>
        /\ codes' \subseteq codes
    BY <1>13 DEF CodeExpires
  <2>2. LoadsInv'
    BY <2>1 DEF LoadsInv
  <2> QED BY <2>1, <2>2, NamesKept, CodesKept DEF pairing
<1>14. CASE Drawer
  BY <1>14, <1>1, <1>2, <1>3, <1>4, <1>5, <1>6, NamesAssumption DEF Drawer
<1> QED
  BY <1>2, <1>7, <1>8, <1>9, <1>10, <1>11, <1>12, <1>13, <1>14 DEF DrawerNext, AnswerSave

\* What the drawer shows is what the hub said last: the names of connected
\* daemons and the last code, whatever overtakes what.
THEOREM DrawerCorrect == DrawerSpec => []DrawerIsTrue
BY DrawerInvInit, DrawerInvStep, DrawerInvImplies, PTL DEF DrawerSpec

-----------------------------------------------------------------------------
(* ReadMarks *)

LEMMA MarksBoundsAreNat ==
    /\ MaxLines \in Nat /\ MaxSteps \in Nat /\ PageSize \in Nat /\ PageSize <= MaxLines
    /\ 0 - MaxSteps - 1 = Never /\ Never \in Int /\ MaxLines + 1 = Everything
BY MarksBounds DEF Never, Everything

\* The offsets of a page whose log has k lines after n steps: an event of a
\* run takes its offset from the step it happens in.
OffsetsAt(n, k) == ((0 - n) .. k) \ {0}

\* A buffer that fits holds such offsets, and none of them twice.
Fits(b, n, k) ==
    /\ b \in Seq(OffsetsAt(n, k))
    /\ \A i, j \in 1 .. Len(b) : b[i] = b[j] => i = j

(* The inductive invariant, in parts.                                      *)

BuffersFit ==
    /\ buffer = [s \in Sessions |-> buffer[s]]
    /\ \A s \in Sessions : Fits(buffer[s], steps, lines[s])

ScreenInv ==
    /\ lines \in [Sessions -> 0 .. MaxLines]
    /\ noMore \subseteq Sessions /\ selected \in Sessions \union {NoSession}
    /\ auto \in BOOLEAN /\ fetched \subseteq Sessions
    /\ historyAsked \subseteq Sessions \X (Offsets \union {Everything})
    /\ unanswered \subseteq Sessions
    /\ steps \in 0 .. MaxSteps
    /\ BuffersFit

AnchorTypes ==
    /\ lastSeen \in [Sessions -> Offsets] /\ latest \in [Sessions -> Offsets]
    /\ stored \in [Sessions -> Offsets] /\ met \in [Sessions -> Offsets]
    /\ carried \in [Sessions -> Offsets]
    /\ dirty \in BOOLEAN /\ overtaken \in BOOLEAN

\* What the timeline shows at its bottom has met the eye.
BottomIsMet ==
    \A s \in Sessions :
        selected = s /\ auto => \A o \in Range(buffer[s]) : o <= met[s]

\* latestRef and localStorage never run ahead of the anchor.
AnchorsFollow ==
    \A s \in Sessions :
        /\ latest[s] <= lastSeen[s] /\ stored[s] <= lastSeen[s]
        /\ lastSeen[s] <= met[s] \/ lastSeen[s] <= carried[s]

MarksInv == ScreenInv /\ AnchorTypes /\ BottomIsMet /\ AnchorsFollow /\ SeenIsKept

-----------------------------------------------------------------------------
(* Sets of offsets and sequences of them *)

\* A bounded set of integers has a greatest member.
LEMMA MaxOfOffsets ==
    ASSUME NEW S, NEW b \in Int, S # {}, \A o \in S : o \in Int /\ o <= b
    PROVE  Max(S) \in S /\ Max(S) \in Int /\ \A o \in S : o <= Max(S)
<1> DEFINE T == {b - o : o \in S}
           R == {p \in Nat \X Nat : p[1] < p[2]}
<1>1. T \subseteq Nat /\ T # {}
  OBVIOUS
<1>2. PICK x \in T : \A y \in T : <<y, x>> \notin R
  <2>1. IsWellFoundedOn(R, Nat)
    BY NatLessThanWellFounded DEF OpToRel
  <2> HIDE DEF T, R
  <2>2. QED
    BY <1>1, <2>1, WFMin
<1>3. PICK m \in S : x = b - m
  OBVIOUS
<1>4. ASSUME NEW o \in S PROVE m >= o
  <2>1. b - o \in T /\ b - o \in Nat /\ x \in Nat
    BY <1>1
  <2>2. ~(b - o < x)
    BY <2>1, <1>2
  <2>3. QED
    BY <2>1, <2>2, <1>3
<1>5. \E z \in S : \A y \in S : z >= y
  BY <1>4
<1>6. Max(S) \in S /\ \A y \in S : Max(S) >= y
  BY <1>5 DEF Max
<1>7. QED
  BY <1>6

LEMMA MaxOfTwo ==
    ASSUME NEW m \in Int, NEW n \in Int
    PROVE  Max({m, n}) \in {m, n} /\ Max({m, n}) >= m /\ Max({m, n}) >= n
<1> DEFINE S == {m, n}
           b == IF m <= n THEN n ELSE m
<1>1. b \in Int /\ S # {} /\ \A o \in S : o \in Int /\ o <= b
  OBVIOUS
<1>2. m \in S /\ n \in S
  OBVIOUS
<1> HIDE DEF b
<1>3. Max(S) \in S /\ \A o \in S : o <= Max(S)
  <2> HIDE DEF S
  <2>1. QED
    BY <1>1, MaxOfOffsets
<1>4. QED
  BY <1>2, <1>3

LEMMA FitsRange ==
    ASSUME NEW n \in Nat, NEW k \in Nat, NEW b, Fits(b, n, k)
    PROVE  /\ Range(b) \subseteq OffsetsAt(n, k)
           /\ IsFiniteSet(Range(b)) /\ Cardinality(Range(b)) = Len(b)
<1>1. b \in Seq(OffsetsAt(n, k)) /\ \A i, j \in 1 .. Len(b) : b[i] = b[j] => i = j
  BY DEF Fits
<1> HIDE DEF Fits
<1>2. /\ Len(b) \in Nat /\ b \in [1 .. Len(b) -> OffsetsAt(n, k)]
      /\ DOMAIN b = 1 .. Len(b)
  BY <1>1, LenProperties
<1>3. Range(b) \subseteq OffsetsAt(n, k)
  BY <1>2 DEF Range
<1>4. b \in [1 .. Len(b) -> Range(b)] /\ \A y \in Range(b) : \E i \in 1 .. Len(b) : b[i] = y
  BY <1>2 DEF Range
<1>5. b \in Surjection(1 .. Len(b), Range(b)) /\ b \in Injection(1 .. Len(b), Range(b))
  BY <1>1, <1>4 DEF Surjection, Injection, IsInjective
<1>6. IsFiniteSet(1 .. Len(b)) /\ Cardinality(1 .. Len(b)) = Len(b)
  <2>1. \A m \in Nat : IsFiniteSet(1 .. m) /\ Cardinality(1 .. m) = m
    BY FS_Interval
  <2>2. QED
    BY <1>2, <2>1
<1>7. QED
  BY <1>3, <1>5, <1>6, FS_Surjection

LEMMA FitsMore ==
    ASSUME NEW n \in Nat, NEW k \in Nat, NEW b, Fits(b, n, k),
           NEW n2 \in Nat, NEW k2 \in Nat, n <= n2, k <= k2
    PROVE  Fits(b, n2, k2)
<1>1. OffsetsAt(n, k) \subseteq OffsetsAt(n2, k2)
  BY DEF OffsetsAt
<1>2. QED
  BY <1>1, SeqMonotonic DEF Fits

LEMMA FitsEmpty ==
    ASSUME NEW n \in Nat, NEW k \in Nat PROVE Fits(<<>>, n, k)
BY EmptySeq DEF Fits

\* A new offset at the end.
LEMMA FitsAppend ==
    ASSUME NEW n \in Nat, NEW k \in Nat, NEW b, Fits(b, n, k),
           NEW n2 \in Nat, NEW k2 \in Nat, n <= n2, k <= k2,
           NEW o \in OffsetsAt(n2, k2), o \notin OffsetsAt(n, k)
    PROVE  Fits(Append(b, o), n2, k2)
<1>1. b \in Seq(OffsetsAt(n, k)) /\ \A i, j \in 1 .. Len(b) : b[i] = b[j] => i = j
  BY DEF Fits
<1>2. b \in Seq(OffsetsAt(n2, k2))
  BY FitsMore DEF Fits
<1>3. Append(b, o) \in Seq(OffsetsAt(n2, k2))
  BY <1>2, AppendProperties
<1>4. /\ Len(Append(b, o)) = Len(b) + 1 /\ Len(b) \in Nat
      /\ \A i \in 1 .. Len(b) : Append(b, o)[i] = b[i] /\ b[i] # o
      /\ Append(b, o)[Len(b) + 1] = o
  BY <1>1
<1>5. ASSUME NEW i \in 1 .. Len(b) + 1, NEW j \in 1 .. Len(b) + 1,
             Append(b, o)[i] = Append(b, o)[j]
      PROVE  i = j
  BY <1>1, <1>4, <1>5
<1>6. QED
  BY <1>3, <1>4, <1>5 DEF Fits

\* How many members of S lie below o.
OffsetRank(S, o) == Cardinality({p \in S : p < o})

\* Every rank below the number of members is the rank of one of them.
LEMMA EveryRank ==
    ASSUME NEW S, IsFiniteSet(S), \A o \in S : o \in Int
    PROVE  /\ Cardinality(S) \in Nat
           /\ \A i \in 1 .. Cardinality(S) : \E o \in S : OffsetRank(S, o) = i - 1
<1> DEFINE n == Cardinality(S)
           r == [o \in S |-> OffsetRank(S, o)]
<1>1. n \in Nat
  BY FS_CardinalityType
<1>2. ASSUME NEW o \in S PROVE r[o] \in 0 .. (n - 1)
  <2> DEFINE U == {p \in S : p < o}
  <2>1. U \in SUBSET S /\ U # S
    OBVIOUS
  <2>2. IsFiniteSet(U) /\ Cardinality(U) <= n /\ Cardinality(U) # n
    <3> HIDE DEF U
    <3>1. QED
      BY <2>1, FS_Subset
  <2>3. Cardinality(U) \in Nat
    <3> HIDE DEF U
    <3>1. QED
      BY <2>2, FS_CardinalityType
  <2>4. Cardinality(U) \in 0 .. (n - 1)
    BY <1>1, <2>2, <2>3
  <2>5. QED
    BY <2>4 DEF OffsetRank
<1>3. ASSUME NEW o \in S, NEW p \in S, o < p PROVE r[o] < r[p]
  <2> DEFINE U == {q \in S : q < o}
             V == {q \in S : q < p}
  <2>1. U \in SUBSET V /\ U # V /\ V \in SUBSET S
    BY <1>3
  <2>2. Cardinality(U) <= Cardinality(V) /\ Cardinality(U) # Cardinality(V)
        /\ IsFiniteSet(U) /\ IsFiniteSet(V)
    <3> HIDE DEF U, V
    <3>1. IsFiniteSet(V)
      BY <2>1, FS_Subset
    <3>2. QED
      BY <2>1, <3>1, FS_Subset
  <2>3. Cardinality(U) \in Nat /\ Cardinality(V) \in Nat
    BY <2>2, FS_CardinalityType
  <2>4. Cardinality(U) < Cardinality(V)
    BY <2>2, <2>3
  <2>5. QED
    BY <2>4 DEF OffsetRank
<1>4. r \in [S -> 0 .. (n - 1)]
  BY <1>2
<1>5. \A o, p \in S : r[o] = r[p] => o = p
  <2> SUFFICES ASSUME NEW o \in S, NEW p \in S, o # p PROVE r[o] # r[p]
    OBVIOUS
  <2>1. o < p \/ p < o
    OBVIOUS
  <2>2. r[o] \in Int /\ r[p] \in Int
    BY <1>2
  <2>3. r[o] < r[p] \/ r[p] < r[o]
    BY <2>1, <1>3
  <2> HIDE DEF r
  <2>4. QED
    BY <2>2, <2>3
<1>6. IsFiniteSet(0 .. (n - 1)) /\ Cardinality(0 .. (n - 1)) = n
  BY <1>1, FS_Interval
<1>7. r \in Injection(S, 0 .. (n - 1))
  BY <1>4, <1>5 DEF Injection, IsInjective
<1>8. r \in Surjection(S, 0 .. (n - 1))
  <2> HIDE DEF r
  <2>1. QED
    BY <1>6, <1>7, FS_Injection
<1>9. \A y \in 0 .. (n - 1) : \E o \in S : r[o] = y
  <2> HIDE DEF r
  <2>1. QED
    BY <1>8 DEF Surjection
<1>10. ASSUME NEW i \in 1 .. n PROVE \E o \in S : OffsetRank(S, o) = i - 1
  <2>1. i - 1 \in 0 .. (n - 1)
    BY <1>1
  <2>2. QED
    BY <1>9, <2>1
<1>11. QED
  BY <1>1, <1>10

\* A sorted buffer holds the set it was made from, each member once.
LEMMA FitsSorted ==
    ASSUME NEW n \in Nat, NEW k \in Nat, NEW S \in SUBSET OffsetsAt(n, k)
    PROVE  Fits(Sorted(S), n, k)
<1> DEFINE c == Cardinality(S)
           Nth(i) == CHOOSE o \in S : Cardinality({p \in S : p < o}) = i - 1
<1>1. IsFiniteSet((0 - n) .. k) /\ S \in SUBSET ((0 - n) .. k)
  BY FS_Interval DEF OffsetsAt
<1>2. IsFiniteSet(S) /\ \A o \in S : o \in Int
  <2>1. IsFiniteSet(S)
    BY <1>1, FS_Subset
  <2>2. \A o \in S : o \in Int
    BY <1>1
  <2>3. QED
    BY <2>1, <2>2
<1>3. c \in Nat /\ \A i \in 1 .. c : \E o \in S : OffsetRank(S, o) = i - 1
  BY <1>2, EveryRank
<1>4. \A i \in 1 .. c : Nth(i) \in S /\ OffsetRank(S, Nth(i)) = i - 1
  BY <1>3 DEF OffsetRank
<1>5. Sorted(S) = [i \in 1 .. c |-> Nth(i)]
  BY DEF Sorted
<1> HIDE DEF Nth, c
<1>6. [i \in 1 .. c |-> Nth(i)] \in Seq(OffsetsAt(n, k))
  BY <1>3, <1>4, IsASeq
<1>7. Len(Sorted(S)) = c /\ \A i \in 1 .. c : Sorted(S)[i] = Nth(i)
  BY <1>3, <1>5
<1>8. ASSUME NEW i \in 1 .. c, NEW j \in 1 .. c, Nth(i) = Nth(j) PROVE i = j
  <2>1. i - 1 = j - 1 /\ i \in Int /\ j \in Int
    BY <1>3, <1>4, <1>8
  <2>2. QED
    BY <2>1
<1>9. Sorted(S) \in Seq(OffsetsAt(n, k))
  BY <1>5, <1>6
<1>10. \A i, j \in 1 .. Len(Sorted(S)) : Sorted(S)[i] = Sorted(S)[j] => i = j
  BY <1>7, <1>8
<1>11. QED
  BY <1>9, <1>10 DEF Fits
-----------------------------------------------------------------------------
(* The steps *)

LEMMA MarksInvImplies == MarksInv => MarksAreTrue
<1> SUFFICES ASSUME MarksInv PROVE MarksAreTrue
  OBVIOUS
<1>1. ScreenInv /\ AnchorTypes /\ AnchorsFollow /\ SeenIsKept
  BY DEF MarksInv
<1>2. ASSUME NEW s \in Sessions
      PROVE  /\ Range(buffer[s]) \subseteq Offsets \ {Never, 0}
             /\ Cardinality(Range(buffer[s])) = Len(buffer[s])
  <2>1. Fits(buffer[s], steps, lines[s]) /\ steps \in Nat /\ lines[s] \in Nat
    BY <1>1, MarksBoundsAreNat DEF ScreenInv, BuffersFit
  <2>2. /\ Range(buffer[s]) \subseteq OffsetsAt(steps, lines[s])
        /\ Cardinality(Range(buffer[s])) = Len(buffer[s])
    BY <2>1, FitsRange
  <2>3. OffsetsAt(steps, lines[s]) \subseteq Offsets \ {Never, 0}
    BY <1>1, MarksBoundsAreNat DEF ScreenInv, OffsetsAt, Offsets
  <2>4. QED
    BY <2>2, <2>3
<1>3. MarksTypeOK
  BY <1>1, <1>2 DEF MarksTypeOK, ScreenInv, AnchorTypes
<1>4. SeenWasShown
  <2>1. SUFFICES ASSUME NEW s \in Sessions PROVE lastSeen[s] <= Max({met[s], carried[s]})
    BY DEF SeenWasShown
  <2>2. lastSeen[s] \in Int /\ met[s] \in Int /\ carried[s] \in Int
    BY <1>1, MarksBoundsAreNat DEF AnchorTypes, Offsets
  <2>3. lastSeen[s] <= met[s] \/ lastSeen[s] <= carried[s]
    BY <1>1 DEF AnchorsFollow
  <2>4. /\ Max({met[s], carried[s]}) \in {met[s], carried[s]}
        /\ Max({met[s], carried[s]}) >= met[s] /\ Max({met[s], carried[s]}) >= carried[s]
    BY <2>2, MaxOfTwo
  <2>5. QED
    BY <2>2, <2>3, <2>4
<1>5. QED
  BY <1>1, <1>3, <1>4 DEF MarksAreTrue

LEMMA MarksInvInit == MarksInit => MarksInv
<1> SUFFICES ASSUME MarksInit PROVE MarksInv
  OBVIOUS
<1>1. buffer = [s \in Sessions |-> <<>>]
  BY DEF MarksInit
<1>2. /\ lines \in [Sessions -> 0 .. MaxLines] /\ steps = 0
      /\ \A s \in Sessions : lines[s] \in Nat /\ buffer[s] = <<>> /\ Range(buffer[s]) = {}
  BY <1>1, MarksBoundsAreNat DEF MarksInit, Range
<1>3. BuffersFit
  BY <1>1, <1>2, FitsEmpty DEF BuffersFit
<1>4. ScreenInv
  BY <1>2, <1>3, MarksBoundsAreNat DEF ScreenInv, MarksInit
<1>5. AnchorTypes
  <2>1. Never \in Offsets
    BY MarksBoundsAreNat DEF Offsets
  <2>2. lastSeen \in [Sessions -> Offsets]
    BY <2>1 DEF MarksInit
  <2>3. QED
    BY <2>2 DEF MarksInit, AnchorTypes
<1>6. BottomIsMet
  BY <1>2 DEF BottomIsMet
<1>7. AnchorsFollow /\ SeenIsKept
  BY MarksBoundsAreNat DEF MarksInit, AnchorsFollow, SeenIsKept
<1>8. QED
  BY <1>4, <1>5, <1>6, <1>7 DEF MarksInv

\* A session's numbers, and what its buffer holds.
LEMMA MarksNumbers ==
    ASSUME ScreenInv
    PROVE  /\ steps \in Nat /\ steps <= MaxSteps
           /\ \A s \in Sessions :
                /\ lines[s] \in Nat /\ lines[s] <= MaxLines
                /\ Fits(buffer[s], steps, lines[s])
                /\ Range(buffer[s]) \subseteq OffsetsAt(steps, lines[s])
           /\ \A s \in Sessions : OffsetsAt(steps, lines[s]) \subseteq Offsets
<1>1. /\ steps \in Nat /\ steps <= MaxSteps
      /\ \A s \in Sessions : lines[s] \in Nat /\ lines[s] <= MaxLines
                             /\ Fits(buffer[s], steps, lines[s])
  BY MarksBoundsAreNat DEF ScreenInv, BuffersFit
<1>2. \A s \in Sessions : Range(buffer[s]) \subseteq OffsetsAt(steps, lines[s])
  BY <1>1, FitsRange
<1>3. \A s \in Sessions : OffsetsAt(steps, lines[s]) \subseteq Offsets
  BY <1>1, MarksBoundsAreNat DEF OffsetsAt, Offsets
<1>4. QED
  BY <1>1, <1>2, <1>3

\* What the timeline sees of the anchor is left alone: whatever else a step
\* does that ends with Meet, its types are all there is to show.
LEMMA MeetKeeps ==
    ASSUME MarksInv, Meet, UNCHANGED <<anchor, carried, overtaken>>, ScreenInv'
    PROVE  MarksInv'
<1>1. AnchorTypes /\ AnchorsFollow /\ SeenIsKept
  BY DEF MarksInv
<1>2. ASSUME NEW s \in Sessions
      PROVE  /\ Highest(buffer'[s]) \in Offsets
             /\ \A o \in Range(buffer'[s]) : o <= Highest(buffer'[s])
  <2> DEFINE S == Range(buffer'[s]) \union {Never}
  <2>1. Range(buffer'[s]) \subseteq Offsets
    <3>1. /\ Range(buffer'[s]) \subseteq OffsetsAt(steps', lines'[s])
          /\ OffsetsAt(steps', lines'[s]) \subseteq Offsets
      <4>1. steps' \in Nat /\ lines'[s] \in Nat /\ Fits(buffer'[s], steps', lines'[s])
        BY MarksBoundsAreNat DEF ScreenInv, BuffersFit
      <4>2. OffsetsAt(steps', lines'[s]) \subseteq Offsets
        BY MarksBoundsAreNat DEF ScreenInv, OffsetsAt, Offsets
      <4>3. QED
        BY <4>1, <4>2, FitsRange
    <3>2. QED
      BY <3>1
  <2>2. S # {} /\ S \subseteq Offsets
    BY <2>1, MarksBoundsAreNat DEF Offsets
  <2>3. MaxLines \in Int /\ \A o \in S : o \in Int /\ o <= MaxLines
    BY <2>2, MarksBoundsAreNat DEF Offsets
  <2> HIDE DEF S
  <2>4. Max(S) \in S /\ \A o \in S : o <= Max(S)
    BY <2>2, <2>3, MaxOfOffsets
  <2>5. Max(S) = Highest(buffer'[s]) /\ Range(buffer'[s]) \subseteq S
    BY DEF S, Highest
  <2>6. QED
    BY <2>2, <2>4, <2>5
<1>3. ASSUME NEW s \in Sessions
      PROVE  /\ met'[s] \in Offsets /\ met[s] <= met'[s]
             /\ selected' = s /\ auto' => \A o \in Range(buffer'[s]) : o <= met'[s]
  <2>1. met[s] \in Offsets /\ met[s] \in Int
    BY <1>1, MarksBoundsAreNat DEF AnchorTypes, Offsets
  <2>2. CASE selected' = s /\ auto'
    <3> DEFINE h == Highest(buffer'[s])
    <3>1. h \in Offsets /\ h \in Int /\ \A o \in Range(buffer'[s]) : o <= h
      BY <1>2, MarksBoundsAreNat DEF Offsets
    <3>2. met'[s] = Max({met[s], h})
      BY <2>2 DEF Meet
    <3> HIDE DEF h
    <3>3. met'[s] \in {met[s], h} /\ met'[s] >= met[s] /\ met'[s] >= h
      BY <2>1, <3>1, <3>2, MaxOfTwo
    <3>4. \A o \in Range(buffer'[s]) : o \in Int
      <4>1. steps' \in Nat /\ lines'[s] \in Nat /\ Fits(buffer'[s], steps', lines'[s])
        BY MarksBoundsAreNat DEF ScreenInv, BuffersFit
      <4>2. Range(buffer'[s]) \subseteq OffsetsAt(steps', lines'[s])
        BY <4>1, FitsRange
      <4>3. QED
        BY <4>1, <4>2 DEF OffsetsAt
    <3>5. QED
      BY <2>1, <3>1, <3>3, <3>4
  <2>3. CASE ~(selected' = s /\ auto')
    <3>1. met'[s] = met[s]
      BY <2>3 DEF Meet
    <3>2. QED
      BY <2>1, <2>3, <3>1
  <2>4. QED
    BY <2>2, <2>3
<1>4. /\ lastSeen' = lastSeen /\ latest' = latest /\ stored' = stored /\ dirty' = dirty
      /\ carried' = carried /\ overtaken' = overtaken
  BY DEF anchor
<1>5. met' \in [Sessions -> Offsets]
  BY <1>3 DEF Meet
<1>6. AnchorTypes' /\ SeenIsKept'
  BY <1>1, <1>4, <1>5 DEF AnchorTypes, SeenIsKept
<1>7. BottomIsMet'
  BY <1>3 DEF BottomIsMet
<1>8. AnchorsFollow'
  <2>1. SUFFICES ASSUME NEW s \in Sessions
                 PROVE  /\ latest'[s] <= lastSeen'[s] /\ stored'[s] <= lastSeen'[s]
                        /\ lastSeen'[s] <= met'[s] \/ lastSeen'[s] <= carried'[s]
    BY DEF AnchorsFollow
  <2>2. lastSeen[s] \in Int /\ met[s] \in Int /\ met'[s] \in Int
    BY <1>1, <1>3, MarksBoundsAreNat DEF AnchorTypes, Offsets
  <2>3. /\ latest[s] <= lastSeen[s] /\ stored[s] <= lastSeen[s]
        /\ lastSeen[s] <= met[s] \/ lastSeen[s] <= carried[s]
    BY <1>1 DEF AnchorsFollow
  <2>4. QED
    BY <1>3, <1>4, <2>2, <2>3
<1>9. QED
  BY <1>6, <1>7, <1>8 DEF MarksInv

\* A buffer that a step leaves alone still fits.
LEMMA FitsStill ==
    ASSUME ScreenInv, NEW s \in Sessions, buffer'[s] = buffer[s],
           steps' \in Nat, steps <= steps', lines'[s] \in Nat, lines[s] <= lines'[s]
    PROVE  Fits(buffer'[s], steps', lines'[s])
BY MarksNumbers, FitsMore

LEMMA StepCounts ==
    ASSUME ScreenInv, Step
    PROVE  steps' \in 0 .. MaxSteps /\ steps' \in Nat /\ steps <= steps'
           /\ steps' = steps + 1
BY MarksBoundsAreNat DEF ScreenInv, Step

LEMMA NewLineKeepsScreen ==
    ASSUME MarksInv, NEW s \in Sessions, NEW received \in BOOLEAN, NewLine(s, received)
    PROVE  ScreenInv'
<1>1. ScreenInv
  BY DEF MarksInv
<1>2. steps' \in 0 .. MaxSteps /\ steps' \in Nat /\ steps <= steps'
  BY <1>1, StepCounts DEF NewLine
<1>3. /\ lines' = [lines EXCEPT ![s] = @ + 1] /\ lines[s] < MaxLines
      /\ \A t \in Sessions : lines[t] \in Nat
      /\ lines \in [Sessions -> 0 .. MaxLines]
  BY <1>1, MarksNumbers DEF NewLine, ScreenInv
<1>4. /\ lines' \in [Sessions -> 0 .. MaxLines]
      /\ \A t \in Sessions : lines'[t] \in Nat /\ lines[t] <= lines'[t]
      /\ lines'[s] = lines[s] + 1
  BY <1>3, MarksBoundsAreNat
<1>5. CASE received
  <2>1. buffer' = [buffer EXCEPT ![s] = Append(@, lines[s] + 1)]
    BY <1>5 DEF NewLine
  <2>2. buffer = [t \in Sessions |-> buffer[t]]
    BY <1>1 DEF ScreenInv, BuffersFit
  <2>3. /\ buffer' = [t \in Sessions |-> buffer'[t]]
        /\ \A t \in Sessions \ {s} : buffer'[t] = buffer[t]
        /\ buffer'[s] = Append(buffer[s], lines[s] + 1)
    BY <2>1, <2>2
  <2>4. Fits(buffer'[s], steps', lines'[s])
    <3>1. /\ lines[s] + 1 \in OffsetsAt(steps', lines'[s])
          /\ lines[s] + 1 \notin OffsetsAt(steps, lines[s])
      BY <1>1, <1>2, <1>3, <1>4, MarksNumbers DEF OffsetsAt
    <3>2. QED
      BY <1>1, <1>2, <1>3, <1>4, <2>3, <3>1, MarksNumbers, FitsAppend
  <2>5. BuffersFit'
    BY <1>1, <1>2, <1>4, <2>3, <2>4, FitsStill DEF BuffersFit
  <2>6. QED
    BY <1>1, <1>2, <1>4, <1>5, <2>5 DEF ScreenInv, NewLine, timeline
<1>6. CASE ~received
  <2>1. buffer' = buffer /\ buffer = [t \in Sessions |-> buffer[t]]
    BY <1>1, <1>6 DEF NewLine, ScreenInv, BuffersFit
  <2>2. BuffersFit'
    BY <1>1, <1>2, <1>4, <2>1, FitsStill DEF BuffersFit
  <2>3. QED
    BY <1>1, <1>2, <1>4, <1>6, <2>2 DEF ScreenInv, NewLine, timeline
<1>7. QED
  BY <1>5, <1>6

LEMMA RunEventKeepsScreen ==
    ASSUME MarksInv, NEW s \in Sessions, RunEvent(s)
    PROVE  ScreenInv'
<1>1. ScreenInv
  BY DEF MarksInv
<1>2. steps' \in 0 .. MaxSteps /\ steps' \in Nat /\ steps' = steps + 1 /\ steps \in Nat
  BY <1>1, StepCounts, MarksNumbers DEF RunEvent
<1>3. lines' = lines /\ \A t \in Sessions : lines[t] \in Nat
  BY <1>1, MarksNumbers DEF RunEvent
<1>4. /\ buffer' = [t \in Sessions |-> buffer'[t]]
      /\ \A t \in Sessions \ {s} : buffer'[t] = buffer[t]
      /\ buffer'[s] = Append(buffer[s], 0 - steps')
  <2>1. buffer = [t \in Sessions |-> buffer[t]]
    BY <1>1 DEF ScreenInv, BuffersFit
  <2>2. buffer' = [buffer EXCEPT ![s] = Append(@, 0 - steps')]
    BY DEF RunEvent
  <2>3. QED
    BY <2>1, <2>2
<1>5. Fits(buffer'[s], steps', lines'[s])
  <2>1. /\ 0 - steps' \in OffsetsAt(steps', lines[s])
        /\ 0 - steps' \notin OffsetsAt(steps, lines[s])
    BY <1>2, <1>3 DEF OffsetsAt
  <2>2. Fits(buffer[s], steps, lines[s])
    BY <1>1, MarksNumbers
  <2>3. QED
    BY <1>2, <1>3, <1>4, <2>1, <2>2, FitsAppend
<1>6. BuffersFit'
  <2>1. steps <= steps' /\ \A t \in Sessions : lines'[t] \in Nat /\ lines[t] <= lines'[t]
    BY <1>2, <1>3
  <2>2. \A t \in Sessions : Fits(buffer'[t], steps', lines'[t])
    BY <1>1, <1>2, <1>4, <1>5, <2>1, FitsStill
  <2>3. QED
    BY <1>4, <2>2 DEF BuffersFit
<1>7. QED
  BY <1>1, <1>2, <1>3, <1>6 DEF ScreenInv, RunEvent, timeline

\* What the daemon reads for a page are lines of the log.
LEMMA PageIsOfLog ==
    ASSUME ScreenInv, NEW s \in Sessions, NEW before \in Offsets \union {Everything}
    PROVE  Page(s, before) \subseteq OffsetsAt(steps, lines[s])
<1>1. before \in Int /\ lines[s] \in Nat /\ steps \in Nat /\ PageSize \in Nat
  BY MarksNumbers, MarksBoundsAreNat DEF Offsets
<1> DEFINE end == IF before > lines[s] THEN lines[s] ELSE before
<1>2. end \in Int /\ end <= lines[s]
  BY <1>1
<1>3. Page(s, before) \subseteq 1 .. end
  BY DEF Page
<1> HIDE DEF end
<1>4. QED
  BY <1>1, <1>2, <1>3 DEF OffsetsAt

LEMMA ChunkKeepsScreen ==
    ASSUME MarksInv, NEW s, NEW before, <<s, before>> \in historyAsked,
           HistoryChunk(s, before)
    PROVE  ScreenInv'
<1>1. ScreenInv
  BY DEF MarksInv
<1>2. s \in Sessions /\ before \in Offsets \union {Everything}
  BY <1>1 DEF ScreenInv
<1> DEFINE page == Page(s, before)
<1>3. /\ steps \in Nat /\ lines[s] \in Nat /\ Fits(buffer[s], steps, lines[s])
      /\ Range(buffer[s]) \subseteq OffsetsAt(steps, lines[s])
      /\ page \subseteq OffsetsAt(steps, lines[s])
  BY <1>1, <1>2, MarksNumbers, PageIsOfLog
<1>4. Fits(Merged(buffer[s], page), steps, lines[s])
  <2> HIDE DEF page
  <2>1. CASE page \subseteq Range(buffer[s])
    BY <1>3, <2>1 DEF Merged
  <2>2. CASE ~(page \subseteq Range(buffer[s]))
    <3>1. page \union Range(buffer[s]) \in SUBSET OffsetsAt(steps, lines[s])
      BY <1>3
    <3>2. Fits(Sorted(page \union Range(buffer[s])), steps, lines[s])
      BY <1>3, <3>1, FitsSorted
    <3>3. QED
      BY <2>2, <3>2 DEF Merged
  <2>3. QED
    BY <2>1, <2>2
<1>5. buffer' = [buffer EXCEPT ![s] = Merged(@, page)] /\ lines' = lines /\ steps' = steps
  BY DEF HistoryChunk
<1>6. buffer = [t \in Sessions |-> buffer[t]]
  BY <1>1 DEF ScreenInv, BuffersFit
<1> HIDE DEF page
<1>7. /\ buffer' = [t \in Sessions |-> buffer'[t]]
      /\ \A t \in Sessions \ {s} : buffer'[t] = buffer[t]
      /\ buffer'[s] = Merged(buffer[s], page)
  BY <1>2, <1>5, <1>6
<1>8. BuffersFit'
  BY <1>1, <1>4, <1>5, <1>7 DEF ScreenInv, BuffersFit
<1>9. /\ noMore' \subseteq noMore \union {s} /\ historyAsked' \subseteq historyAsked
      /\ UNCHANGED <<selected, auto, fetched, unanswered>>
  BY DEF HistoryChunk
<1>10. QED
  BY <1>1, <1>2, <1>5, <1>8, <1>9 DEF ScreenInv

\* A step that leaves the buffers and the logs alone.
LEMMA BuffersStill ==
    ASSUME ScreenInv, UNCHANGED <<buffer, lines>>, steps' \in Nat, steps <= steps'
    PROVE  BuffersFit' /\ lines' \in [Sessions -> 0 .. MaxLines]
<1>1. \A s \in Sessions : lines'[s] \in Nat /\ lines[s] <= lines'[s]
  BY MarksNumbers
<1>2. buffer' = [s \in Sessions |-> buffer'[s]]
  BY DEF ScreenInv, BuffersFit
<1>3. QED
  BY <1>1, <1>2, FitsStill DEF BuffersFit, ScreenInv

LEMMA SelectKeepsScreen ==
    ASSUME MarksInv, NEW s \in Sessions, Select(s)
    PROVE  ScreenInv'
<1>1. ScreenInv
  BY DEF MarksInv
<1>2. steps' \in 0 .. MaxSteps /\ BuffersFit' /\ lines' \in [Sessions -> 0 .. MaxLines]
  BY <1>1, StepCounts, BuffersStill DEF Select
<1>3. /\ fetched' \subseteq Sessions
      /\ historyAsked' \subseteq Sessions \X (Offsets \union {Everything})
  BY <1>1 DEF Select, FetchOnEntry, SelectAsks, ScreenInv
<1>4. QED
  BY <1>1, <1>2, <1>3 DEF Select, ScreenInv

LEMMA ScrollKeepsScreen ==
    ASSUME MarksInv, NEW atBottom \in BOOLEAN, NEW atTop \in BOOLEAN, Scroll(atBottom, atTop)
    PROVE  ScreenInv'
<1>1. ScreenInv
  BY DEF MarksInv
<1>2. steps' \in 0 .. MaxSteps /\ BuffersFit' /\ lines' \in [Sessions -> 0 .. MaxLines]
  BY <1>1, StepCounts, BuffersStill DEF Scroll
<1>3. selected \in Sessions
  BY <1>1 DEF Scroll, ScreenInv
<1>4. buffer[selected] # <<>> => Head(buffer[selected]) \in Offsets
  <2>1. /\ buffer[selected] \in Seq(OffsetsAt(steps, lines[selected]))
        /\ OffsetsAt(steps, lines[selected]) \subseteq Offsets
    BY <1>1, <1>3, MarksNumbers DEF Fits
  <2>2. QED
    BY <2>1
<1>5. historyAsked' \subseteq Sessions \X (Offsets \union {Everything})
  BY <1>1, <1>3, <1>4 DEF Scroll, ScreenInv
<1>6. QED
  BY <1>1, <1>2, <1>5 DEF Scroll, ScreenInv

LEMMA JumpKeepsScreen ==
    ASSUME MarksInv, Jump PROVE ScreenInv'
<1>1. ScreenInv
  BY DEF MarksInv
<1>2. steps' \in 0 .. MaxSteps /\ BuffersFit' /\ lines' \in [Sessions -> 0 .. MaxLines]
  BY <1>1, StepCounts, BuffersStill DEF Jump
<1>3. QED
  BY <1>1, <1>2 DEF Jump, ScreenInv

\* Who leaves, or whose request is lost, has seen what he has seen.
LEMMA LeaveKeeps ==
    ASSUME MarksInv,
           \/ Back
           \/ \E request \in historyAsked : RequestLost(request[1], request[2])
    PROVE  MarksInv'
<1>1. ScreenInv /\ AnchorTypes /\ BottomIsMet /\ AnchorsFollow /\ SeenIsKept
  BY DEF MarksInv
<1>2. /\ Step
      /\ UNCHANGED <<lines, buffer, noMore, auto, fetched, anchor, met, carried, overtaken>>
      /\ historyAsked' \subseteq historyAsked
      /\ selected' = selected \/ selected' = NoSession
      /\ unanswered' \subseteq unanswered \union {r[1] : r \in historyAsked}
  BY DEF Back, RequestLost
<1>3. ScreenInv'
  <2>1. steps' \in 0 .. MaxSteps /\ BuffersFit' /\ lines' \in [Sessions -> 0 .. MaxLines]
    BY <1>1, <1>2, StepCounts, BuffersStill
  <2>2. {r[1] : r \in historyAsked} \subseteq Sessions
    BY <1>1 DEF ScreenInv
  <2>3. QED
    BY <1>1, <1>2, <2>1, <2>2 DEF ScreenInv
<1>4. /\ lastSeen' = lastSeen /\ latest' = latest /\ stored' = stored /\ dirty' = dirty
      /\ met' = met /\ carried' = carried /\ overtaken' = overtaken
      /\ buffer' = buffer /\ auto' = auto
  BY <1>2 DEF anchor
<1>5. AnchorTypes' /\ AnchorsFollow' /\ SeenIsKept'
  BY <1>1, <1>4 DEF AnchorTypes, AnchorsFollow, SeenIsKept
<1>6. BottomIsMet'
  BY <1>1, <1>2, <1>4, SessionsAssumption DEF BottomIsMet
<1>7. QED
  BY <1>3, <1>5, <1>6 DEF MarksInv

\* A rebind empties the buffer and forgets what was met; the anchor it
\* leaves behind is the one it carries.
LEMMA RebindKeeps ==
    ASSUME MarksInv, NEW s \in Sessions, Rebind(s)
    PROVE  MarksInv'
<1>1. ScreenInv /\ AnchorTypes /\ BottomIsMet /\ AnchorsFollow /\ SeenIsKept
  BY DEF MarksInv
<1>2. steps' \in 0 .. MaxSteps /\ steps' \in Nat /\ steps <= steps'
  BY <1>1, StepCounts DEF Rebind
<1>3. /\ lines' = [lines EXCEPT ![s] = 0] /\ buffer' = [buffer EXCEPT ![s] = <<>>]
      /\ met' = [met EXCEPT ![s] = Never] /\ carried' = [carried EXCEPT ![s] = lastSeen[s]]
      /\ UNCHANGED <<selected, auto, fetched, historyAsked>>
      /\ UNCHANGED <<lastSeen, latest, stored, dirty, overtaken>>
      /\ noMore' = noMore \ {s} /\ unanswered' = unanswered \union {s}
  BY DEF Rebind, timeline, anchor
<1>4. /\ lines' \in [Sessions -> 0 .. MaxLines] /\ lines'[s] = 0
      /\ \A t \in Sessions \ {s} : lines'[t] = lines[t] /\ lines[t] \in Nat /\ lines[t] <= lines'[t]
  BY <1>1, <1>3, MarksBoundsAreNat, MarksNumbers DEF ScreenInv
<1>5. /\ buffer' = [t \in Sessions |-> buffer'[t]] /\ buffer'[s] = <<>>
      /\ \A t \in Sessions \ {s} : buffer'[t] = buffer[t]
  <2>1. buffer = [t \in Sessions |-> buffer[t]]
    BY <1>1 DEF ScreenInv, BuffersFit
  <2>2. QED
    BY <1>3, <2>1
<1>6. BuffersFit'
  <2>1. Fits(buffer'[s], steps', lines'[s])
    BY <1>2, <1>4, <1>5, FitsEmpty
  <2>2. \A t \in Sessions \ {s} : Fits(buffer'[t], steps', lines'[t])
    BY <1>1, <1>2, <1>4, <1>5, FitsStill
  <2>3. QED
    BY <1>5, <2>1, <2>2 DEF BuffersFit
<1>7. ScreenInv'
  BY <1>1, <1>2, <1>3, <1>4, <1>6 DEF ScreenInv
<1>8. Never \in Offsets
  BY MarksBoundsAreNat DEF Offsets
<1>9. AnchorTypes'
  BY <1>1, <1>3, <1>8 DEF AnchorTypes
<1>10. /\ \A t \in Sessions \ {s} : met'[t] = met[t] /\ carried'[t] = carried[t]
       /\ carried'[s] = lastSeen[s] /\ lastSeen[s] \in Int
  BY <1>1, <1>3, MarksBoundsAreNat DEF AnchorTypes, Offsets
<1>11. BottomIsMet'
  <2>1. Range(buffer'[s]) = {}
    BY <1>5 DEF Range
  <2>2. QED
    BY <1>1, <1>3, <1>5, <1>10, <2>1 DEF BottomIsMet
<1>12. AnchorsFollow' /\ SeenIsKept'
  BY <1>1, <1>3, <1>10 DEF AnchorsFollow, SeenIsKept
<1>13. QED
  BY <1>7, <1>9, <1>11, <1>12 DEF MarksInv

\* The anchor moves to a line that stands at the bottom of the screen.
LEMMA MarkSeenKeeps ==
    ASSUME MarksInv, NEW s \in Sessions, MarkSeen(s)
    PROVE  MarksInv'
<1>1. ScreenInv /\ AnchorTypes /\ BottomIsMet /\ AnchorsFollow /\ SeenIsKept
  BY DEF MarksInv
<1>2. /\ UNCHANGED <<lines, buffer, noMore, selected, auto, fetched, historyAsked>>
      /\ UNCHANGED <<latest, stored, met, carried, overtaken, unanswered, steps>>
      /\ dirty' = TRUE
      /\ lastSeen' = [lastSeen EXCEPT ![s] = MaxOffset(buffer[s])]
      /\ MaxOffset(buffer[s]) >= 0 /\ MaxOffset(buffer[s]) > lastSeen[s]
      /\ selected = s /\ auto
  BY DEF MarkSeen, Mark, timeline
<1>3. ScreenInv'
  BY <1>1, <1>2 DEF ScreenInv, BuffersFit
<1> DEFINE o == MaxOffset(buffer[s])
<1>4. o \in Range(buffer[s]) /\ o \in Offsets /\ o \in Int
  <2>1. buffer[s] # <<>>
    BY <1>2 DEF MaxOffset
  <2>2. buffer[s] \in Seq(OffsetsAt(steps, lines[s])) /\ OffsetsAt(steps, lines[s]) \subseteq Offsets
    BY <1>1, MarksNumbers DEF Fits
  <2>3. Len(buffer[s]) \in 1 .. Len(buffer[s]) /\ o = buffer[s][Len(buffer[s])]
    BY <2>1, <2>2, EmptySeq DEF MaxOffset, Last
  <2>4. o \in Offsets /\ o \in Range(buffer[s])
    BY <2>2, <2>3, ElementOfSeq, LenProperties DEF Range
  <2>5. QED
    BY <2>4, MarksBoundsAreNat DEF Offsets
<1>5. o <= met[s]
  BY <1>1, <1>2, <1>4 DEF BottomIsMet
<1> HIDE DEF o
<1>6. /\ lastSeen' = [lastSeen EXCEPT ![s] = o] /\ o > lastSeen[s]
  BY <1>2 DEF o
<1>7. AnchorTypes'
  BY <1>1, <1>2, <1>4, <1>6 DEF AnchorTypes
<1>8. BottomIsMet' /\ SeenIsKept'
  BY <1>1, <1>2 DEF BottomIsMet, SeenIsKept
<1>9. AnchorsFollow'
  <2>1. SUFFICES ASSUME NEW t \in Sessions
                 PROVE  /\ latest[t] <= lastSeen'[t] /\ stored[t] <= lastSeen'[t]
                        /\ lastSeen'[t] <= met[t] \/ lastSeen'[t] <= carried[t]
    BY <1>2 DEF AnchorsFollow
  <2>2. /\ latest[t] <= lastSeen[t] /\ stored[t] <= lastSeen[t]
        /\ lastSeen[t] <= met[t] \/ lastSeen[t] <= carried[t]
        /\ latest[t] \in Int /\ stored[t] \in Int /\ lastSeen[t] \in Int
    BY <1>1, MarksBoundsAreNat DEF AnchorsFollow, AnchorTypes, Offsets
  <2>3. lastSeen'[t] = IF t = s THEN o ELSE lastSeen[t]
    BY <1>1, <1>6 DEF AnchorTypes
  <2>4. QED
    BY <1>4, <1>5, <1>6, <2>2, <2>3
<1>10. QED
  BY <1>3, <1>7, <1>8, <1>9 DEF MarksInv

\* latestRef catches up, and a flush writes what it holds.
LEMMA WritesKeep ==
    ASSUME MarksInv, LatestFollows \/ TimerFlush \/ Hide
    PROVE  MarksInv'
<1>1. ScreenInv /\ AnchorTypes /\ BottomIsMet /\ AnchorsFollow /\ SeenIsKept
  BY DEF MarksInv
<1>2. /\ UNCHANGED <<lines, buffer, noMore, selected, auto, fetched, historyAsked>>
      /\ UNCHANGED <<lastSeen, met, carried, unanswered>>
      /\ steps' = steps \/ Step
  BY DEF LatestFollows, TimerFlush, Hide, timeline
<1>3. ScreenInv'
  <2>1. steps' \in 0 .. MaxSteps /\ steps' \in Nat /\ steps <= steps'
    BY <1>1, <1>2, StepCounts, MarksNumbers DEF ScreenInv
  <2>2. BuffersFit' /\ lines' \in [Sessions -> 0 .. MaxLines]
    BY <1>1, <1>2, <2>1, BuffersStill
  <2>3. QED
    BY <1>1, <1>2, <2>1, <2>2 DEF ScreenInv
<1>4. BottomIsMet'
  BY <1>1, <1>2 DEF BottomIsMet
<1>5. /\ latest' \in {latest, lastSeen} /\ stored' \in {latest, stored}
      /\ dirty' \in BOOLEAN /\ overtaken' \in BOOLEAN
      /\ ~dirty' /\ ~overtaken' => stored' = lastSeen
  BY <1>1 DEF LatestFollows, TimerFlush, Hide, FlushWrites, SeenIsKept, AnchorTypes
<1>6. AnchorTypes' /\ SeenIsKept'
  BY <1>1, <1>2, <1>5 DEF AnchorTypes, SeenIsKept
<1>7. \A s \in Sessions : lastSeen[s] <= lastSeen[s]
  BY <1>1, MarksBoundsAreNat DEF AnchorTypes, Offsets
<1>8. AnchorsFollow'
  BY <1>1, <1>2, <1>5, <1>7 DEF AnchorsFollow
<1>9. QED
  BY <1>3, <1>4, <1>6, <1>8 DEF MarksInv

\* A reload starts from what is stored.
LEMMA ReopenKeeps ==
    ASSUME MarksInv, NEW flushed \in BOOLEAN, Reopen(flushed)
    PROVE  MarksInv'
<1>1. ScreenInv /\ AnchorTypes /\ BottomIsMet /\ AnchorsFollow /\ SeenIsKept
  BY DEF MarksInv
<1>2. /\ buffer' = [s \in Sessions |-> <<>>] /\ noMore' = {}
      /\ selected' = NoSession /\ auto' = TRUE /\ fetched' = {} /\ historyAsked' = {}
      /\ unanswered' = {} /\ UNCHANGED <<lines, met, carried>>
      /\ lastSeen' = stored' /\ latest' = stored'
  BY DEF Reopen
<1>3. steps' \in 0 .. MaxSteps /\ steps' \in Nat
  BY <1>1, StepCounts DEF Reopen
<1>4. ScreenInv'
  <2>1. \A s \in Sessions : buffer'[s] = <<>> /\ lines'[s] \in Nat
    BY <1>1, <1>2, MarksNumbers
  <2>2. BuffersFit'
    BY <1>2, <1>3, <2>1, FitsEmpty DEF BuffersFit
  <2>3. QED
    BY <1>1, <1>2, <1>3, <2>2 DEF ScreenInv
<1>5. stored' \in {latest, stored} /\ dirty' \in BOOLEAN /\ overtaken' \in BOOLEAN
  BY <1>1 DEF Reopen, FlushWrites, AnchorTypes
<1>6. AnchorTypes' /\ SeenIsKept'
  BY <1>1, <1>2, <1>5 DEF AnchorTypes, SeenIsKept
<1>7. BottomIsMet'
  BY <1>2, SessionsAssumption DEF BottomIsMet
<1>8. AnchorsFollow'
  <2>1. SUFFICES ASSUME NEW s \in Sessions
                 PROVE  /\ stored'[s] <= stored'[s]
                        /\ stored'[s] <= met[s] \/ stored'[s] <= carried[s]
    BY <1>2 DEF AnchorsFollow
  <2>2. /\ latest[s] <= lastSeen[s] /\ stored[s] <= lastSeen[s]
        /\ lastSeen[s] <= met[s] \/ lastSeen[s] <= carried[s]
        /\ latest[s] \in Int /\ stored[s] \in Int /\ lastSeen[s] \in Int
        /\ met[s] \in Int /\ carried[s] \in Int
    BY <1>1, MarksBoundsAreNat DEF AnchorsFollow, AnchorTypes, Offsets
  <2>3. stored'[s] = latest[s] \/ stored'[s] = stored[s]
    BY <1>5
  <2>4. QED
    BY <2>2, <2>3
<1>9. QED
  BY <1>4, <1>6, <1>7, <1>8 DEF MarksInv

\* Every step of the page keeps the invariant.
LEMMA MarksInvStep == MarksInv /\ [MarksNext]_marksVars => MarksInv'
<1> SUFFICES ASSUME MarksInv, [MarksNext]_marksVars PROVE MarksInv'
  OBVIOUS
<1>1. ASSUME NEW s \in Sessions, NEW received \in BOOLEAN, NewLine(s, received)
      PROVE  MarksInv'
  BY <1>1, NewLineKeepsScreen, MeetKeeps DEF NewLine
<1>2. ASSUME NEW s \in Sessions, RunEvent(s) PROVE MarksInv'
  BY <1>2, RunEventKeepsScreen, MeetKeeps DEF RunEvent
<1>3. ASSUME NEW s \in Sessions, Select(s) PROVE MarksInv'
  BY <1>3, SelectKeepsScreen, MeetKeeps DEF Select
<1>4. ASSUME NEW request \in historyAsked, HistoryChunk(request[1], request[2])
      PROVE  MarksInv'
  <2>1. <<request[1], request[2]>> \in historyAsked
    BY <1>4 DEF HistoryChunk
  <2>2. ScreenInv'
    BY <1>4, <2>1, ChunkKeepsScreen
  <2>3. QED
    BY <1>4, <2>2, MeetKeeps DEF HistoryChunk
<1>5. ASSUME NEW atBottom \in BOOLEAN, NEW atTop \in BOOLEAN, Scroll(atBottom, atTop)
      PROVE  MarksInv'
  BY <1>5, ScrollKeepsScreen, MeetKeeps DEF Scroll
<1>6. CASE Jump
  BY <1>6, JumpKeepsScreen, MeetKeeps DEF Jump
<1>7. CASE UNCHANGED marksVars
  <2>1. /\ UNCHANGED <<lines, buffer, noMore, selected, auto, fetched, historyAsked>>
        /\ UNCHANGED <<lastSeen, latest, stored, dirty, met, carried, overtaken>>
        /\ UNCHANGED <<unanswered, steps>>
    BY <1>7 DEF marksVars, timeline, anchor
  <2>2. ScreenInv' /\ AnchorTypes' /\ BottomIsMet' /\ AnchorsFollow' /\ SeenIsKept'
    BY <2>1 DEF MarksInv, ScreenInv, BuffersFit, AnchorTypes, BottomIsMet,
                AnchorsFollow, SeenIsKept
  <2>3. QED
    BY <2>2 DEF MarksInv
<1>8. QED
  BY <1>1, <1>2, <1>3, <1>4, <1>5, <1>6, <1>7, RebindKeeps, LeaveKeeps, MarkSeenKeeps,
     WritesKeep, ReopenKeeps DEF MarksNext

\* A mark is at a line that was shown at the bottom of the screen, now,
\* before a reload or before a rebind, and what is stored is what was marked:
\* for any sessions, logs, pages and numbers of steps (useLastSeen,
\* useSessionTimeline, useHub's history_chunk and session_rebound).
THEOREM MarksCorrect == MarksSpec => []MarksAreTrue
<1>1. MarksInv => MarksAreTrue
  BY MarksInvImplies
<1>2. QED
  BY <1>1, MarksInvInit, MarksInvStep, PTL DEF MarksSpec


-----------------------------------------------------------------------------
(* AgentProbe: versions, modes and what a process printed                  *)

NoDiff(a, b, k) == \A j \in 1 .. k - 1 : Part(a, j) = Part(b, j)

WholeVersions == Seq(Nat) \ {NoVersion}

\* Short lists, one behind the other.
LEMMA GluedTwo ==
    ASSUME NEW V, NEW x \in V, NEW y \in V
    PROVE  <<x>> \o <<y>> = <<x, y>>
<1> DEFINE s == <<x>> \o <<y>>
           t == <<x, y>>
<1>1. <<x>> \in Seq(V) /\ <<y>> \in Seq(V)
    OBVIOUS
<1>2. s \in Seq(V) /\ Len(s) = 2 /\ s[1] = x /\ s[2] = y
    BY <1>1
<1>3. t \in Seq(V) /\ Len(t) = 2 /\ t[1] = x /\ t[2] = y
    BY <1>1
<1>4. \A i \in 1 .. 2 : i = 1 \/ i = 2
    OBVIOUS
<1> HIDE DEF s, t
<1>5. \A i \in 1 .. Len(s) : s[i] = t[i]
    BY <1>2, <1>3, <1>4
<1>6. s = t
    BY <1>2, <1>3, <1>5, SeqEqual
<1> QED BY <1>6 DEF s, t

LEMMA GluedThree ==
    ASSUME NEW V, NEW x \in V, NEW y \in V, NEW z \in V
    PROVE  <<x>> \o <<y, z>> = <<x, y, z>>
<1> DEFINE s == <<x>> \o <<y, z>>
           t == <<x, y, z>>
<1>1. <<x>> \in Seq(V) /\ <<y, z>> \in Seq(V)
    OBVIOUS
<1>2. s \in Seq(V) /\ Len(s) = 3 /\ s[1] = x /\ s[2] = y /\ s[3] = z
    BY <1>1
<1>3. t \in Seq(V) /\ Len(t) = 3 /\ t[1] = x /\ t[2] = y /\ t[3] = z
    BY <1>1
<1>4. \A i \in 1 .. 3 : i = 1 \/ i = 2 \/ i = 3
    OBVIOUS
<1> HIDE DEF s, t
<1>5. \A i \in 1 .. Len(s) : s[i] = t[i]
    BY <1>2, <1>3, <1>4
<1>6. s = t
    BY <1>2, <1>3, <1>5, SeqEqual
<1> QED BY <1>6 DEF s, t

LEMMA GluedFour ==
    ASSUME NEW V, NEW x \in V, NEW y \in V, NEW z \in V, NEW u \in V
    PROVE  <<x>> \o <<y, z, u>> = <<x, y, z, u>>
<1> DEFINE s == <<x>> \o <<y, z, u>>
           t == <<x, y, z, u>>
<1>1. <<x>> \in Seq(V) /\ <<y, z, u>> \in Seq(V)
    OBVIOUS
<1>2. s \in Seq(V) /\ Len(s) = 4 /\ s[1] = x /\ s[2] = y /\ s[3] = z /\ s[4] = u
    BY <1>1
<1>3. t \in Seq(V) /\ Len(t) = 4 /\ t[1] = x /\ t[2] = y /\ t[3] = z /\ t[4] = u
    BY <1>1
<1>4. \A i \in 1 .. 4 : i = 1 \/ i = 2 \/ i = 3 \/ i = 4
    OBVIOUS
<1> HIDE DEF s, t
<1>5. \A i \in 1 .. Len(s) : s[i] = t[i]
    BY <1>2, <1>3, <1>4
<1>6. s = t
    BY <1>2, <1>3, <1>5, SeqEqual
<1> QED BY <1>6 DEF s, t

LEMMA FirstTwo ==
    ASSUME NEW V, NEW x \in V, NEW y \in V, NEW z \in V
    PROVE  SubSeq(<<x, y, z>>, 1, 2) = <<x, y>>
<1> DEFINE s == SubSeq(<<x, y, z>>, 1, 2)
           t == <<x, y>>
<1>1. <<x, y, z>> \in Seq(V)
    OBVIOUS
<1>2. s \in Seq(V) /\ Len(s) = 2 /\ s[1] = x /\ s[2] = y
    BY <1>1
<1>3. t \in Seq(V) /\ Len(t) = 2 /\ t[1] = x /\ t[2] = y
    BY <1>1
<1>4. \A i \in 1 .. 2 : i = 1 \/ i = 2
    OBVIOUS
<1> HIDE DEF s, t
<1>5. \A i \in 1 .. Len(s) : s[i] = t[i]
    BY <1>2, <1>3, <1>4
<1>6. s = t
    BY <1>2, <1>3, <1>5, SeqEqual
<1> QED BY <1>6 DEF s, t

LEMMA NumbersGlued ==
    \A x \in Nat, y \in Nat, z \in Nat :
        /\ <<x>> \o <<y>> = <<x, y>> /\ <<>> \o <<x, y>> = <<x, y>>
        /\ <<2>> \o <<x, y>> = <<2, x, y>> /\ <<2>> \o <<x, y, z>> = <<2, x, y, z>>
<1> DEFINE V == Nat
           two == 2
<1>1. two \in V
    OBVIOUS
<1>2. \A x \in V, y \in V : <<>> \o <<x, y>> = <<x, y>>
    <2>1. \A x \in V, y \in V : <<x, y>> \in Seq(V)
        OBVIOUS
    <2>2. \A t \in Seq(V) : <<>> \o t = t
        BY ConcatEmptySeq
    <2> QED BY <2>1, <2>2
<1> HIDE DEF V, two
<1>3. ASSUME NEW x \in V, NEW y \in V, NEW z \in V
      PROVE  /\ <<x>> \o <<y>> = <<x, y>>
             /\ <<two>> \o <<x, y>> = <<two, x, y>> /\ <<two>> \o <<x, y, z>> = <<two, x, y, z>>
    <2>1. <<x>> \o <<y>> = <<x, y>>
        BY GluedTwo
    <2>2. <<two>> \o <<x, y>> = <<two, x, y>>
        BY <1>1, GluedThree
    <2>3. <<two>> \o <<x, y, z>> = <<two, x, y, z>>
        BY <1>1, GluedFour
    <2> QED BY <2>1, <2>2, <2>3
<1> QED BY <1>2, <1>3 DEF V, two

LEMMA PartTyped ==
    ASSUME NEW v \in Seq(Nat)
    PROVE  /\ \A i \in Nat \ {0} : Part(v, i) \in Nat
           /\ \A i \in DOMAIN v : i \in Nat \ {0}
    BY DEF Part

\* WholeVersions are compared by the first part in which they differ.
LEMMA ComparedAt ==
    ASSUME NEW a \in Seq(Nat), NEW b \in Seq(Nat)
    PROVE  \/ /\ CmpVersion(a, b) = 0
              /\ \A i \in Nat \ {0} : Part(a, i) = Part(b, i)
           \/ \E k \in Nat \ {0} :
                /\ NoDiff(a, b, k) /\ Part(a, k) # Part(b, k)
                /\ CmpVersion(a, b) = IF Part(a, k) < Part(b, k) THEN -1 ELSE 1
<1> DEFINE diff == {i \in DOMAIN a \union DOMAIN b : Part(a, i) # Part(b, i)}
<1>1. diff \in SUBSET (Nat \ {0})
    BY PartTyped
<1>2. \A i \in Nat \ {0} : i \notin diff => Part(a, i) = Part(b, i)
    BY DEF Part
<1>3. CmpVersion(a, b) = IF diff = {} THEN 0
                         ELSE IF Part(a, Min(diff)) < Part(b, Min(diff)) THEN -1 ELSE 1
    BY DEF CmpVersion
<1>4. \A i \in diff : Part(a, i) # Part(b, i)
    OBVIOUS
<1> HIDE DEF diff
<1>5. CASE diff = {}
    BY <1>2, <1>3, <1>5
<1>6. CASE diff # {}
    <2>1. Min(diff) \in diff /\ \A y \in diff : Min(diff) <= y
        BY <1>1, <1>6, MinOfNumbers
    <2> DEFINE k == Min(diff)
    <2>2. k \in Nat \ {0} /\ Part(a, k) # Part(b, k)
        BY <1>1, <1>4, <2>1
    <2>3. NoDiff(a, b, k)
        <3> HIDE DEF k
        <3>1. \A j \in 1 .. k - 1 : j \in Nat \ {0} /\ ~ (k <= j)
            BY <2>2
        <3> QED BY <1>2, <2>1, <3>1 DEF NoDiff, k
    <2> QED BY <1>3, <1>6, <2>2, <2>3
<1> QED BY <1>5, <1>6

\* One version is below another at the first part in which they differ.
Below(a, b, k) == NoDiff(a, b, k) /\ Part(a, k) < Part(b, k)
Same(a, b) == \A i \in Nat \ {0} : Part(a, i) = Part(b, i)

LEMMA ComparedAs ==
    ASSUME NEW a \in Seq(Nat), NEW b \in Seq(Nat)
    PROVE  \/ CmpVersion(a, b) = 0 /\ Same(a, b)
           \/ CmpVersion(a, b) = -1 /\ \E k \in Nat \ {0} : Below(a, b, k)
           \/ CmpVersion(a, b) = 1 /\ \E k \in Nat \ {0} : Below(b, a, k)
<1>1. CASE CmpVersion(a, b) = 0 /\ \A i \in Nat \ {0} : Part(a, i) = Part(b, i)
    BY <1>1 DEF Same
<1>2. ASSUME NEW k \in Nat \ {0}, NoDiff(a, b, k), Part(a, k) # Part(b, k),
             CmpVersion(a, b) = IF Part(a, k) < Part(b, k) THEN -1 ELSE 1
      PROVE  \/ CmpVersion(a, b) = -1 /\ Below(a, b, k)
             \/ CmpVersion(a, b) = 1 /\ Below(b, a, k)
    <2>1. Part(a, k) \in Nat /\ Part(b, k) \in Nat
        BY PartTyped
    <2>2. NoDiff(b, a, k)
        BY <1>2 DEF NoDiff
    <2>3. CASE Part(a, k) < Part(b, k)
        BY <1>2, <2>3 DEF Below
    <2>4. CASE Part(b, k) < Part(a, k)
        <3>1. ~ (Part(a, k) < Part(b, k))
            BY <2>1, <2>4
        <3> QED BY <1>2, <2>2, <2>4, <3>1 DEF Below
    <2> QED BY <1>2, <2>1, <2>3, <2>4
<1> QED BY <1>1, <1>2, ComparedAt

LEMMA BelowOn ==
    ASSUME NEW a \in Seq(Nat), NEW b \in Seq(Nat), NEW c \in Seq(Nat),
           NEW m \in Nat \ {0}, NEW n \in Nat \ {0}, Below(a, b, m), Below(b, c, n)
    PROVE  \E k \in Nat \ {0} : Below(a, c, k)
<1>1. \A i \in Nat \ {0} : Part(a, i) \in Nat /\ Part(b, i) \in Nat /\ Part(c, i) \in Nat
    BY PartTyped
<1>2. /\ \A j \in 1 .. m - 1 : Part(a, j) = Part(b, j)
      /\ \A j \in 1 .. n - 1 : Part(b, j) = Part(c, j)
      /\ Part(a, m) < Part(b, m) /\ Part(b, n) < Part(c, n)
    BY DEF Below, NoDiff
<1>3. CASE m <= n
    <2>1. \A j \in 1 .. m - 1 : Part(a, j) = Part(c, j)
        <3>1. \A j \in 1 .. m - 1 : j \in 1 .. n - 1
            BY <1>3
        <3> QED BY <1>2, <3>1
    <2>2. Part(b, m) <= Part(c, m)
        <3>1. CASE m = n
            BY <1>1, <1>2, <3>1
        <3>2. CASE m # n
            <4>1. m \in 1 .. n - 1
                BY <1>3, <3>2
            <4> QED BY <1>1, <1>2, <4>1
        <3> QED BY <3>1, <3>2
    <2>3. Part(a, m) < Part(c, m)
        BY <1>1, <1>2, <2>2
    <2> QED BY <2>1, <2>3 DEF Below, NoDiff
<1>4. CASE n < m
    <2>1. \A j \in 1 .. n - 1 : Part(a, j) = Part(c, j)
        <3>1. \A j \in 1 .. n - 1 : j \in 1 .. m - 1
            BY <1>4
        <3> QED BY <1>2, <3>1
    <2>2. n \in 1 .. m - 1
        BY <1>4
    <2>3. Part(a, n) < Part(c, n)
        BY <1>2, <2>2
    <2> QED BY <2>1, <2>3 DEF Below, NoDiff
<1> QED BY <1>3, <1>4

LEMMA SameOn ==
    ASSUME NEW a, NEW b, NEW c, NEW k \in Nat \ {0}
    PROVE  /\ Same(a, b) /\ Below(b, c, k) => Below(a, c, k)
           /\ Below(a, b, k) /\ Same(b, c) => Below(a, c, k)
<1>1. \A j \in 1 .. k - 1 : j \in Nat \ {0}
    OBVIOUS
<1>2. ASSUME Same(a, b), Below(b, c, k) PROVE Below(a, c, k)
    BY <1>1, <1>2 DEF Same, Below, NoDiff
<1>3. ASSUME Below(a, b, k), Same(b, c) PROVE Below(a, c, k)
    BY <1>1, <1>3 DEF Same, Below, NoDiff
<1> QED BY <1>2, <1>3

LEMMA NotBelowItself ==
    ASSUME NEW a \in Seq(Nat), NEW k \in Nat \ {0}
    PROVE  ~ Below(a, a, k)
<1>1. Part(a, k) \in Nat
    BY PartTyped
<1> QED BY <1>1 DEF Below

\* The comparison is an order.
LEMMA ComparedOn ==
    ASSUME NEW a \in Seq(Nat), NEW b \in Seq(Nat), NEW c \in Seq(Nat),
           CmpVersion(a, b) <= 0, CmpVersion(b, c) <= 0
    PROVE  CmpVersion(a, c) <= 0
<1>1. SUFFICES ASSUME CmpVersion(a, c) > 0 PROVE FALSE
    <2>1. CmpVersion(a, c) \in {-1, 0, 1}
        BY ComparedAs
    <2> QED BY <2>1
<1>2. PICK k \in Nat \ {0} : Below(c, a, k)
    <2>1. CmpVersion(a, c) # 0 /\ CmpVersion(a, c) # -1
        BY <1>1
    <2> QED BY <2>1, ComparedAs
<1>3. Same(a, b) \/ \E m \in Nat \ {0} : Below(a, b, m)
    <2>1. CmpVersion(a, b) # 1
        OBVIOUS
    <2> QED BY <2>1, ComparedAs
<1>4. Same(b, c) \/ \E m \in Nat \ {0} : Below(b, c, m)
    <2>1. CmpVersion(b, c) # 1
        OBVIOUS
    <2> QED BY <2>1, ComparedAs
<1>5. \E m \in Nat \ {0} : Below(c, b, m)
    BY <1>2, <1>3, BelowOn, SameOn
<1>6. \E m \in Nat \ {0} : Below(c, c, m)
    BY <1>4, <1>5, BelowOn, SameOn
<1> QED BY <1>6, NotBelowItself

LEMMA ComparedBack ==
    ASSUME NEW a \in Seq(Nat), NEW b \in Seq(Nat)
    PROVE  CmpVersion(b, a) >= 0 <=> CmpVersion(a, b) <= 0
<1>1. \A x \in Nat \ {0}, y \in Nat \ {0} : ~ (Below(a, b, x) /\ Below(b, a, y))
    BY BelowOn, NotBelowItself
<1>2. Same(a, b) <=> Same(b, a)
    BY DEF Same
<1>3. \A x \in Nat \ {0} : Same(a, b) => ~ Below(a, b, x) /\ ~ Below(b, a, x)
    <2>1. ASSUME NEW x \in Nat \ {0}, Same(a, b), Below(a, b, x) PROVE FALSE
        <3>1. Below(b, b, x)
            BY <1>2, <2>1, SameOn
        <3> QED BY <3>1, NotBelowItself
    <2>2. ASSUME NEW x \in Nat \ {0}, Same(a, b), Below(b, a, x) PROVE FALSE
        <3>1. Below(a, a, x)
            BY <2>2, SameOn
        <3> QED BY <3>1, NotBelowItself
    <2> QED BY <2>1, <2>2
<1>4. /\ CmpVersion(a, b) = 0 \/ CmpVersion(a, b) = -1 \/ CmpVersion(a, b) = 1
      /\ CmpVersion(a, b) = 0 => CmpVersion(b, a) = 0
      /\ CmpVersion(a, b) = -1 => CmpVersion(b, a) = 1
      /\ CmpVersion(a, b) = 1 => CmpVersion(b, a) = -1
    <2>1. \/ CmpVersion(a, b) = 0 /\ Same(a, b)
          \/ CmpVersion(a, b) = -1 /\ \E k \in Nat \ {0} : Below(a, b, k)
          \/ CmpVersion(a, b) = 1 /\ \E k \in Nat \ {0} : Below(b, a, k)
        BY ComparedAs
    <2>2. \/ CmpVersion(b, a) = 0 /\ Same(b, a)
          \/ CmpVersion(b, a) = -1 /\ \E k \in Nat \ {0} : Below(b, a, k)
          \/ CmpVersion(b, a) = 1 /\ \E k \in Nat \ {0} : Below(a, b, k)
        BY ComparedAs
    <2> QED BY <1>1, <1>2, <1>3, <2>1, <2>2
<1> QED BY <1>4

(***************************************************************************)
(* A newer version of `claude`, with whatever number of parts, has every   *)
(* capability of an older one (agent-probe.ts capabilitiesFor).            *)
(***************************************************************************)
THEOREM NewerIsAble ==
    ASSUME NEW a \in WholeVersions, NEW b \in WholeVersions, CmpVersion(a, b) <= 0
    PROVE  CapabilitiesFor(a) \subseteq CapabilitiesFor(b)
<1>1. \A bit \in GatedBits : Since(bit) \in Seq(Nat)
    BY DEF GatedBits, Since
<1>2. ASSUME NEW bit \in GatedBits, Gte(a, Since(bit)) PROVE Gte(b, Since(bit))
    <2>1. CmpVersion(Since(bit), a) <= 0
        BY <1>1, <1>2, ComparedBack DEF Gte, WholeVersions
    <2>2. CmpVersion(Since(bit), b) <= 0
        BY <1>1, <2>1, ComparedOn DEF WholeVersions
    <2> QED BY <1>1, <2>2, ComparedBack DEF Gte, WholeVersions
<1> QED BY <1>2 DEF CapabilitiesFor

\* The small versions.
LEMMA SmallVersions ==
    ASSUME NEW v \in SomeVersions
    PROVE  /\ v \in WholeVersions
           /\ Part(v, 1) = 2 /\ Part(v, 2) \in 0 .. 2 /\ Part(v, 3) \in 0 .. 2 /\ Part(v, 4) \in 0 .. 2
           /\ \A i \in Nat : i > 4 => Part(v, i) = 0
<1>1. ASSUME NEW w \in [1 .. 2 -> 0 .. 2], v = << 2 >> \o w
      PROVE  v = <<2, w[1], w[2]>> /\ w[1] \in 0 .. 2 /\ w[2] \in 0 .. 2
    <2>1. w[1] \in 0 .. 2 /\ w[2] \in 0 .. 2
        OBVIOUS
    <2>2. w = <<w[1], w[2]>>
        <3>1. w \in Seq(0 .. 2) /\ Len(w) = 2
            <4>1. w \in [1 .. 2 -> 0 .. 2]
                OBVIOUS
            <4>2. 2 \in Nat
                OBVIOUS
            <4>3. \A s, n : n \in Nat /\ s \in [1 .. n -> 0 .. 2] => s \in Seq(0 .. 2) /\ Len(s) = n
                BY LenProperties, SeqDef
            <4> QED BY <4>1, <4>2, <4>3
        <3> QED BY <3>1
    <2>3. \A x \in 0 .. 2, y \in 0 .. 2 : <<2>> \o <<x, y>> = <<2, x, y>>
        <3>1. 0 .. 2 \subseteq Nat
            OBVIOUS
        <3> QED BY <3>1, NumbersGlued
    <2> QED BY <1>1, <2>1, <2>2, <2>3
<1>2. ASSUME NEW w \in [1 .. 3 -> 0 .. 2], v = << 2 >> \o w
      PROVE  v = <<2, w[1], w[2], w[3]>> /\ w[1] \in 0 .. 2 /\ w[2] \in 0 .. 2 /\ w[3] \in 0 .. 2
    <2>1. w[1] \in 0 .. 2 /\ w[2] \in 0 .. 2 /\ w[3] \in 0 .. 2
        OBVIOUS
    <2>2. w = <<w[1], w[2], w[3]>>
        OBVIOUS
    <2>3. \A x \in 0 .. 2, y \in 0 .. 2, z \in 0 .. 2 : <<2>> \o <<x, y, z>> = <<2, x, y, z>>
        <3>1. 0 .. 2 \subseteq Nat
            OBVIOUS
        <3> QED BY <3>1, NumbersGlued
    <2> QED BY <1>2, <2>1, <2>2, <2>3
<1>3. \/ \E x \in 0 .. 2, y \in 0 .. 2 : v = <<2, x, y>>
      \/ \E x \in 0 .. 2, y \in 0 .. 2, z \in 0 .. 2 : v = <<2, x, y, z>>
    BY <1>1, <1>2 DEF SomeVersions
<1>4. ASSUME NEW x \in 0 .. 2, NEW y \in 0 .. 2, v = <<2, x, y>>
      PROVE  /\ v \in WholeVersions
             /\ Part(v, 1) = 2 /\ Part(v, 2) \in 0 .. 2 /\ Part(v, 3) \in 0 .. 2 /\ Part(v, 4) \in 0 .. 2
             /\ \A i \in Nat : i > 4 => Part(v, i) = 0
    BY <1>4 DEF WholeVersions, NoVersion, Part
<1>5. ASSUME NEW x \in 0 .. 2, NEW y \in 0 .. 2, NEW z \in 0 .. 2, v = <<2, x, y, z>>
      PROVE  /\ v \in WholeVersions
             /\ Part(v, 1) = 2 /\ Part(v, 2) \in 0 .. 2 /\ Part(v, 3) \in 0 .. 2 /\ Part(v, 4) \in 0 .. 2
             /\ \A i \in Nat : i > 4 => Part(v, i) = 0
    BY <1>5 DEF WholeVersions, NoVersion, Part
<1> QED BY <1>3, <1>4, <1>5

LEMMA ValuesCompare ==
    ASSUME NEW a \in SomeVersions, NEW b \in SomeVersions
    PROVE  /\ CmpVersion(a, b) < 0 <=> Value(a) < Value(b)
           /\ CmpVersion(a, b) = 0 <=> Value(a) = Value(b)
<1> DEFINE P == [i \in 1 .. 4 |-> Part(a, i)]
           Q == [i \in 1 .. 4 |-> Part(b, i)]
<1>1. /\ a \in Seq(Nat) /\ b \in Seq(Nat) /\ Part(a, 1) = 2 /\ Part(b, 1) = 2
      /\ \A i \in 2 .. 4 : Part(a, i) \in 0 .. 2 /\ Part(b, i) \in 0 .. 2
      /\ \A i \in Nat : i > 4 => Part(a, i) = 0 /\ Part(b, i) = 0
    <2>1. \A i \in 2 .. 4 : i = 2 \/ i = 3 \/ i = 4
        OBVIOUS
    <2> QED BY <2>1, SmallVersions DEF WholeVersions
<1>2. 2 \in 2 .. 4 /\ 3 \in 2 .. 4 /\ 4 \in 2 .. 4
    OBVIOUS
<1>3. CASE CmpVersion(a, b) = 0 /\ \A i \in Nat \ {0} : Part(a, i) = Part(b, i)
    <2>1. Part(a, 2) = Part(b, 2) /\ Part(a, 3) = Part(b, 3) /\ Part(a, 4) = Part(b, 4)
        BY <1>3
    <2> QED BY <1>1, <1>2, <1>3, <2>1 DEF Value
<1>4. ASSUME NEW k \in Nat \ {0}, NoDiff(a, b, k), Part(a, k) # Part(b, k),
             CmpVersion(a, b) = IF Part(a, k) < Part(b, k) THEN -1 ELSE 1
      PROVE  /\ CmpVersion(a, b) < 0 <=> Value(a) < Value(b)
             /\ CmpVersion(a, b) = 0 <=> Value(a) = Value(b)
    <2>1. k = 2 \/ k = 3 \/ k = 4
        BY <1>1, <1>4
    <2>2. /\ k > 2 => Part(a, 2) = Part(b, 2)
          /\ k > 3 => Part(a, 3) = Part(b, 3)
        BY <1>4, <2>1 DEF NoDiff
    <2>3. \A a2, a3, a4, b2, b3, b4 \in 0 .. 2 :
            /\ a2 < b2 => 27 * 2 + 9 * a2 + 3 * a3 + a4 < 27 * 2 + 9 * b2 + 3 * b3 + b4
            /\ a2 = b2 /\ a3 < b3 => 27 * 2 + 9 * a2 + 3 * a3 + a4 < 27 * 2 + 9 * b2 + 3 * b3 + b4
            /\ a2 = b2 /\ a3 = b3 /\ a4 < b4 => 27 * 2 + 9 * a2 + 3 * a3 + a4 < 27 * 2 + 9 * b2 + 3 * b3 + b4
        OBVIOUS
    <2>4. /\ Value(a) = 27 * 2 + 9 * Part(a, 2) + 3 * Part(a, 3) + Part(a, 4)
          /\ Value(b) = 27 * 2 + 9 * Part(b, 2) + 3 * Part(b, 3) + Part(b, 4)
        BY <1>1 DEF Value
    <2>5. /\ Part(a, 2) \in 0 .. 2 /\ Part(a, 3) \in 0 .. 2 /\ Part(a, 4) \in 0 .. 2
          /\ Part(b, 2) \in 0 .. 2 /\ Part(b, 3) \in 0 .. 2 /\ Part(b, 4) \in 0 .. 2
        BY <1>1, <1>2
    <2>6. CASE k = 2
        <3>1. /\ Part(a, k) < Part(b, k) => Value(a) < Value(b)
              /\ Part(b, k) < Part(a, k) => Value(b) < Value(a)
            BY <2>3, <2>4, <2>5, <2>6
        <3>2. Value(a) \in Int /\ Value(b) \in Int /\ Part(a, k) \in Int /\ Part(b, k) \in Int
            BY <2>4, <2>5, <2>6
        <3> QED BY <1>4, <3>1, <3>2
    <2>7. CASE k = 3
        <3>1. /\ Part(a, k) < Part(b, k) => Value(a) < Value(b)
              /\ Part(b, k) < Part(a, k) => Value(b) < Value(a)
            BY <2>2, <2>3, <2>4, <2>5, <2>7
        <3>2. Value(a) \in Int /\ Value(b) \in Int /\ Part(a, k) \in Int /\ Part(b, k) \in Int
            BY <2>4, <2>5, <2>7
        <3> QED BY <1>4, <3>1, <3>2
    <2>8. CASE k = 4
        <3>1. /\ Part(a, k) < Part(b, k) => Value(a) < Value(b)
              /\ Part(b, k) < Part(a, k) => Value(b) < Value(a)
            BY <2>2, <2>3, <2>4, <2>5, <2>8
        <3>2. Value(a) \in Int /\ Value(b) \in Int /\ Part(a, k) \in Int /\ Part(b, k) \in Int
            BY <2>4, <2>5, <2>8
        <3> QED BY <1>4, <3>1, <3>2
    <2> QED BY <2>1, <2>6, <2>7, <2>8
<1> QED BY <1>1, <1>3, <1>4, ComparedAt

LEMMA NothingMisordered == Misordered = {}
<1>1. \A v \in SomeVersions : v \in WholeVersions /\ v \in Seq(Nat) /\ Value(v) \in Int
    <2>1. ASSUME NEW v \in SomeVersions PROVE Value(v) \in Int
        <3>1. Part(v, 1) \in Int /\ Part(v, 2) \in Int /\ Part(v, 3) \in Int /\ Part(v, 4) \in Int
            BY SmallVersions
        <3> QED BY <3>1 DEF Value
    <2> QED BY <2>1, SmallVersions DEF WholeVersions
<1>2. ASSUME NEW a \in SomeVersions, NEW b \in SomeVersions
      PROVE  /\ CmpVersion(a, b) < 0 <=> Value(a) < Value(b)
             /\ CmpVersion(a, b) = 0 <=> Value(a) = Value(b)
             /\ Value(a) <= Value(b) => CapabilitiesFor(a) \subseteq CapabilitiesFor(b)
    <2>1. /\ CmpVersion(a, b) < 0 <=> Value(a) < Value(b)
          /\ CmpVersion(a, b) = 0 <=> Value(a) = Value(b)
        BY ValuesCompare
    <2>2. CmpVersion(a, b) \in {-1, 0, 1}
        BY <1>1, ComparedAs
    <2>3. Value(a) <= Value(b) => CmpVersion(a, b) <= 0
        BY <1>1, <2>1, <2>2
    <2> QED BY <1>1, <2>1, <2>3, NewerIsAble
<1>3. ASSUME NEW p \in SomeVersions \X SomeVersions PROVE p \notin Misordered
    <2>1. p[1] \in SomeVersions /\ p[2] \in SomeVersions
        BY <1>3
    <2>2. /\ CmpVersion(p[1], p[2]) < 0 <=> Value(p[1]) < Value(p[2])
          /\ CmpVersion(p[1], p[2]) = 0 <=> Value(p[1]) = Value(p[2])
          /\ Value(p[1]) <= Value(p[2]) => CapabilitiesFor(p[1]) \subseteq CapabilitiesFor(p[2])
        BY <1>2, <2>1
    <2> DEFINE below == CmpVersion(p[1], p[2]) < 0
               same == CmpVersion(p[1], p[2]) = 0
               less == Value(p[1]) < Value(p[2])
               equal == Value(p[1]) = Value(p[2])
               most == Value(p[1]) <= Value(p[2])
               able == CapabilitiesFor(p[1]) \subseteq CapabilitiesFor(p[2])
    <2>3. (below <=> less) /\ (same <=> equal) /\ (most => able)
        BY <2>2
    <2>4. p \in Misordered => (below # less) \/ (same # equal) \/ (most /\ ~ able)
        BY DEF Misordered
    <2>5. below \in BOOLEAN /\ less \in BOOLEAN /\ same \in BOOLEAN /\ equal \in BOOLEAN
        OBVIOUS
    <2> HIDE DEF below, same, less, equal, most, able
    <2> QED BY <2>3, <2>4, <2>5
<1> QED BY <1>3 DEF Misordered

-----------------------------------------------------------------------------
(* The default mode *)

LEMMA NoModeMistaken == MistakenModes = {}
<1>1. ASSUME NEW f \in Files, NEW g \in Files PROVE <<f, g>> \notin MistakenModes
    <2> DEFINE mode == ReadDefaultMode(f, g)
    <2>1. /\ f \in {"plan", "default"} => mode = f
          /\ mode = Null \/ mode = f \/ (mode = g /\ f # NoKey)
        BY DEF ReadDefaultMode, ReadSettingsMode, Files, NoFile, Unparseable, NoKey, Null
    <2> QED BY <2>1, Zenon DEF MistakenModes
<1> QED BY <1>1 DEF MistakenModes
-----------------------------------------------------------------------------
(* What a process printed *)

DigitStep == [q \in Nat \X Nat |-> 10 * q[1] + q[2]]

LEMMA DigitSteps ==
    /\ StepOf(DigitStep, Nat, Nat)
    /\ \A n \in Nat, d \in Nat : DigitStep[<<n, d>>] = 10 * n + d /\ 10 * n + d \in Nat
<1>1. \A n \in Nat, d \in Nat : 10 * n + d \in Nat
    OBVIOUS
<1>2. \A q \in Nat \X Nat : 10 * q[1] + q[2] \in Nat
    BY <1>1
<1>3. DigitStep \in [Nat \X Nat -> Nat]
    BY <1>2 DEF DigitStep
<1>4. \A n \in Nat, d \in Nat : DigitStep[<<n, d>>] = 10 * n + d
    BY DEF DigitStep
<1> QED BY <1>1, <1>3, <1>4 DEF StepOf

\* The fold of the code's function is what the loop leaves.
LEMMA DigitFolds ==
    ASSUME NEW k \in Nat, NEW c \in Seq(Nat)
    PROVE  FoldLeft(LAMBDA n, d : 10 * n + d, k, c) = Folded(DigitStep, k, c)
<1> DEFINE Fold(f) == f = [s \in SUBSET DOMAIN c |->
                              IF s = {} THEN k
                              ELSE 10 * f[s \ {Max(s)}] + c[Max(s)]]
           fold == CHOOSE f : Fold(f)
<1>1. StepOf(DigitStep, Nat, Nat)
  BY DigitSteps
<1>2. PICK iter \in [SUBSET DOMAIN c -> Nat] :
        CalculatesTyped(DigitStep, Nat, Nat, k, c, iter)
  BY <1>1, LoopExists
<1>3. Fold(iter)
  BY <1>2, DigitSteps DEF CalculatesTyped
<1>4. Fold(fold)
  <2> HIDE DEF Fold
  <2>1. QED
    BY <1>3
<1>5. FoldLeft(LAMBDA n, d : 10 * n + d, k, c) = fold[DOMAIN c]
  BY Zenon DEF FoldLeft, MapThenFoldSet
<1> HIDE DEF fold
<1>6. Calculates(DigitStep, Nat, Nat, k, c, fold)
  BY <1>4, DigitSteps DEF Calculates
<1> HIDE DEF Fold
<1>7. fold[DOMAIN c] = Folded(DigitStep, k, c)
  BY <1>1, <1>6, LoopIsFolded
<1>8. QED
  BY <1>5, <1>7

LEMMA NumberGrows ==
    /\ NumberOf(<<>>) = 0
    /\ \A digits \in Seq(Nat), d \in Nat :
         /\ NumberOf(digits) \in Nat
         /\ NumberOf(Append(digits, d)) = 10 * NumberOf(digits) + d
<1>1. StepOf(DigitStep, Nat, Nat) /\ 0 \in Nat /\ <<>> \in Seq(Nat)
    BY DigitSteps
<1>2. \A c \in Seq(Nat) : NumberOf(c) = Folded(DigitStep, 0, c)
    BY <1>1, DigitFolds DEF NumberOf
<1>3. Folded(DigitStep, 0, <<>>) = 0
    BY <1>1, FoldedNothing
<1>4. \A c \in Seq(Nat) : Folded(DigitStep, 0, c) \in Nat
    BY <1>1, FoldedType
<1>5. \A c \in Seq(Nat), d \in Nat :
        Folded(DigitStep, 0, Append(c, d)) = DigitStep[<<Folded(DigitStep, 0, c), d>>]
    BY <1>1, FoldedAppend
<1>6. \A c \in Seq(Nat), d \in Nat : Append(c, d) \in Seq(Nat)
    OBVIOUS
<1>7. NumberOf(<<>>) = 0
    BY <1>1, <1>2, <1>3
<1>8. \A c \in Seq(Nat), d \in Nat : NumberOf(c) \in Nat /\ NumberOf(Append(c, d)) = 10 * NumberOf(c) + d
    BY <1>2, <1>4, <1>5, <1>6, DigitSteps
<1> QED BY <1>7, <1>8

LEMMA TwoJoined ==
    ASSUME NEW V, NEW a \in Seq(V), NEW b \in Seq(V)
    PROVE  Joined(<<a>>) = a /\ Joined(<<a, b>>) = a \o b
<1>1. <<>> \in Seq(Seq(V)) /\ Append(<<>>, a) = <<a>> /\ <<a>> \in Seq(Seq(V)) /\ <<a, b>> = Append(<<a>>, b)
    OBVIOUS
<1>2. Joined(<<a>>) = <<>> \o a
    BY <1>1, JoinedParts
<1>3. Joined(<<a>>) = a
    BY <1>2
<1>4. Joined(<<a, b>>) = Joined(<<a>>) \o b
    BY <1>1, JoinedParts
<1> QED BY <1>3, <1>4

LEMMA PrintedIs ==
    ASSUME NEW O, NEW p \in Prints(O)
    PROVE  p.chunks \in O
<1>1. PICK chunks \in O : \E t, closes, code : p = Process(chunks, t, closes, code)
    BY DEF Prints
<1> QED BY <1>1 DEF Process

LEMMA NoHalfVersion ==
    ASSUME NEW p \in Prints(Outputs)
    PROVE  RunVersion(p) \in {NoVersion, <<2, 1, 46>>}
<1>1. Joined(p.chunks) \in {<<4, 6>>, <<>>}
    <2>1. p.chunks \in Outputs
        BY PrintedIs
    <2>2. <<4>> \in Seq(Nat) /\ <<6>> \in Seq(Nat) /\ <<>> \in Seq(Nat) /\ <<4, 6>> \in Seq(Nat)
        OBVIOUS
    <2>3. Joined(<< <<4>>, <<6>> >>) = <<4>> \o <<6>> /\ Joined(<< <<>>, <<4, 6>> >>) = <<>> \o <<4, 6>>
          /\ Joined(<<>>) = <<>>
        BY <2>2, TwoJoined, JoinedParts
    <2>4. <<4>> \o <<6>> = <<4, 6>> /\ <<>> \o <<4, 6>> = <<4, 6>>
        BY NumbersGlued
    <2> QED BY <2>1, <2>3, <2>4 DEF Outputs
<1>2. NumberOf(<<4, 6>>) = 46
    <2>1. <<>> \in Seq(Nat) /\ <<4>> \in Seq(Nat) /\ <<4>> = Append(<<>>, 4) /\ <<4, 6>> = Append(<<4>>, 6)
        OBVIOUS
    <2>2. NumberOf(<<4>>) = 10 * 0 + 4
        BY <2>1, NumberGrows
    <2>3. NumberOf(<<4, 6>>) = 10 * NumberOf(<<4>>) + 6
        BY <2>1, NumberGrows
    <2> QED BY <2>2, <2>3
<1>3. ReadWithTimeout(p) \in {NothingRead, <<4, 6>>}
    BY <1>1 DEF ReadWithTimeout, NothingRead
<1> QED BY <1>2, <1>3 DEF RunVersion

LEMMA NoHalfMode ==
    ASSUME NEW p \in Prints(ModeLists)
    PROVE  RunHelpModes(p) \in {{"plan", "auto"}, HardcodedModes}
<1> DEFINE W == {"plan", "auto", "]"}
           whole == <<"plan", "auto", "]">>
<1>1. Joined(p.chunks) \in {whole, <<"]">>, <<"plan">>}
    <2>1. p.chunks \in ModeLists
        BY PrintedIs
    <2>2. <<"plan">> \in Seq(W) /\ <<"auto", "]">> \in Seq(W) /\ <<"]">> \in Seq(W)
        OBVIOUS
    <2>3. Joined(<< <<"plan">>, <<"auto", "]">> >>) = <<"plan">> \o <<"auto", "]">>
          /\ Joined(<< <<"]">> >>) = <<"]">> /\ Joined(<< <<"plan">> >>) = <<"plan">>
        BY <2>2, TwoJoined
    <2>4. <<"plan">> \o <<"auto", "]">> = whole
        <3>1. "plan" \in W /\ "auto" \in W /\ "]" \in W
            OBVIOUS
        <3> HIDE DEF W
        <3> QED BY <3>1, GluedThree
    <2> QED BY <2>1, <2>3, <2>4 DEF ModeLists
<1>2. ReadWithTimeout(p) \in {NothingRead, whole, <<"]">>, <<"plan">>}
    BY <1>1 DEF ReadWithTimeout
<1>3. Range(Front(whole)) = {"plan", "auto"}
    <2>1. Front(whole) = <<"plan", "auto">>
        <3>1. SubSeq(whole, 1, 2) = <<"plan", "auto">>
            <4>1. "plan" \in W /\ "auto" \in W /\ "]" \in W
                OBVIOUS
            <4> HIDE DEF W
            <4> QED BY <4>1, FirstTwo
        <3>2. Len(whole) = 3
            OBVIOUS
        <3> QED BY <3>1, <3>2 DEF Front
    <2>2. Range(<<"plan", "auto">>) = {"plan", "auto"}
        BY DEF Range
    <2> QED BY <2>1, <2>2
<1>4. Last(<<"plan">>) # "]" /\ Len(<<"]">>) = 1
    BY DEF Last
<1>5. \A l : ReadWithTimeout(p) = l =>
        RunHelpModes(p) = IF l # NothingRead /\ Last(l) = "]" /\ Len(l) > 1 THEN Range(Front(l)) ELSE HardcodedModes
    BY DEF RunHelpModes
<1>6. CASE ReadWithTimeout(p) = NothingRead
    BY <1>5, <1>6
<1>7. CASE ReadWithTimeout(p) = whole
    <2>1. RunHelpModes(p) = Range(Front(whole)) \/ RunHelpModes(p) = HardcodedModes
        BY <1>5, <1>7
    <2> QED BY <1>3, <2>1
<1>8. CASE ReadWithTimeout(p) = <<"]">>
    <2>1. ~ (Len(<<"]">>) > 1)
        OBVIOUS
    <2>2. RunHelpModes(p) = HardcodedModes
        BY <1>5, <1>8, <2>1
    <2> QED BY <2>2
<1>9. CASE ReadWithTimeout(p) = <<"plan">>
    BY <1>4, <1>5, <1>9
<1> QED BY <1>2, <1>6, <1>7, <1>8, <1>9

LEMMA NoHalf == HalfBelieved = {}
BY NoHalfVersion, NoHalfMode DEF HalfBelieved

-----------------------------------------------------------------------------
(* FsRoots: what is listed is what is under a root                         *)

SlashedStep(L) == [q \in Seq(L \cup {"/"}) \X Seq(L) |-> Slashed(q[1], q[2])]

LEMMA SlashedSteps ==
    ASSUME NEW L
    PROVE  /\ StepOf(SlashedStep(L), Seq(L \cup {"/"}), Seq(L))
           /\ \A s \in Seq(L \cup {"/"}), n \in Seq(L) :
                /\ SlashedStep(L)[<<s, n>>] = Slashed(s, n)
                /\ Slashed(s, n) \in Seq(L \cup {"/"})
<1> DEFINE S == Seq(L \cup {"/"})
           M == Seq(L)
<1>1. \A s \in S, n \in M : Slashed(s, n) \in S
    BY DEF Slashed
<1> HIDE DEF S, M
<1>2. \A q \in S \X M : Slashed(q[1], q[2]) \in S
    BY <1>1
<1>3. [q \in S \X M |-> Slashed(q[1], q[2])] \in [S \X M -> S]
    BY <1>2
<1>4. \A s \in S, n \in M : [q \in S \X M |-> Slashed(q[1], q[2])][<<s, n>>] = Slashed(s, n)
    OBVIOUS
<1> QED BY <1>1, <1>3, <1>4 DEF SlashedStep, StepOf, S, M

\* The fold of the code's function is what the loop leaves.
LEMMA SlashedFolds ==
    ASSUME NEW L, NEW k \in Seq(L \cup {"/"}), NEW c \in Seq(Seq(L))
    PROVE  FoldLeft(Slashed, k, c) = Folded(SlashedStep(L), k, c)
<1> DEFINE V == Seq(L \cup {"/"})
           F == Seq(L)
           Round == SlashedStep(L)
           Fold(f) == f = [s \in SUBSET DOMAIN c |->
                              IF s = {} THEN k
                              ELSE Slashed(f[s \ {Max(s)}], c[Max(s)])]
           fold == CHOOSE f : Fold(f)
<1>1. StepOf(Round, V, F) /\ \A a \in V, b \in F : Round[<<a, b>>] = Slashed(a, b)
  BY SlashedSteps
<1>2. k \in V /\ c \in Seq(F)
  OBVIOUS
<1> HIDE DEF V, F, Round
<1>3. PICK iter \in [SUBSET DOMAIN c -> V] : CalculatesTyped(Round, V, F, k, c, iter)
  BY <1>1, <1>2, LoopExists
<1>4. Fold(iter)
  BY <1>1, <1>3 DEF CalculatesTyped
<1>5. Fold(fold)
  <2> HIDE DEF Fold
  <2>1. QED
    BY <1>4
<1>6. FoldLeft(Slashed, k, c) = fold[DOMAIN c]
  BY Zenon DEF FoldLeft, MapThenFoldSet
<1> HIDE DEF fold
<1>7. Calculates(Round, V, F, k, c, fold)
  BY <1>1, <1>5 DEF Calculates
<1> HIDE DEF Fold
<1>8. fold[DOMAIN c] = Folded(Round, k, c)
  BY <1>1, <1>2, <1>7, LoopIsFolded
<1>9. QED
  BY <1>6, <1>8 DEF Round

\* The string of a path, without the exception for "/".
Run(path) == FoldLeft(Slashed, <<>>, path)

\* After a start x the run of a path is x and the run.
LEMMA RunAfter ==
    ASSUME NEW L, NEW c \in Seq(Seq(L)), NEW x \in Seq(L \cup {"/"})
    PROVE  Folded(SlashedStep(L), x, c) = x \o Folded(SlashedStep(L), <<>>, c)
<1> DEFINE S == Seq(L \cup {"/"})
           M == Seq(L)
           R == {p \in S \X S : p[1] = x \o p[2]}
<1>1. <<>> \in S /\ x \in S /\ x \o <<>> = x
    OBVIOUS
<1>2. \A a \in S, b \in S, f \in M : a = x \o b => Slashed(a, f) = x \o Slashed(b, f)
    BY DEF Slashed
<1>3. StepOf(SlashedStep(L), S, M)
      /\ \A s \in S, n \in M : SlashedStep(L)[<<s, n>>] = Slashed(s, n) /\ Slashed(s, n) \in S
    BY SlashedSteps
<1>4. c \in Seq(M)
    OBVIOUS
<1> HIDE DEF S, M
<1>5. ASSUME NEW a \in S, NEW b \in S, NEW f \in M, <<a, b>> \in R
      PROVE  <<SlashedStep(L)[<<a, f>>], SlashedStep(L)[<<b, f>>]>> \in R
    <2>1. a = x \o b
        BY <1>5
    <2>2. /\ SlashedStep(L)[<<a, f>>] = Slashed(a, f) /\ Slashed(a, f) \in S
          /\ SlashedStep(L)[<<b, f>>] = Slashed(b, f) /\ Slashed(b, f) \in S
        BY <1>3
    <2>3. Slashed(a, f) = x \o Slashed(b, f)
        BY <1>2, <2>1
    <2> DEFINE y == Slashed(a, f)
               z == Slashed(b, f)
    <2> HIDE DEF y, z
    <2>4. <<y, z>> \in R
        BY <2>2, <2>3 DEF y, z
    <2> QED BY <2>2, <2>4 DEF y, z
<1>6. <<x, <<>> >> \in R /\ R \in SUBSET (S \X S)
    BY <1>1
<1> HIDE DEF R
<1>7. <<Folded(SlashedStep(L), x, c), Folded(SlashedStep(L), <<>>, c)>> \in R
    BY <1>1, <1>3, <1>4, <1>5, <1>6, FoldedRelates
<1> QED BY <1>7 DEF R

\* A run of a path, and of the rest of it.
RunIs(T, c) ==
    /\ Run(c) \in T
    /\ c = <<>> => Run(c) = <<>>
    /\ c # <<>> => /\ Run(Tail(c)) \in T
                   /\ Run(c) = <<"/">> \o Head(c) \o Run(Tail(c))
                   /\ Run(c) # <<>> /\ Run(c)[1] = "/"

LEMMA RunParts ==
    ASSUME NEW L, NEW c \in Seq(Seq(L))
    PROVE  RunIs(Seq(L \cup {"/"}), c)
<1> DEFINE S == Seq(L \cup {"/"})
           M == Seq(L)
<1>1. <<>> \in S
    OBVIOUS
<1>2. StepOf(SlashedStep(L), S, M)
      /\ \A s \in S, n \in M : SlashedStep(L)[<<s, n>>] = Slashed(s, n) /\ Slashed(s, n) \in S
    BY SlashedSteps
<1>3. \A d \in Seq(M) : Run(d) = Folded(SlashedStep(L), <<>>, d)
    BY <1>1, SlashedFolds DEF Run
<1>4. \A d \in Seq(M) : Run(d) \in S
    <2> HIDE DEF S, M
    <2>1. \A d \in Seq(M) : Folded(SlashedStep(L), <<>>, d) \in S
        BY <1>1, <1>2, FoldedType
    <2> QED BY <1>3, <2>1
<1>5. ASSUME c = <<>> PROVE Run(c) = <<>>
    <2>1. Folded(SlashedStep(L), <<>>, <<>>) = <<>>
        <3> HIDE DEF S, M
        <3> QED BY <1>1, <1>2, FoldedNothing
    <2> QED BY <1>3, <1>5, <2>1
<1>6. ASSUME c # <<>> PROVE Run(c) = <<"/">> \o Head(c) \o Run(Tail(c))
    <2>1. Head(c) \in M /\ Tail(c) \in Seq(M)
        BY <1>6
    <2>2. Folded(SlashedStep(L), <<>>, c)
              = Folded(SlashedStep(L), SlashedStep(L)[<< <<>>, Head(c)>>], Tail(c))
        <3> HIDE DEF S
        <3> QED BY <1>1, <1>2, <1>6, FoldedTail
    <2>3. SlashedStep(L)[<< <<>>, Head(c)>>] = Slashed(<<>>, Head(c)) /\ Slashed(<<>>, Head(c)) \in S
        BY <1>1, <1>2, <2>1
    <2>4. Slashed(<<>>, Head(c)) = <<"/">> \o Head(c)
        BY <2>1 DEF Slashed
    <2> DEFINE x == <<"/">> \o Head(c)
    <2>5. Folded(SlashedStep(L), x, Tail(c)) = x \o Folded(SlashedStep(L), <<>>, Tail(c))
        BY <2>1, <2>3, <2>4, RunAfter
    <2> QED BY <1>3, <2>1, <2>2, <2>3, <2>4, <2>5
<1>7. c # <<>> => Tail(c) \in Seq(M) /\ Head(c) \in M
    OBVIOUS
<1>8. \A h \in M, w \in S : (<<"/">> \o h \o w) # <<>> /\ (<<"/">> \o h \o w)[1] = "/"
    OBVIOUS
<1>9. c \in Seq(M)
    OBVIOUS
<1> HIDE DEF S, M
<1>10. c # <<>> => Run(c) # <<>> /\ Run(c)[1] = "/" /\ Run(Tail(c)) \in S
    BY <1>4, <1>6, <1>7, <1>8
<1>11. RunIs(S, c)
    BY <1>4, <1>5, <1>6, <1>7, <1>9, <1>10 DEF RunIs
<1> QED BY <1>11 DEF S

\* s is how t begins.
Starts(s, t) == Len(s) <= Len(t) /\ \A i \in 1 .. Len(s) : t[i] = s[i]

LEMMA PrefixStarts ==
    ASSUME NEW S, NEW s \in Seq(S), NEW t \in Seq(S)
    PROVE  /\ IsPrefix(s, t) <=> Starts(s, t)
           /\ Starts(s, t) <=> Len(s) <= Len(t) /\ SubSeq(t, 1, Len(s)) = s
<1>1. ASSUME Len(s) <= Len(t) PROVE SubSeq(t, 1, Len(s)) = s <=> \A i \in 1 .. Len(s) : t[i] = s[i]
    <2>1. SubSeq(t, 1, Len(s)) \in Seq(S) /\ Len(SubSeq(t, 1, Len(s))) = Len(s)
          /\ \A i \in 1 .. Len(s) : SubSeq(t, 1, Len(s))[i] = t[i]
        BY <1>1
    <2> DEFINE u == SubSeq(t, 1, Len(s))
    <2> HIDE DEF u
    <2>2. (\A i \in 1 .. Len(s) : u[i] = s[i]) => u = s
        BY <2>1, SeqEqual DEF u
    <2> QED BY <2>1, <2>2 DEF u
<1>2. SubSeq(s, 1, Len(s)) = s
    OBVIOUS
<1> QED BY <1>1, <1>2 DEF IsPrefix, Starts

\* Two lists of letters and what stands behind them, which starts with "/" or
\* is nothing: where one string starts another, the lists are the same.
LEMMA SplitStarts ==
    ASSUME NEW L, "/" \notin L, NEW a \in Seq(L), NEW b \in Seq(L),
           NEW u \in Seq(L \cup {"/"}), NEW v \in Seq(L \cup {"/"}),
           u # <<>>, u[1] = "/", v # <<>> => v[1] = "/",
           Starts(<<"/">> \o a \o u, <<"/">> \o b \o v)
    PROVE  a = b /\ Starts(u, v)
<1> DEFINE x == <<"/">> \o a \o u
           y == <<"/">> \o b \o v
           m == Len(a)
           n == Len(b)
<1>1. /\ Len(x) = 1 + m + Len(u) /\ m \in Nat
      /\ \A i \in 1 .. m : x[i + 1] = a[i] /\ a[i] \in L
      /\ \A i \in 1 .. Len(u) : x[m + 1 + i] = u[i]
    OBVIOUS
<1>2. /\ Len(y) = 1 + n + Len(v) /\ n \in Nat
      /\ \A i \in 1 .. n : y[i + 1] = b[i] /\ b[i] \in L
      /\ \A i \in 1 .. Len(v) : y[n + 1 + i] = v[i]
    OBVIOUS
<1>3. Len(u) \in Nat \ {0} /\ Len(v) \in Nat /\ (Len(v) # 0 => v[1] = "/")
    OBVIOUS
<1>4. Starts(x, y)
    OBVIOUS
<1> HIDE DEF x, y, m, n
<1>5. Len(x) <= Len(y) /\ \A i \in 1 .. Len(x) : y[i] = x[i]
    BY <1>4 DEF Starts
<1>6. m = n
    <2>1. CASE m < n
        <3>1. m + 1 \in 1 .. n /\ m + 2 \in 1 .. Len(x) /\ 1 \in 1 .. Len(u)
            BY <1>1, <1>2, <1>3, <2>1
        <3>2. x[m + 2] = "/" /\ y[m + 2] \in L
            <4>1. m + 1 + 1 = m + 2 /\ (m + 1) + 1 = m + 2
                BY <1>1
            <4>2. x[m + 1 + 1] = u[1]
                BY <1>1, <3>1
            <4>3. y[(m + 1) + 1] = b[m + 1] /\ b[m + 1] \in L
                BY <1>2, <3>1
            <4> QED BY <4>1, <4>2, <4>3
        <3> QED BY <1>5, <3>1, <3>2
    <2>2. CASE n < m
        <3>1. n + 1 \in 1 .. m /\ n + 2 \in 1 .. Len(x) /\ 1 \in 1 .. Len(v)
            BY <1>1, <1>2, <1>3, <1>5, <2>2
        <3>2. y[n + 2] = "/" /\ x[n + 2] \in L
            <4>1. n + 1 + 1 = n + 2 /\ (n + 1) + 1 = n + 2
                BY <1>2
            <4>2. y[n + 1 + 1] = v[1] /\ Len(v) # 0
                BY <1>2, <3>1
            <4>3. x[(n + 1) + 1] = a[n + 1] /\ a[n + 1] \in L
                BY <1>1, <3>1
            <4> QED BY <1>3, <4>1, <4>2, <4>3
        <3> QED BY <1>5, <3>1, <3>2
    <2> QED BY <1>1, <1>2, <2>1, <2>2
<1>7. \A i \in 1 .. m : a[i] = b[i]
    <2>1. \A i \in 1 .. m : i + 1 \in 1 .. Len(x)
        BY <1>1, <1>3
    <2> QED BY <1>1, <1>2, <1>5, <1>6, <2>1
<1>8. a = b
    BY <1>6, <1>7, SeqEqual DEF m, n
<1>9. Len(u) <= Len(v)
    BY <1>1, <1>2, <1>3, <1>5, <1>6
<1>10. \A i \in 1 .. Len(u) : v[i] = u[i]
    <2>1. \A i \in 1 .. Len(u) : m + 1 + i \in 1 .. Len(x) /\ i \in 1 .. Len(v)
        BY <1>1, <1>3, <1>9
    <2> QED BY <1>1, <1>2, <1>5, <1>6, <2>1
<1> QED BY <1>8, <1>9, <1>10 DEF Starts

\* A string ends a name where the next begins: a string with a "/" behind it
\* starts another only where the path starts the other.
LEMMA AllRunsSplit ==
    ASSUME NEW L, "/" \notin L
    PROVE  \A r \in Seq(Seq(L)), q \in Seq(Seq(L)) :
               Starts(Run(r) \o <<"/">>, Run(q)) => Starts(r, q) /\ Len(r) < Len(q)
<1> DEFINE M == Seq(L)
           P(k) == \A c \in Seq(M), d \in Seq(M) :
                     Len(c) = k /\ Starts(Run(c) \o <<"/">>, Run(d)) => Starts(c, d) /\ Len(c) < Len(d)
           S == {k \in Nat : P(k)}
           T == Seq(L \cup {"/"})
<1>1. \A c \in Seq(M) : Run(c) \in T /\ (c = <<>> => Run(c) = <<>>)
                        /\ (c # <<>> => Run(Tail(c)) \in T /\ Run(c) = <<"/">> \o Head(c) \o Run(Tail(c)))
    <2>1. \A c \in Seq(M) : RunIs(T, c)
        BY RunParts
    <2> HIDE DEF T, M
    <2> QED BY <2>1 DEF RunIs
<1>2. \A c \in Seq(M) : c # <<>> => /\ Head(c) \in M /\ Tail(c) \in Seq(M) /\ Len(c) = Len(Tail(c)) + 1
                                    /\ c[1] = Head(c)
                                    /\ \A i \in 1 .. Len(Tail(c)) : c[i + 1] = Tail(c)[i]
    OBVIOUS
<1>3. \A c \in Seq(M), d \in Seq(M) : Starts(Run(c) \o <<"/">>, Run(d)) => d # <<>>
    <2> TAKE c \in Seq(M), d \in Seq(M)
    <2> HAVE Starts(Run(c) \o <<"/">>, Run(d))
    <2>1. Len(Run(c) \o <<"/">>) = Len(Run(c)) + 1 /\ Len(Run(c)) \in Nat
        BY <1>1
    <2>2. Len(Run(d)) # 0
        BY <2>1 DEF Starts
    <2> QED BY <1>1, <2>2
<1>4. \A d \in Seq(M) : Run(d) # <<>> => Run(d)[1] = "/"
    <2> TAKE d \in Seq(M)
    <2> HAVE Run(d) # <<>>
    <2>1. d # <<>>
        BY <1>1
    <2>2. Run(d) = <<"/">> \o Head(d) \o Run(Tail(d)) /\ Head(d) \in M /\ Run(Tail(d)) \in T
        BY <1>1, <1>2, <2>1
    <2> HIDE DEF P, S
    <2> QED BY <2>2
<1>5. \A x \in T, y \in T, z \in T : (x \o y) \o z = x \o (y \o z)
    BY ConcatAssociative
<1>6. <<"/">> \in T /\ \A h \in M : <<"/">> \o h \in T
    OBVIOUS
<1>7. \A w \in T : (w # <<>> => w[1] = "/")
         => w \o <<"/">> \in T /\ w \o <<"/">> # <<>> /\ (w \o <<"/">>)[1] = "/"
    OBVIOUS
<1>8. ASSUME NEW a \in M, NEW b \in M, NEW u \in T, NEW v \in T,
             u # <<>>, u[1] = "/", v # <<>> => v[1] = "/",
             Starts(<<"/">> \o a \o u, <<"/">> \o b \o v)
      PROVE  a = b /\ Starts(u, v)
    BY <1>8, SplitStarts
<1>9. \A c \in Seq(M) : Len(c) \in Nat /\ (c # <<>> <=> Len(c) # 0)
    OBVIOUS
<1> HIDE DEF M, T
<1>10. P(0)
    <2> TAKE c \in Seq(M), d \in Seq(M)
    <2> HAVE Len(c) = 0 /\ Starts(Run(c) \o <<"/">>, Run(d))
    <2>1. d # <<>>
        BY <1>3
    <2> QED BY <2>1 DEF Starts
<1>11. ASSUME NEW k \in Nat, P(k) PROVE P(k + 1)
    <2> TAKE c \in Seq(M), d \in Seq(M)
    <2> HAVE Len(c) = k + 1 /\ Starts(Run(c) \o <<"/">>, Run(d))
    <2>1. c # <<>> /\ d # <<>>
        BY <1>3
    <2> DEFINE u == Run(Tail(c)) \o <<"/">>
               v == Run(Tail(d))
    <2>2. Head(c) \in M /\ Head(d) \in M /\ Tail(c) \in Seq(M) /\ Tail(d) \in Seq(M)
          /\ Len(Tail(c)) = k /\ Run(Tail(c)) \in T /\ v \in T
        BY <1>1, <1>2, <2>1
    <2>3. u \in T /\ u # <<>> /\ u[1] = "/"
        <3>1. Run(Tail(c)) # <<>> => Run(Tail(c))[1] = "/"
            BY <1>4, <2>2
        <3> QED BY <1>7, <2>2, <3>1
    <2>4. v # <<>> => v[1] = "/"
        BY <1>4, <2>2
    <2>5. Starts(<<"/">> \o Head(c) \o u, <<"/">> \o Head(d) \o v)
        <3>1. Run(c) = <<"/">> \o Head(c) \o Run(Tail(c)) /\ Run(d) = <<"/">> \o Head(d) \o v
            BY <1>1, <2>1
        <3>2. (<<"/">> \o Head(c) \o Run(Tail(c))) \o <<"/">>
                = <<"/">> \o Head(c) \o (Run(Tail(c)) \o <<"/">>)
            <4> DEFINE x == <<"/">> \o Head(c)
                       y == Run(Tail(c))
                       z == <<"/">>
            <4>1. x \in T /\ y \in T /\ z \in T
                BY <1>6, <2>2
            <4> HIDE DEF x, y, z
            <4>2. (x \o y) \o z = x \o (y \o z)
                BY <1>5, <4>1
            <4> QED BY <4>2 DEF x, y, z
        <3>3. Run(c) \o <<"/">> = <<"/">> \o Head(c) \o u
            BY <3>1, <3>2 DEF u
        <3> QED BY <3>1, <3>3
    <2> HIDE DEF u, v
    <2>6. Head(c) = Head(d) /\ Starts(u, v)
        BY <1>8, <2>2, <2>3, <2>4, <2>5
    <2>7. Starts(Tail(c), Tail(d)) /\ Len(Tail(c)) < Len(Tail(d))
        BY <1>11, <2>2, <2>6 DEF u, v
    <2>8. /\ Len(c) < Len(d) /\ Len(c) = k + 1 /\ Len(d) \in Nat
          /\ Len(Tail(d)) \in Nat /\ Len(d) = Len(Tail(d)) + 1
        BY <1>2, <1>9, <2>1, <2>2, <2>7
    <2>9. \A i \in 1 .. Len(c) : d[i] = c[i]
        <3> TAKE i \in 1 .. Len(c)
        <3>1. CASE i = 1
            BY <1>2, <2>1, <2>6, <3>1
        <3>2. CASE i # 1
            <4>1. i - 1 \in 1 .. Len(Tail(c)) /\ i - 1 \in 1 .. Len(Tail(d)) /\ (i - 1) + 1 = i
                BY <2>2, <2>7, <2>8, <3>2
            <4>2. Tail(d)[i - 1] = Tail(c)[i - 1]
                BY <2>7, <4>1 DEF Starts
            <4>3. c[(i - 1) + 1] = Tail(c)[i - 1] /\ d[(i - 1) + 1] = Tail(d)[i - 1]
                BY <1>2, <2>1, <4>1
            <4> QED BY <4>1, <4>2, <4>3
        <3> QED BY <3>1, <3>2
    <2> QED BY <2>8, <2>9 DEF Starts
<1>12. 0 \in S /\ \A k \in S \cap Nat : k + 1 \in S
    <2> HIDE DEF P
    <2> QED BY <1>10, <1>11
<1>13. Nat \subseteq S
    <2> HIDE DEF S
    <2> QED BY <1>12, SetInduction
<1>14. \A k \in Nat : P(k)
    <2> HIDE DEF P
    <2> QED BY <1>13
<1>15. ASSUME NEW r \in Seq(M), NEW q \in Seq(M), Starts(Run(r) \o <<"/">>, Run(q))
       PROVE  Starts(r, q) /\ Len(r) < Len(q)
    BY <1>9, <1>14, <1>15
<1> QED BY <1>15 DEF M

LEMMA RunsSplit ==
    ASSUME NEW L, "/" \notin L, NEW r \in Seq(Seq(L)), NEW q \in Seq(Seq(L)),
           Starts(Run(r) \o <<"/">>, Run(q))
    PROVE  Starts(r, q) /\ Len(r) < Len(q)
BY AllRunsSplit

\* A path that starts another and is not it: its string with a "/" starts the
\* other's.
LEMMA RunsStart ==
    ASSUME NEW L, NEW r \in Seq(Seq(L)), NEW q \in Seq(Seq(L)), Starts(r, q), r # q
    PROVE  Starts(Run(r) \o <<"/">>, Run(q))
<1> DEFINE M == Seq(L)
           T == Seq(L \cup {"/"})
           rest == SubSeq(q, Len(r) + 1, Len(q))
<1>1. Len(r) <= Len(q) /\ \A i \in 1 .. Len(r) : q[i] = r[i]
    BY DEF Starts
<1>2. Len(r) < Len(q)
    <2>1. Len(r) = Len(q) => r = q
        BY <1>1, SeqEqual
    <2> QED BY <1>1, <2>1
<1>3. rest \in Seq(M) /\ Len(rest) = Len(q) - Len(r) /\ rest # <<>>
      /\ \A i \in 1 .. Len(rest) : rest[i] = q[Len(r) + i]
    <2>1. r \in Seq(M) /\ q \in Seq(M)
        OBVIOUS
    <2>2. Len(r) + 1 \in Nat \ {0} /\ Len(q) \in Nat /\ Len(r) \in Nat
        OBVIOUS
    <2> HIDE DEF M
    <2>3. \A i \in Len(r) + 1 .. Len(q) : q[i] \in M
        BY <2>1, <2>2
    <2>4. rest \in Seq(M) /\ Len(rest) = Len(q) - Len(r)
          /\ \A i \in 1 .. Len(q) - Len(r) : rest[i] = q[Len(r) + i]
        BY <1>2, <2>1, <2>2, <2>3
    <2>5. rest # <<>>
        <3> HIDE DEF rest
        <3> QED BY <1>2, <2>2, <2>4
    <2> QED BY <2>4, <2>5
<1>4. q = r \o rest
    <2>1. r \o rest \in Seq(M) /\ Len(r \o rest) = Len(q)
        BY <1>3
    <2>2. \A i \in 1 .. Len(q) : (r \o rest)[i] = q[i]
        BY <1>1, <1>2, <1>3
    <2> HIDE DEF rest
    <2> QED BY <2>1, <2>2, SeqEqual
<1> HIDE DEF rest
<1>5. <<>> \in T
    OBVIOUS
<1>6. StepOf(SlashedStep(L), T, M)
    BY SlashedSteps
<1>7. \A d \in Seq(M) : Run(d) = Folded(SlashedStep(L), <<>>, d)
    BY <1>5, SlashedFolds DEF Run
<1>8. Run(r) \in T /\ Run(rest) \in T /\ Run(rest) # <<>> /\ Run(rest)[1] = "/"
    <2>1. \A c \in Seq(M) : RunIs(T, c)
        BY RunParts
    <2>2. r \in Seq(M)
        OBVIOUS
    <2> HIDE DEF T, M
    <2> QED BY <1>3, <2>1, <2>2 DEF RunIs
<1>9. Run(q) = Run(r) \o Run(rest)
    <2>1. Folded(SlashedStep(L), <<>>, r \o rest)
              = Folded(SlashedStep(L), Folded(SlashedStep(L), <<>>, r), rest)
        <3> HIDE DEF T, M
        <3>1. r \in Seq(M)
            BY DEF M
        <3> QED BY <1>3, <1>5, <1>6, <3>1, FoldedConcat
    <2>2. q \in Seq(M) /\ r \in Seq(M)
        OBVIOUS
    <2>3. Run(q) = Folded(SlashedStep(L), Run(r), rest)
        BY <1>4, <1>7, <2>1, <2>2
    <2>4. Folded(SlashedStep(L), Run(r), rest) = Run(r) \o Folded(SlashedStep(L), <<>>, rest)
        BY <1>3, <1>8, RunAfter
    <2> QED BY <1>3, <1>7, <2>3, <2>4
<1>10. \A x \in T, y \in T : y # <<>> /\ y[1] = "/" => Starts(x \o <<"/">>, x \o y)
    BY DEF Starts
<1> HIDE DEF T, M
<1> QED BY <1>8, <1>9, <1>10

(***************************************************************************)
(* The test on strings is the test on paths: a path is under a root when   *)
(* its first names are the root's (fs-list.ts isUnderRoot).                *)
(***************************************************************************)
LEMMA UnderRootIsPrefix ==
    ASSUME NEW L, "/" \notin L, NEW target \in Seq(Seq(L)), NEW root \in Seq(Seq(L))
    PROVE  IsUnderRoot(target, root) <=> Len(root) <= Len(target) /\ SubSeq(target, 1, Len(root)) = root
<1> DEFINE T == Seq(L \cup {"/"})
           M == Seq(L)
<1>1. (Len(root) <= Len(target) /\ SubSeq(target, 1, Len(root)) = root) <=> Starts(root, target)
    BY PrefixStarts
<1>2. Run(target) \in T /\ Run(root) \in T /\ Run(root) \o <<"/">> \in T /\ <<"/">> \in T
    <2>1. RunIs(T, target) /\ RunIs(T, root)
        BY RunParts
    <2>2. Run(target) \in T /\ Run(root) \in T
        <3> HIDE DEF T
        <3> QED BY <2>1 DEF RunIs
    <2> QED BY <2>2
<1>3. target = root => Starts(root, target)
    BY DEF Starts
<1>4. /\ Text(target) = IF target = <<>> THEN <<"/">> ELSE Run(target)
      /\ Text(root) = IF root = <<>> THEN <<"/">> ELSE Run(root)
    BY DEF Text, Run
<1>5. CASE root = <<>>
    <2>1. Starts(root, target)
        BY <1>5 DEF Starts
    <2>2. Text(target) \in T /\ Text(target) # <<>> /\ Text(target)[1] = "/"
        <3>1. CASE target = <<>>
            BY <1>2, <1>4, <3>1
        <3>2. CASE target # <<>>
            <4>1. RunIs(T, target)
                BY RunParts
            <4>2. Run(target) # <<>> /\ Run(target)[1] = "/"
                <5> HIDE DEF T
                <5> QED BY <3>2, <4>1 DEF RunIs
            <4> QED BY <1>2, <1>4, <3>2, <4>2
        <3> QED BY <3>1, <3>2
    <2>3. Starts(<<"/">>, Text(target))
        BY <2>2 DEF Starts
    <2>4. IsPrefix(<<"/">>, Text(target))
        BY <1>2, <2>2, <2>3, PrefixStarts
    <2>5. Text(root) = <<"/">>
        BY <1>4, <1>5
    <2>6. IsUnderRoot(target, root)
        BY <1>5, <2>4, <2>5 DEF IsUnderRoot
    <2> QED BY <1>1, <2>1, <2>6
<1>6. CASE root # <<>>
    <2>1. IsUnderRoot(target, root) <=> (target = root \/ IsPrefix(Run(root) \o <<"/">>, Text(target)))
        <3>1. Text(root) = Run(root)
            BY <1>4, <1>6
        <3> QED BY <1>6, <3>1, Zenon DEF IsUnderRoot
    <2>2. CASE target = <<>>
        <3>1. ~ Starts(root, target) /\ target # root
            BY <1>6, <2>2 DEF Starts
        <3>2. ~ IsPrefix(Run(root) \o <<"/">>, <<"/">>)
            <4>1. Run(root) # <<>>
                <5>1. RunIs(T, root)
                    BY RunParts
                <5> HIDE DEF T
                <5> QED BY <1>6, <5>1 DEF RunIs
            <4>2. \A x \in T : x # <<>> => Len(x \o <<"/">>) > Len(<<"/">>)
                OBVIOUS
            <4> QED BY <1>2, <4>1, <4>2 DEF IsPrefix
        <3> QED BY <1>1, <1>4, <2>1, <2>2, <3>1, <3>2
    <2>3. CASE target # <<>>
        <3>1. IsPrefix(Run(root) \o <<"/">>, Run(target)) <=> Starts(Run(root) \o <<"/">>, Run(target))
            BY <1>2, PrefixStarts
        <3>2. Starts(Run(root) \o <<"/">>, Run(target)) => Starts(root, target)
            BY RunsSplit
        <3>3. Starts(root, target) /\ root # target => Starts(Run(root) \o <<"/">>, Run(target))
            BY RunsStart
        <3> QED BY <1>1, <1>3, <1>4, <2>1, <2>3, <3>1, <3>2, <3>3
    <2> QED BY <2>2, <2>3
<1> QED BY <1>5, <1>6

(* The ways to a directory. *)

EnteredStep(G) == [q \in Seq(G) \X G |-> Entered(q[1], q[2])]

LEMMA EnteredSteps ==
    ASSUME NEW G
    PROVE  /\ StepOf(EnteredStep(G), Seq(G), G)
           /\ \A p \in Seq(G), n \in G : /\ EnteredStep(G)[<<p, n>>] = Entered(p, n)
                                         /\ Entered(p, n) \in Seq(G)
<1> DEFINE S == Seq(G)
<1>1. \A p \in S, n \in G : Entered(p, n) \in S
    BY DEF Entered, Front
<1> HIDE DEF S
<1>2. \A q \in S \X G : Entered(q[1], q[2]) \in S
    BY <1>1
<1>3. [q \in S \X G |-> Entered(q[1], q[2])] \in [S \X G -> S]
    BY <1>2
<1>4. \A p \in S, n \in G : [q \in S \X G |-> Entered(q[1], q[2])][<<p, n>>] = Entered(p, n)
    OBVIOUS
<1> QED BY <1>1, <1>3, <1>4 DEF EnteredStep, StepOf, S


\* The fold of the code's function is what the loop leaves.
LEMMA EnteredFolds ==
    ASSUME NEW G, NEW k \in Seq(G), NEW c \in Seq(G)
    PROVE  FoldLeft(Entered, k, c) = Folded(EnteredStep(G), k, c)
<1> DEFINE V == Seq(G)
           F == G
           Round == EnteredStep(G)
           Fold(f) == f = [s \in SUBSET DOMAIN c |->
                              IF s = {} THEN k
                              ELSE Entered(f[s \ {Max(s)}], c[Max(s)])]
           fold == CHOOSE f : Fold(f)
<1>1. StepOf(Round, V, F) /\ \A a \in V, b \in F : Round[<<a, b>>] = Entered(a, b)
  BY EnteredSteps
<1>2. k \in V /\ c \in Seq(F)
  OBVIOUS
<1> HIDE DEF V, F, Round
<1>3. PICK iter \in [SUBSET DOMAIN c -> V] : CalculatesTyped(Round, V, F, k, c, iter)
  BY <1>1, <1>2, LoopExists
<1>4. Fold(iter)
  BY <1>1, <1>3 DEF CalculatesTyped
<1>5. Fold(fold)
  <2> HIDE DEF Fold
  <2>1. QED
    BY <1>4
<1>6. FoldLeft(Entered, k, c) = fold[DOMAIN c]
  BY Zenon DEF FoldLeft, MapThenFoldSet
<1> HIDE DEF fold
<1>7. Calculates(Round, V, F, k, c, fold)
  BY <1>1, <1>5 DEF Calculates
<1> HIDE DEF Fold
<1>8. fold[DOMAIN c] = Folded(Round, k, c)
  BY <1>1, <1>2, <1>7, LoopIsFolded
<1>9. QED
  BY <1>6, <1>8 DEF Round

\* The directories of a file system, and what its links lead to, are of V.
FilesIn(fs, V) == /\ <<>> \in V /\ Missing \in V /\ fs.dirs \subseteq V
                  /\ \A p \in DOMAIN fs.links : fs.links[p] \in V

FollowedStep(fs, V, G) == [q \in V \X G |-> Followed(fs, q[1], q[2])]

LEMMA FollowedSteps ==
    ASSUME NEW fs, NEW V, NEW G, FilesIn(fs, V)
    PROVE  /\ StepOf(FollowedStep(fs, V, G), V, G)
           /\ \A p \in V, n \in G : /\ FollowedStep(fs, V, G)[<<p, n>>] = Followed(fs, p, n)
                                    /\ Followed(fs, p, n) \in V
<1>1. \A p \in V, n \in G : Followed(fs, p, n) \in V
    <2>1. \A p : Opened(fs, p) \in V
        <3> TAKE p
        <3>1. CASE p \in DOMAIN fs.links
            <4>1. Opened(fs, p) = fs.links[p]
                BY <3>1 DEF Opened
            <4> QED BY <3>1, <4>1 DEF FilesIn
        <3>2. CASE p \notin DOMAIN fs.links /\ p \in fs.dirs
            <4>1. Opened(fs, p) = p
                BY <3>2 DEF Opened
            <4> QED BY <3>2, <4>1 DEF FilesIn
        <3>3. CASE p \notin DOMAIN fs.links /\ p \notin fs.dirs
            <4>1. Opened(fs, p) = Missing
                BY <3>3 DEF Opened
            <4> QED BY <4>1 DEF FilesIn
        <3> QED BY <3>1, <3>2, <3>3
    <2> QED BY <2>1 DEF Followed, FilesIn
<1>2. \A q \in V \X G : Followed(fs, q[1], q[2]) \in V
    BY <1>1
<1>3. [q \in V \X G |-> Followed(fs, q[1], q[2])] \in [V \X G -> V]
    BY <1>2
<1>4. \A p \in V, n \in G : [q \in V \X G |-> Followed(fs, q[1], q[2])][<<p, n>>] = Followed(fs, p, n)
    OBVIOUS
<1> QED BY <1>1, <1>3, <1>4 DEF FollowedStep, StepOf

\* The fold of the code's function is what the loop leaves.
LEMMA FollowedFolds ==
    ASSUME NEW fs, NEW V, NEW G, FilesIn(fs, V), NEW k \in V, NEW c \in Seq(G)
    PROVE  FoldLeft(LAMBDA p, n : Followed(fs, p, n), k, c) = Folded(FollowedStep(fs, V, G), k, c)
<1> DEFINE F == G
           Round == FollowedStep(fs, V, G)
           Fold(f) == f = [s \in SUBSET DOMAIN c |->
                              IF s = {} THEN k
                              ELSE Followed(fs, f[s \ {Max(s)}], c[Max(s)])]
           fold == CHOOSE f : Fold(f)
<1>1. StepOf(Round, V, F) /\ \A a \in V, b \in F : Round[<<a, b>>] = Followed(fs, a, b)
  BY FollowedSteps
<1>2. k \in V /\ c \in Seq(F)
  OBVIOUS
<1> HIDE DEF F, Round
<1>3. PICK iter \in [SUBSET DOMAIN c -> V] : CalculatesTyped(Round, V, F, k, c, iter)
  BY <1>1, <1>2, LoopExists
<1>4. Fold(iter)
  BY <1>1, <1>3 DEF CalculatesTyped
<1>5. Fold(fold)
  <2> HIDE DEF Fold
  <2>1. QED
    BY <1>4
<1>6. FoldLeft(LAMBDA p, n : Followed(fs, p, n), k, c) = fold[DOMAIN c]
  BY Zenon DEF FoldLeft, MapThenFoldSet
<1> HIDE DEF fold
<1>7. Calculates(Round, V, F, k, c, fold)
  BY <1>1, <1>5 DEF Calculates
<1> HIDE DEF Fold
<1>8. fold[DOMAIN c] = Folded(Round, k, c)
  BY <1>1, <1>2, <1>7, LoopIsFolded
<1>9. QED
  BY <1>6, <1>8 DEF Round

\* path.resolve() gives a path of the same names, realpath() a directory, what
\* a link leads to, or nothing.
LEMMA PathsTyped ==
    ASSUME NEW G, NEW fs, FilesIn(fs, Seq(G) \cup {Missing}), NEW path \in Seq(G)
    PROVE  /\ ResolvePath(path) \in Seq(G)
           /\ RealPath(fs, path) \in Seq(G) \cup {Missing}
           /\ ResolveRoot(fs, path) \in Seq(G)
<1> DEFINE S == Seq(G)
           V == S \cup {Missing}
<1>1. <<>> \in S
    OBVIOUS
<1> HIDE DEF S
<1>2. \A p \in Seq(G) : ResolvePath(p) \in S
    <2>1. \A p \in Seq(G) : Folded(EnteredStep(G), <<>>, p) \in S
        <3>1. StepOf(EnteredStep(G), S, G)
            BY EnteredSteps DEF S
        <3> QED BY <1>1, <3>1, FoldedType
    <2>2. \A p \in Seq(G) : ResolvePath(p) = Folded(EnteredStep(G), <<>>, p)
        BY <1>1, EnteredFolds DEF ResolvePath, S
    <2> QED BY <2>1, <2>2
<1>3. FilesIn(fs, V) /\ <<>> \in V
    BY <1>1 DEF S
<1> HIDE DEF V
<1>4. \A p \in Seq(G) : RealPath(fs, p) \in V
    <2>1. \A p \in Seq(G) : Folded(FollowedStep(fs, V, G), <<>>, p) \in V
        BY <1>3, FollowedSteps, FoldedType
    <2>2. \A p \in Seq(G) : RealPath(fs, p) = Folded(FollowedStep(fs, V, G), <<>>, p)
        BY <1>3, FollowedFolds DEF RealPath
    <2> QED BY <2>1, <2>2
<1>5. ResolvePath(path) \in Seq(G)
    BY <1>2 DEF S
<1>6. RealPath(fs, ResolvePath(path)) \in Seq(G) \cup {Missing}
    BY <1>4, <1>5 DEF V, S
<1>7. RealPath(fs, path) \in Seq(G) \cup {Missing}
    BY <1>4 DEF V, S
<1> QED BY <1>5, <1>6, <1>7 DEF ResolveRoot

(***************************************************************************)
(* In any file system, with any roots: a request is answered with the      *)
(* directory it names exactly when the names of that directory start with  *)
(* those of a root (fs-list.ts handleFsList).                              *)
(***************************************************************************)
THEOREM ListedIsRight ==
    ASSUME NEW L, "/" \notin L, NEW base \in Seq(Seq(L)), NEW more \in SUBSET Seq(Seq(L)),
           NEW fs, FilesIn(fs, Seq(Seq(L)) \cup {Missing}), NEW path \in Seq(Seq(L))
    PROVE  LET target == RealPath(fs, ResolvePath(ExpandTilde(base, path)))
               under(root) == Len(root) <= Len(target) /\ SubSeq(target, 1, Len(root)) = root
               may == target # Missing /\ \E r \in ComputeWhitelistRoots(fs, base, more) : under(r)
           IN  HandleFsList(fs, base, more, path) = IF may THEN target ELSE Missing
<1> DEFINE M == Seq(L)
           target == RealPath(fs, ResolvePath(ExpandTilde(base, path)))
           Under(root) == Len(root) <= Len(target) /\ SubSeq(target, 1, Len(root)) = root
           roots == ComputeWhitelistRoots(fs, base, more)
<1>1. ExpandTilde(base, path) \in Seq(M)
    <2>1. path # <<>> => Tail(path) \in Seq(M)
        OBVIOUS
    <2>2. path # <<>> => base \o Tail(path) \in Seq(M)
        BY <2>1
    <2> QED BY <2>2 DEF ExpandTilde
<1>2. target \in Seq(M) \cup {Missing}
    <2>1. ResolvePath(ExpandTilde(base, path)) \in Seq(M)
        BY <1>1, PathsTyped
    <2> QED BY <2>1, PathsTyped
<1>3. roots \subseteq Seq(M)
    <2>1. \A p \in {base} \cup more : ResolveRoot(fs, p) \in Seq(M)
        <3>1. \A p \in {base} \cup more : p \in Seq(M)
            OBVIOUS
        <3> QED BY <3>1, PathsTyped
    <2> QED BY <2>1 DEF ComputeWhitelistRoots
<1>4. target # Missing => \A r \in roots : IsUnderRoot(target, r) <=> Under(r)
    <2>1. \A d \in Seq(M), r \in Seq(M) :
            IsUnderRoot(d, r) <=> Len(r) <= Len(d) /\ SubSeq(d, 1, Len(r)) = r
        BY UnderRootIsPrefix
    <2> HIDE DEF M, target, roots
    <2> QED BY <1>2, <1>3, <2>1
<1>5. HandleFsList(fs, base, more, path)
          = IF target = Missing \/ ~ \E r \in roots : IsUnderRoot(target, r) THEN Missing ELSE target
    BY DEF HandleFsList
<1> HIDE DEF target, roots, Under
<1>6. HandleFsList(fs, base, more, path)
          = IF target # Missing /\ \E r \in roots : Under(r) THEN target ELSE Missing
    BY <1>4, <1>5
<1> QED BY <1>6 DEF target, roots, Under

LEMMA SmallPaths ==
    SomePaths \subseteq Seq(DirNames) /\ <<>> \in Seq(DirNames)
<1>1. \A n \in Nat : [1 .. n -> DirNames] \subseteq Seq(DirNames)
    OBVIOUS
<1>2. 0 \in Nat /\ 1 \in Nat /\ 2 \in Nat /\ 0 .. 2 = {0, 1, 2}
    OBVIOUS
<1>3. <<>> \in Seq(DirNames)
    OBVIOUS
<1> DEFINE S == Seq(DirNames)
<1> HIDE DEF S
<1>4. \A n \in 0 .. 2 : [1 .. n -> DirNames] \subseteq S
    BY <1>1, <1>2 DEF S
<1>5. SomePaths \subseteq S
    BY <1>4 DEF SomePaths
<1> QED BY <1>3, <1>5 DEF S

LEMMA SmallTrees ==
    ASSUME NEW fs \in FileSystems, NEW V, Seq(DirNames) \subseteq V, Missing \in V
    PROVE  FilesIn(fs, V)
<1>1. SomePaths \subseteq V /\ <<>> \in V
    BY SmallPaths
<1>2. PICK t \in Trees : fs = Tree(t, [p \in {} |-> <<>>]) \/ fs \in WithLink(t)
    BY DEF FileSystems
<1>3. t \in SUBSET SomePaths
    BY DEF Trees
<1>4. fs.dirs = t /\ \A p \in DOMAIN fs.links : fs.links[p] \in t \cup {<<>>}
    <2>1. CASE fs = Tree(t, [p \in {} |-> <<>>])
        <3> DEFINE none == [p \in {} |-> <<>>]
        <3>1. fs.dirs = t /\ fs.links = none
            BY <2>1 DEF Tree
        <3>2. DOMAIN none = {}
            OBVIOUS
        <3> HIDE DEF none
        <3> QED BY <3>1, <3>2
    <2>2. CASE fs \in WithLink(t)
        <3>1. \E to \in t \cup {<<>>} : \E l : fs = Tree(t, LinkTo(l, to))
            BY <2>2 DEF WithLink
        <3>2. PICK l, to : to \in t \cup {<<>>} /\ fs = Tree(t, LinkTo(l, to))
            BY <3>1
        <3>3. DOMAIN LinkTo(l, to) = {l} /\ LinkTo(l, to)[l] = to
            BY DEF LinkTo
        <3>4. fs.dirs = t /\ fs.links = LinkTo(l, to)
            BY <3>2 DEF Tree
        <3> QED BY <3>2, <3>3, <3>4
    <2> QED BY <1>2, <2>1, <2>2
<1> QED BY <1>1, <1>3, <1>4 DEF FilesIn

LEMMA NothingMislisted == Mislisted = {}
<1> DEFINE L == {"a", "b", ".", "~"}
           M == Seq(L)
           S == Seq(M)
<1>1. A \in M /\ AB \in M /\ Up \in M /\ TildeName \in M /\ "/" \notin L
    BY DEF A, AB, Up, TildeName
<1> HIDE DEF L, M
<1>2. Seq(DirNames) \subseteq S
    BY <1>1 DEF DirNames
<1>3. <<Up>> \in S /\ \A p \in S : <<TildeName>> \o p \in S
    BY <1>1
<1>4. \A n \in Nat : [1 .. n -> DirNames \cup {Up}] \subseteq S
    BY <1>1 DEF DirNames
<1>5. <<>> \in S /\ <<A>> \in S /\ <<AB>> \in S /\ <<A, A>> \in S
    BY <1>1
<1> HIDE DEF S
<1>6. Requests \subseteq S
    <2>1. 0 .. 3 \subseteq Nat
        OBVIOUS
    <2>2. \A n \in 0 .. 3 : [1 .. n -> DirNames \cup {Up}] \subseteq S
        BY <1>4, <2>1
    <2>3. \A p \in SomePaths \cup {<<Up>>} : p \in S
        <3>1. SomePaths \subseteq S
            BY <1>2, SmallPaths
        <3> QED BY <1>3, <3>1
    <2>4. \A p \in SomePaths \cup {<<Up>>} : <<TildeName>> \o p \in S
        BY <1>3, <2>3
    <2> QED BY <2>2, <2>4 DEF Requests
<1> DEFINE Homes == {<<>>, <<A>>, <<AB>>}
           Mores == SUBSET {<<>>, <<AB>>, <<A, A>>}
           All == FileSystems \X Homes \X Mores \X Requests
<1>7. Homes \subseteq S /\ \A m \in Mores : m \in SUBSET S
    BY <1>5
<1>8. ASSUME NEW fs \in FileSystems, NEW homeDir \in Homes, NEW more \in Mores, NEW path \in Requests
      PROVE  <<fs, homeDir, more, path>> \notin Mislisted
    <2>1. homeDir \in S /\ more \in SUBSET S /\ path \in S
        BY <1>6, <1>7
    <2>2. FilesIn(fs, S \cup {Missing})
        BY <1>2, SmallTrees
    <2> DEFINE target == NamedDir(fs, homeDir, path)
               under(root) == Len(root) <= Len(target) /\ SubSeq(target, 1, Len(root)) = root
               may == target # Missing /\ \E r \in ComputeWhitelistRoots(fs, homeDir, more) : under(r)
    <2>3. HandleFsList(fs, homeDir, more, path) = IF may THEN target ELSE Missing
        BY <1>1, <2>1, <2>2, ListedIsRight DEF NamedDir, M, S
    <2> QED BY <2>3, Zenon DEF Mislisted
<1>9. Mislisted \subseteq All
    BY DEF Mislisted
<1> HIDE DEF Homes, Mores
<1>10. ASSUME NEW c \in Mislisted PROVE FALSE
    <2>1. c \in All
        BY <1>9
    <2>2. c = <<c[1], c[2], c[3], c[4]>> /\ c[1] \in FileSystems /\ c[2] \in Homes
          /\ c[3] \in Mores /\ c[4] \in Requests
        BY <2>1
    <2>3. <<c[1], c[2], c[3], c[4]>> \notin Mislisted
        BY <1>8, <2>2
    <2> QED BY <1>10, <2>2, <2>3, Zenon
<1> QED BY <1>10

-----------------------------------------------------------------------------
(* FsRoots: what the cap cuts                                              *)

\* How many members of S a relation puts before o.
RankIn(S, before, o) == Cardinality({p \in S : <<p, o>> \in before})

\* A strict order of all of S.
IsOrder(before, S) ==
    /\ \A o \in S : <<o, o>> \notin before
    /\ \A o, p \in S : o # p => <<o, p>> \in before \/ <<p, o>> \in before
    /\ \A o, p, q \in S : <<o, p>> \in before /\ <<p, q>> \in before => <<o, q>> \in before

\* In a strict order every rank is that of one member, and who comes before
\* has the lower one.
LEMMA OneEachRank ==
    ASSUME NEW S, IsFiniteSet(S), NEW before, IsOrder(before, S)
    PROVE  /\ Cardinality(S) \in Nat
           /\ \A o \in S : RankIn(S, before, o) \in 0 .. (Cardinality(S) - 1)
           /\ \A i \in 1 .. Cardinality(S) : \E o \in S : RankIn(S, before, o) = i - 1
           /\ \A o, p \in S : RankIn(S, before, o) < RankIn(S, before, p) => <<o, p>> \in before
<1> DEFINE n == Cardinality(S)
           r == [o \in S |-> RankIn(S, before, o)]
<1>1. n \in Nat
  BY FS_CardinalityType
<1>2. ASSUME NEW o \in S PROVE r[o] \in 0 .. (n - 1)
  <2> DEFINE U == {p \in S : <<p, o>> \in before}
  <2>1. U \in SUBSET S /\ U # S
    BY DEF IsOrder
  <2>2. IsFiniteSet(U) /\ Cardinality(U) <= n /\ Cardinality(U) # n
    <3> HIDE DEF U
    <3>1. QED
      BY <2>1, FS_Subset
  <2>3. Cardinality(U) \in Nat
    <3> HIDE DEF U
    <3>1. QED
      BY <2>2, FS_CardinalityType
  <2>4. Cardinality(U) \in 0 .. (n - 1)
    BY <1>1, <2>2, <2>3
  <2>5. QED
    BY <2>4 DEF RankIn
<1>3. ASSUME NEW o \in S, NEW p \in S, <<o, p>> \in before PROVE r[o] < r[p]
  <2> DEFINE U == {q \in S : <<q, o>> \in before}
             V == {q \in S : <<q, p>> \in before}
  <2>1. U \in SUBSET V /\ U # V /\ V \in SUBSET S
    <3>1. o \in V /\ o \notin U
      BY <1>3 DEF IsOrder
    <3>2. \A q \in U : q \in V
      BY <1>3 DEF IsOrder
    <3>3. QED
      BY <3>1, <3>2
  <2>2. Cardinality(U) <= Cardinality(V) /\ Cardinality(U) # Cardinality(V)
        /\ IsFiniteSet(U) /\ IsFiniteSet(V)
    <3> HIDE DEF U, V
    <3>1. IsFiniteSet(V)
      BY <2>1, FS_Subset
    <3>2. QED
      BY <2>1, <3>1, FS_Subset
  <2>3. Cardinality(U) \in Nat /\ Cardinality(V) \in Nat
    BY <2>2, FS_CardinalityType
  <2>4. Cardinality(U) < Cardinality(V)
    BY <2>2, <2>3
  <2>5. QED
    BY <2>4 DEF RankIn
<1>4. r \in [S -> 0 .. (n - 1)]
  BY <1>2
<1>5. \A o, p \in S : r[o] = r[p] => o = p
  <2> SUFFICES ASSUME NEW o \in S, NEW p \in S, o # p PROVE r[o] # r[p]
    OBVIOUS
  <2>1. <<o, p>> \in before \/ <<p, o>> \in before
    BY DEF IsOrder
  <2>2. r[o] \in Int /\ r[p] \in Int
    BY <1>2
  <2>3. r[o] < r[p] \/ r[p] < r[o]
    BY <2>1, <1>3
  <2> HIDE DEF r
  <2>4. QED
    BY <2>2, <2>3
<1>6. IsFiniteSet(0 .. (n - 1)) /\ Cardinality(0 .. (n - 1)) = n
  BY <1>1, FS_Interval
<1>7. r \in Injection(S, 0 .. (n - 1))
  BY <1>4, <1>5 DEF Injection, IsInjective
<1>8. r \in Surjection(S, 0 .. (n - 1))
  <2> HIDE DEF r
  <2>1. QED
    BY <1>6, <1>7, FS_Injection
<1>9. \A y \in 0 .. (n - 1) : \E o \in S : r[o] = y
  <2> HIDE DEF r
  <2>1. QED
    BY <1>8 DEF Surjection
<1>10. ASSUME NEW i \in 1 .. n PROVE \E o \in S : RankIn(S, before, o) = i - 1
  <2>1. i - 1 \in 0 .. (n - 1)
    BY <1>1
  <2>2. QED
    BY <1>9, <2>1
<1>11. ASSUME NEW o \in S, NEW p \in S, r[o] < r[p] PROVE <<o, p>> \in before
  <2>1. r[o] \in Int /\ r[p] \in Int
    BY <1>2
  <2>2. ~ (r[p] < r[o]) /\ r[o] # r[p]
    <3> HIDE DEF r
    <3>1. QED
      BY <1>11, <2>1
  <2>3. o # p /\ <<p, o>> \notin before
    BY <1>3, <2>2
  <2>4. QED
    BY <2>3 DEF IsOrder
<1>12. \A o, p \in S : RankIn(S, before, o) < RankIn(S, before, p) => <<o, p>> \in before
  BY <1>11
<1>13. \A o \in S : RankIn(S, before, o) \in 0 .. (n - 1)
  BY <1>2
<1>14. QED
  BY <1>1, <1>10, <1>12, <1>13

(***************************************************************************)
(* FsRoots: order and cap.                                                 *)
(***************************************************************************)

Entry == [dot : BOOLEAN, letters : Int, upper : BOOLEAN]

\* Entries are in order: any two are, and the order goes on.
LEMMA NotAfterOrders ==
    /\ \A a, b \in Entry : NotAfter(a, b) \/ NotAfter(b, a)
    /\ \A a, b, c \in Entry : NotAfter(a, b) /\ NotAfter(b, c) => NotAfter(a, c)
<1>1. ASSUME NEW a \in Entry, NEW b \in Entry
      PROVE  /\ a.dot = TRUE /\ b.dot = FALSE => ~ NotAfter(a, b)
             /\ a.dot = FALSE /\ b.dot = TRUE => NotAfter(a, b)
             /\ a.dot = b.dot => (NotAfter(a, b) <=> a.letters <= b.letters)
    <2>1. CASE a.dot = TRUE /\ b.dot = FALSE
        BY <2>1, Zenon DEF NotAfter
    <2>2. CASE a.dot = FALSE /\ b.dot = TRUE
        BY <2>2, Zenon DEF NotAfter
    <2>3. CASE a.dot = b.dot
        BY <2>3, Zenon DEF NotAfter
    <2> QED BY <2>1, <2>2, <2>3, Zenon
<1>2. \A a \in Entry : (a.dot = TRUE \/ a.dot = FALSE) /\ a.letters \in Int
    BY DEF Entry
<1> DEFINE Ahead(a, b) == NotAfter(a, b)
           Dot(a) == a.dot = TRUE
<1>3. \A a, b \in Entry :
        /\ Dot(a) /\ ~ Dot(b) => ~ Ahead(a, b)
        /\ ~ Dot(a) /\ Dot(b) => Ahead(a, b)
        /\ (Dot(a) <=> Dot(b)) => (Ahead(a, b) <=> a.letters <= b.letters)
    <2> SUFFICES ASSUME NEW a \in Entry, NEW b \in Entry
                 PROVE  /\ Dot(a) /\ ~ Dot(b) => ~ Ahead(a, b)
                        /\ ~ Dot(a) /\ Dot(b) => Ahead(a, b)
                        /\ (Dot(a) <=> Dot(b)) => (Ahead(a, b) <=> a.letters <= b.letters)
        BY Zenon
    <2>1. (a.dot = TRUE \/ a.dot = FALSE) /\ (b.dot = TRUE \/ b.dot = FALSE)
        BY <1>2
    <2>2. /\ a.dot = TRUE /\ b.dot = FALSE => ~ NotAfter(a, b)
          /\ a.dot = FALSE /\ b.dot = TRUE => NotAfter(a, b)
          /\ a.dot = b.dot => (NotAfter(a, b) <=> a.letters <= b.letters)
        BY <1>1, Zenon
    <2>3. (Dot(a) <=> Dot(b)) => a.dot = b.dot
        <3>1. \A x \in BOOLEAN, y \in BOOLEAN : (x = TRUE <=> y = TRUE) => x = y
            OBVIOUS
        <3>2. a.dot \in BOOLEAN /\ b.dot \in BOOLEAN
            BY DEF Entry
        <3> QED BY <3>1, <3>2, Zenon
    <2> QED BY <2>1, <2>2, <2>3, Zenon
<1> HIDE DEF Ahead, Dot
<1>4. ASSUME NEW a \in Entry, NEW b \in Entry PROVE Ahead(a, b) \/ Ahead(b, a)
    <2>1. a.letters <= b.letters \/ b.letters <= a.letters
        BY <1>2
    <2> QED BY <1>3, <2>1, Zenon
<1>5. ASSUME NEW a \in Entry, NEW b \in Entry, NEW c \in Entry, Ahead(a, b), Ahead(b, c)
      PROVE  Ahead(a, c)
    <2>1. a.letters <= b.letters /\ b.letters <= c.letters => a.letters <= c.letters
        BY <1>2
    <2>2. /\ Dot(a) /\ ~ Dot(b) => ~ Ahead(a, b)
          /\ (Dot(a) <=> Dot(b)) => (Ahead(a, b) <=> a.letters <= b.letters)
          /\ Dot(b) /\ ~ Dot(c) => ~ Ahead(b, c)
          /\ (Dot(b) <=> Dot(c)) => (Ahead(b, c) <=> b.letters <= c.letters)
          /\ ~ Dot(a) /\ Dot(c) => Ahead(a, c)
          /\ (Dot(a) <=> Dot(c)) => (Ahead(a, c) <=> a.letters <= c.letters)
        BY <1>3, Zenon
    <2> QED BY <1>5, <2>1, <2>2, Zenon
<1> QED BY <1>4, <1>5, Zenon DEF Ahead

\* The order of the places of a list.
Precede(s) ==
    {p \in (DOMAIN s) \X (DOMAIN s) : Before(s, p[1], p[2])}

LEMMA PrecedeIs ==
    ASSUME NEW s, NEW i \in DOMAIN s, NEW j \in DOMAIN s
    PROVE  <<i, j>> \in Precede(s) <=> Before(s, i, j)
<1>1. <<i, j>>[1] = i /\ <<i, j>>[2] = j
    OBVIOUS
<1>2. \A D : i \in D /\ j \in D => <<i, j>> \in D \X D
    OBVIOUS
<1>3. <<i, j>> \in (DOMAIN s) \X (DOMAIN s)
    BY <1>2, Zenon
<1>4. \A p \in (DOMAIN s) \X (DOMAIN s) : p \in Precede(s) <=> Before(s, p[1], p[2])
    BY Zenon DEF Precede
<1>5. <<i, j>> \in Precede(s) <=> Before(s, <<i, j>>[1], <<i, j>>[2])
    BY <1>3, <1>4, Zenon
<1> QED BY <1>1, <1>5, Zenon

LEMMA PrecedeOrders ==
    ASSUME NEW s \in Seq(Entry)
    PROVE  /\ IsOrder(Precede(s), DOMAIN s)
           /\ \A i, j \in DOMAIN s : <<i, j>> \in Precede(s) => NotAfter(s[i], s[j])
<1> DEFINE D == DOMAIN s
           First(i, j) == <<i, j>> \in Precede(s)
           Ahead(i, j) == NotAfter(s[i], s[j])
<1>1. \A i \in D : s[i] \in Entry /\ i \in Int
    OBVIOUS
<1>2. \A i, j \in D : First(i, j) <=> ~ Ahead(j, i) \/ (i < j /\ Ahead(i, j))
    BY PrecedeIs, Zenon DEF Before
<1>3. /\ \A i, j \in D : Ahead(i, j) \/ Ahead(j, i)
      /\ \A i, j, k \in D : Ahead(i, j) /\ Ahead(j, k) => Ahead(i, k)
    BY <1>1, NotAfterOrders, Zenon
<1> HIDE DEF D, First, Ahead
<1>4. ASSUME NEW i \in D PROVE ~ First(i, i)
    <2>1. Ahead(i, i) /\ ~ (i < i)
        BY <1>1, <1>3
    <2> QED BY <1>2, <2>1
<1>5. ASSUME NEW i \in D, NEW j \in D, i # j PROVE First(i, j) \/ First(j, i)
    <2>1. i < j \/ j < i
        BY <1>1, <1>5
    <2> QED BY <1>2, <1>3, <2>1
<1>6. ASSUME NEW i \in D, NEW j \in D, NEW k \in D, First(i, j), First(j, k) PROVE First(i, k)
    <2>1. i < j /\ j < k => i < k
        BY <1>1
    <2>2. /\ ~ Ahead(j, i) \/ (i < j /\ Ahead(i, j))
          /\ ~ Ahead(k, j) \/ (j < k /\ Ahead(j, k))
        BY <1>2, <1>6
    <2>3. First(i, k) <=> ~ Ahead(k, i) \/ (i < k /\ Ahead(i, k))
        BY <1>2
    <2>4. /\ Ahead(i, j) \/ Ahead(j, i)
          /\ Ahead(j, k) \/ Ahead(k, j)
          /\ Ahead(i, j) /\ Ahead(j, k) => Ahead(i, k)
          /\ Ahead(k, i) /\ Ahead(i, j) => Ahead(k, j)
          /\ Ahead(j, k) /\ Ahead(k, i) => Ahead(j, i)
        BY <1>3
    <2> QED BY <2>1, <2>2, <2>3, <2>4, Zenon
<1>7. ASSUME NEW i \in D, NEW j \in D, First(i, j) PROVE Ahead(i, j)
    BY <1>2, <1>3, <1>7
<1> QED BY <1>4, <1>5, <1>6, <1>7 DEF IsOrder, First, Ahead, D

LEMMA SmallerOf ==
    ASSUME NEW m \in Nat, NEW n \in Nat
    PROVE  Min({m, n}) = IF m <= n THEN m ELSE n
<1>1. \E x \in {m, n} : \A y \in {m, n} : x <= y
    OBVIOUS
<1> DEFINE x == Min({m, n})
<1>2. x \in {m, n} /\ \A y \in {m, n} : x <= y
    BY <1>1 DEF Min
<1> HIDE DEF x
<1>3. x = IF m <= n THEN m ELSE n
    BY <1>2
<1> QED BY <1>3 DEF x

(***************************************************************************)
(* Of a directory of any size, whatever order readdir gives: as many       *)
(* entries as the cap allows are returned, in order, and none that is cut  *)
(* comes before one that is not (fs-list.ts compareEntries, MAX_ENTRIES).  *)
(***************************************************************************)
THEOREM CapIsRight ==
    ASSUME NEW s \in Seq(Entry)
    PROVE  /\ Len(Listed(s)) = Min({Cap, Len(s)}) /\ ToSet(Listed(s)) \subseteq ToSet(s)
           /\ \A e \in ToSet(Listed(s)), f \in ToSet(s) \ ToSet(Listed(s)) : NotAfter(e, f)
           /\ \A i, j \in DOMAIN Listed(s) : i < j => NotAfter(Listed(s)[i], Listed(s)[j])
<1> DEFINE D == DOMAIN s
           B == Precede(s)
           NthOf(n) == CHOOSE i \in D : RankIn(D, B, i) = n - 1
           out == SortEntries(s)
           m == Min({Cap, Len(s)})
<1>1. D = 1 .. Len(s) /\ Len(s) \in Nat /\ \A i \in D : s[i] \in Entry
    OBVIOUS
<1>2. IsFiniteSet(D) /\ Cardinality(D) = Len(s)
    BY <1>1, FS_Interval
<1>3. IsOrder(B, D) /\ \A i, j \in D : <<i, j>> \in B => NotAfter(s[i], s[j])
    BY PrecedeOrders
<1>4. out = [n \in D |-> s[NthOf(n)]]
    <2> DEFINE rank == [i \in D |-> Cardinality({j \in D : Before(s, j, i)})]
    <2> DEFINE At1(n) == CHOOSE i \in D : rank[i] = n - 1
    <2>1. out = [n \in D |-> s[At1(n)]]
        BY Zenon DEF SortEntries
    <2>2. \A i \in D : {j \in D : Before(s, j, i)} = {j \in D : <<j, i>> \in B}
        BY PrecedeIs, Zenon
    <2>3. \A i \in D : rank[i] = RankIn(D, B, i)
        BY <2>2 DEF RankIn
    <2> HIDE DEF rank, B, D, out
    <2>4. \A n \in D : At1(n) = NthOf(n)
        BY <2>3
    <2> HIDE DEF NthOf, At1
    <2> QED BY <2>1, <2>4
<1> HIDE DEF D, B, out
<1>5. \A n \in D : NthOf(n) \in D /\ RankIn(D, B, NthOf(n)) = n - 1
    <2>1. \A n \in 1 .. Len(s) : \E o \in D : RankIn(D, B, o) = n - 1
        BY <1>2, <1>3, OneEachRank
    <2> QED BY <1>1, <2>1
<1>6. \A i \in D : RankIn(D, B, i) \in 0 .. Len(s) - 1
    BY <1>2, <1>3, OneEachRank
<1>7. \A o, p \in D : RankIn(D, B, o) < RankIn(D, B, p) => <<o, p>> \in B
    BY <1>2, <1>3, OneEachRank
<1>8. \A i, j \in D : i < j => NotAfter(out[i], out[j])
    <2> SUFFICES ASSUME NEW i \in D, NEW j \in D, i < j PROVE NotAfter(out[i], out[j])
        OBVIOUS
    <2>1. out[i] = s[NthOf(i)] /\ out[j] = s[NthOf(j)]
        BY <1>4
    <2>2. i - 1 < j - 1
        BY <1>1
    <2>3. <<NthOf(i), NthOf(j)>> \in B
        BY <1>5, <1>7, <2>2
    <2> QED BY <1>3, <1>5, <2>1, <2>3
<1>9. \A i \in D : \E n \in D : out[n] = s[i]
    <2> TAKE i \in D
    <2> DEFINE n == RankIn(D, B, i) + 1
    <2>1. n \in D /\ RankIn(D, B, i) = n - 1
        BY <1>1, <1>6
    <2>2. NthOf(n) \in D /\ RankIn(D, B, NthOf(n)) = RankIn(D, B, i)
        BY <1>5, <2>1
    <2>3. NthOf(n) = i
        <3>1. ~ (RankIn(D, B, i) < RankIn(D, B, i))
            BY <1>6
        <3> QED BY <1>1, <2>2, <3>1
    <2> QED BY <1>4, <2>1, <2>3
<1>10. m = (IF Cap <= Len(s) THEN Cap ELSE Len(s)) /\ m \in Nat /\ m <= Len(s)
    <2>1. Cap \in Nat
        BY DEF Cap
    <2> QED BY <1>1, <2>1, SmallerOf
<1>11. out \in Seq(Entry) /\ Len(out) = Len(s)
    BY <1>1, <1>4, <1>5
<1>12. Listed(s) = SubSeq(out, 1, m)
    BY <1>11 DEF Listed, Capped, out
<1> HIDE DEF m
<1>13. /\ Listed(s) \in Seq(Entry) /\ Len(Listed(s)) = m /\ DOMAIN Listed(s) = 1 .. m
       /\ \A i \in 1 .. m : Listed(s)[i] = out[i] /\ i \in D
    BY <1>1, <1>10, <1>11, <1>12
<1>14. ToSet(s) = {s[i] : i \in D} /\ ToSet(Listed(s)) = {out[i] : i \in 1 .. m}
    BY <1>13 DEF ToSet, D
<1>15. ToSet(Listed(s)) \subseteq ToSet(s)
    BY <1>4, <1>5, <1>13, <1>14
<1>16. ASSUME NEW e \in ToSet(Listed(s)), NEW f \in ToSet(s) \ ToSet(Listed(s)) PROVE NotAfter(e, f)
    <2>1. PICK i \in 1 .. m : e = out[i]
        BY <1>14
    <2>2. PICK n \in D : f = out[n]
        BY <1>9, <1>14
    <2>3. n \notin 1 .. m
        BY <1>14, <1>16, <2>2
    <2>4. i \in D /\ i < n
        BY <1>1, <1>10, <1>13, <2>3
    <2> QED BY <1>8, <2>1, <2>2, <2>4
<1>17. \A i, j \in DOMAIN Listed(s) : i < j => NotAfter(Listed(s)[i], Listed(s)[j])
    BY <1>8, <1>13
<1> QED BY <1>13, <1>15, <1>16, <1>17 DEF m

LEMMA NothingMiscut == Miscut = {}
<1>1. \A n \in 0 .. 4 : [1 .. n -> Entries] \subseteq Seq(Entry)
    <2>1. Entries \subseteq Entry
        BY DEF Entries, Entry
    <2> HIDE DEF Entry
    <2> QED BY <2>1
<1>2. ASSUME NEW s \in Miscut PROVE FALSE
    <2>1. s \in Seq(Entry)
        BY <1>1 DEF Miscut
    <2>2. /\ Len(Listed(s)) = Min({Cap, Len(s)}) /\ ToSet(Listed(s)) \subseteq ToSet(s)
          /\ \A e \in ToSet(Listed(s)), f \in ToSet(s) \ ToSet(Listed(s)) : NotAfter(e, f)
          /\ \A i, j \in DOMAIN Listed(s) : i < j => NotAfter(Listed(s)[i], Listed(s)[j])
        BY <2>1, CapIsRight
    <2> QED BY <2>2, Zenon DEF Miscut
<1> QED BY <1>2

-----------------------------------------------------------------------------
(* SlashInventory: the front matter                                        *)

Lines(K, W) == [key : K, value : W]
Metas(W) == [description : W, argument_hint : W]

NotedStep(K, W) == [q \in Metas(W) \X Lines(K, W) |-> Noted(q[1], q[2])]

LEMMA NotedEffect ==
    ASSUME NEW K, NEW W, NEW m \in Metas(W), NEW l \in Lines(K, W)
    PROVE  /\ Noted(m, l) \in Metas(W)
           /\ Noted(m, l).description = IF l.key = "description" THEN l.value ELSE m.description
           /\ Noted(m, l).argument_hint = IF l.key \in HintKeys THEN l.value ELSE m.argument_hint
<1>1. "description" \notin HintKeys
    BY DEF HintKeys
<1>2. l.value \in W
    BY DEF Lines
<1>3. CASE l.key = "description"
    <2>1. Noted(m, l) = [m EXCEPT !.description = l.value]
        BY <1>1, <1>3 DEF Noted
    <2> QED BY <1>1, <1>2, <1>3, <2>1 DEF Metas
<1>4. CASE l.key \in HintKeys
    <2>1. Noted(m, l) = [m EXCEPT !.argument_hint = l.value]
        BY <1>1, <1>4 DEF Noted
    <2> QED BY <1>1, <1>2, <1>4, <2>1 DEF Metas
<1>5. CASE l.key # "description" /\ l.key \notin HintKeys
    <2>1. Noted(m, l) = m
        BY <1>5 DEF Noted
    <2> QED BY <1>5, <2>1 DEF Metas
<1> QED BY <1>3, <1>4, <1>5

LEMMA NotedSteps ==
    ASSUME NEW K, NEW W
    PROVE  /\ StepOf(NotedStep(K, W), Metas(W), Lines(K, W))
           /\ \A m \in Metas(W), l \in Lines(K, W) :
                NotedStep(K, W)[<<m, l>>] = Noted(m, l) /\ Noted(m, l) \in Metas(W)
<1> DEFINE V == Metas(W)
           F == Lines(K, W)
<1>1. \A m \in V, l \in F : Noted(m, l) \in V
    BY NotedEffect
<1> HIDE DEF V, F
<1>2. \A q \in V \X F : Noted(q[1], q[2]) \in V
    BY <1>1
<1>3. [q \in V \X F |-> Noted(q[1], q[2])] \in [V \X F -> V]
    BY <1>2
<1>4. \A m \in V, l \in F : [q \in V \X F |-> Noted(q[1], q[2])][<<m, l>>] = Noted(m, l)
    OBVIOUS
<1> QED BY <1>1, <1>3, <1>4 DEF NotedStep, StepOf, V, F

\* The fold of the code's function is what the loop leaves.
LEMMA NotedFolds ==
    ASSUME NEW K, NEW W, NEW k \in Metas(W), NEW c \in Seq(Lines(K, W))
    PROVE  FoldLeft(Noted, k, c) = Folded(NotedStep(K, W), k, c)
<1> DEFINE V == Metas(W)
           F == Lines(K, W)
           Round == NotedStep(K, W)
           Fold(f) == f = [s \in SUBSET DOMAIN c |->
                              IF s = {} THEN k
                              ELSE Noted(f[s \ {Max(s)}], c[Max(s)])]
           fold == CHOOSE f : Fold(f)
<1>1. StepOf(Round, V, F) /\ \A a \in V, b \in F : Round[<<a, b>>] = Noted(a, b)
  BY NotedSteps
<1>2. k \in V /\ c \in Seq(F)
  OBVIOUS
<1> HIDE DEF V, F, Round
<1>3. PICK iter \in [SUBSET DOMAIN c -> V] : CalculatesTyped(Round, V, F, k, c, iter)
  BY <1>1, <1>2, LoopExists
<1>4. Fold(iter)
  BY <1>1, <1>3 DEF CalculatesTyped
<1>5. Fold(fold)
  <2> HIDE DEF Fold
  <2>1. QED
    BY <1>4
<1>6. FoldLeft(Noted, k, c) = fold[DOMAIN c]
  BY Zenon DEF FoldLeft, MapThenFoldSet
<1> HIDE DEF fold
<1>7. Calculates(Round, V, F, k, c, fold)
  BY <1>1, <1>5 DEF Calculates
<1> HIDE DEF Fold
<1>8. fold[DOMAIN c] = Folded(Round, k, c)
  BY <1>1, <1>2, <1>7, LoopIsFolded
<1>9. QED
  BY <1>6, <1>8 DEF Round

\* The value of the last line with one of some keys.
GivenAt(inside, keys) == {i \in 1 .. Len(inside) : inside[i].key \in keys}
LastOf(inside, keys) == IF GivenAt(inside, keys) = {} THEN NoValue ELSE inside[Max(GivenAt(inside, keys))].value

LEMMA LastGrows ==
    ASSUME NEW S, NEW c \in Seq(S), NEW l \in S, NEW keys
    PROVE  LastOf(Append(c, l), keys) = IF l.key \in keys THEN l.value ELSE LastOf(c, keys)
<1> DEFINE n == Len(c)
           d == Append(c, l)
<1>1. n \in Nat /\ Len(d) = n + 1 /\ d[n + 1] = l /\ \A i \in 1 .. n : d[i] = c[i]
    OBVIOUS
<1> HIDE DEF d, n
<1>2. CASE l.key \in keys
    <2>1. n + 1 \in GivenAt(d, keys) /\ GivenAt(d, keys) \in SUBSET (1 .. n + 1)
        BY <1>1, <1>2 DEF GivenAt
    <2>2. Max(GivenAt(d, keys)) \in GivenAt(d, keys) /\ Max(GivenAt(d, keys)) >= n + 1
        <3> DEFINE top == n + 1
                   found == GivenAt(d, keys)
        <3>1. top \in Nat /\ top \in found /\ found \in SUBSET (1 .. top) /\ found # {}
            BY <1>1, <2>1
        <3> HIDE DEF top, found
        <3>2. Max(found) \in found /\ Max(found) >= top
            BY <3>1, MaxOfNumbers
        <3> QED BY <3>2 DEF top, found
    <2>3. Max(GivenAt(d, keys)) = n + 1
        BY <1>1, <2>1, <2>2
    <2> QED BY <1>1, <1>2, <2>1, <2>3 DEF LastOf, d
<1>3. CASE l.key \notin keys
    <2>1. GivenAt(d, keys) = GivenAt(c, keys) /\ GivenAt(c, keys) \in SUBSET (1 .. n)
        <3>1. \A i : i \in 1 .. n + 1 <=> i \in 1 .. n \/ i = n + 1
            BY <1>1
        <3> QED BY <1>1, <1>3, <3>1 DEF GivenAt, n
    <2>2. GivenAt(c, keys) # {} => Max(GivenAt(c, keys)) \in 1 .. n
        BY <1>1, <2>1, MaxOfNumbers
    <2> QED BY <1>1, <1>3, <2>1, <2>2 DEF LastOf, d
<1> QED BY <1>2, <1>3

\* The inside of a front matter leave the last value of each key.
LEMMA MetaIsLast ==
    ASSUME NEW K, NEW W, NoValue \in W, NEW c \in Seq(Lines(K, W))
    PROVE  FoldLeft(Noted, NoMeta, c)
               = [description |-> LastOf(c, {"description"}), argument_hint |-> LastOf(c, HintKeys)]
<1> DEFINE V == Metas(W)
           F == Lines(K, W)
           Round == NotedStep(K, W)
           R(d) == Folded(Round, NoMeta, d)
           P(n) == \A d \in Seq(F) : Len(d) = n =>
                     /\ R(d).description = LastOf(d, {"description"})
                     /\ R(d).argument_hint = LastOf(d, HintKeys)
           S == {n \in Nat : P(n)}
<1>1. NoMeta \in V /\ NoMeta.description = NoValue /\ NoMeta.argument_hint = NoValue
    BY DEF NoMeta, Metas
<1>2. StepOf(Round, V, F) /\ \A m \in V, l \in F : Round[<<m, l>>] = Noted(m, l)
    BY NotedSteps
<1>3. FoldLeft(Noted, NoMeta, c) = R(c)
    BY <1>1, NotedFolds
<1>4. c \in Seq(F)
    OBVIOUS
<1>5. \A m \in V, l \in F :
        /\ Noted(m, l).description = IF l.key = "description" THEN l.value ELSE m.description
        /\ Noted(m, l).argument_hint = IF l.key \in HintKeys THEN l.value ELSE m.argument_hint
    BY NotedEffect
<1>6. \A m \in V : m = [description |-> m.description, argument_hint |-> m.argument_hint]
    BY DEF Metas
<1> HIDE DEF V, F, Round
<1>7. \A d \in Seq(F) : R(d) \in V
    BY <1>1, <1>2, FoldedType
<1>8. \A d \in Seq(F), l \in F : R(Append(d, l)) = Noted(R(d), l)
    <2>1. \A d \in Seq(F), l \in F : R(Append(d, l)) = Round[<<R(d), l>>]
        BY <1>1, <1>2, FoldedAppend
    <2> QED BY <1>2, <1>7, <2>1
<1>9. P(0)
    <2>1. R(<<>>) = NoMeta
        BY <1>1, <1>2, FoldedNothing
    <2>2. \A keys : LastOf(<<>>, keys) = NoValue
        BY DEF LastOf, GivenAt
    <2>3. \A d \in Seq(F) : Len(d) = 0 => d = <<>>
        OBVIOUS
    <2> HIDE DEF R
    <2> QED BY <1>1, <2>1, <2>2, <2>3
<1> HIDE DEF R
<1>10. ASSUME NEW n \in Nat, P(n) PROVE P(n + 1)
    <2> TAKE e \in Seq(F)
    <2> HAVE Len(e) = n + 1
    <2>1. PICK d \in Seq(F), l \in F : Len(d) = n /\ e = Append(d, l)
        <3> HIDE DEF P, S
        <3>1. /\ SubSeq(e, 1, n) \in Seq(F) /\ Len(SubSeq(e, 1, n)) = n /\ e[n + 1] \in F
              /\ e = Append(SubSeq(e, 1, n), e[n + 1])
            BY LastApart
        <3> QED BY <3>1
    <2>2. R(e) = Noted(R(d), l) /\ R(d) \in V
        BY <1>7, <1>8, <2>1
    <2>3. R(d).description = LastOf(d, {"description"}) /\ R(d).argument_hint = LastOf(d, HintKeys)
        BY <1>10, <2>1
    <2>4. LastOf(e, {"description"}) = IF l.key = "description" THEN l.value ELSE LastOf(d, {"description"})
        <3>1. LastOf(e, {"description"})
                  = IF l.key \in {"description"} THEN l.value ELSE LastOf(d, {"description"})
            BY <2>1, LastGrows
        <3> QED BY <3>1
    <2>5. LastOf(e, HintKeys) = IF l.key \in HintKeys THEN l.value ELSE LastOf(d, HintKeys)
        BY <2>1, LastGrows
    <2>6. /\ R(e).description = IF l.key = "description" THEN l.value ELSE R(d).description
          /\ R(e).argument_hint = IF l.key \in HintKeys THEN l.value ELSE R(d).argument_hint
        BY <1>5, <2>1, <2>2
    <2> QED BY <2>3, <2>4, <2>5, <2>6
<1>11. 0 \in S /\ \A n \in S \cap Nat : n + 1 \in S
    <2> HIDE DEF P
    <2> QED BY <1>9, <1>10
<1>12. P(Len(c))
    <2>1. Nat \subseteq S
        <3> HIDE DEF S
        <3> QED BY <1>11, SetInduction
    <2>2. Len(c) \in Nat
        BY <1>4
    <2> HIDE DEF P
    <2> QED BY <2>1, <2>2
<1>13. R(c).description = LastOf(c, {"description"}) /\ R(c).argument_hint = LastOf(c, HintKeys)
    BY <1>4, <1>12
<1> QED BY <1>3, <1>4, <1>6, <1>7, <1>13

(***************************************************************************)
(* Of a text of any length without a fence on line 2: the meta are the     *)
(* last values between the first line and the next fence, or nothing       *)
(* (slash-inventory.ts readFrontmatter).                                   *)
(***************************************************************************)
THEOREM MetaIsRight ==
    ASSUME NEW K, NEW W, NoValue \in W, NEW t \in Seq(Lines(K, W)), Len(t) >= 2 => t[2] # Fence
    PROVE  ReadFrontmatter(t) = [description |-> LastGiven(t, {"description"}),
                                 argument_hint |-> LastGiven(t, HintKeys)]
<1> DEFINE fences == Fences(t)
           inside == MetaLines(t)
           F == Lines(K, W)
<1>1. fences = Closing(t)
    BY DEF Closing, Fences
<1>2. fences \in SUBSET (Nat \ {0}) /\ \A i \in fences : i \in 3 .. Len(t) /\ t[i] = Fence
    BY <1>1 DEF Closing
<1>3. Fence.key = "---"
    BY DEF Fence
<1> HIDE DEF fences
<1>4. CASE t = <<>> \/ t[1] # Fence \/ fences = {}
    <2>1. inside = <<>> /\ inside \in Seq(F)
        <3>1. inside = <<>>
            BY <1>1, <1>4 DEF MetaLines
        <3> QED BY <3>1
    <2>2. \A keys : LastOf(inside, keys) = NoValue
        <3>1. \A keys : LastOf(<<>>, keys) = NoValue
            BY DEF LastOf, GivenAt
        <3> QED BY <2>1, <3>1
    <2>3. \A keys : LastGiven(t, keys) = NoValue
        BY <1>4 DEF LastGiven, Given, fences
    <2>4. ReadFrontmatter(t)
              = [description |-> LastOf(inside, {"description"}), argument_hint |-> LastOf(inside, HintKeys)]
        <3> HIDE DEF inside
        <3>1. FoldLeft(Noted, NoMeta, inside)
              = [description |-> LastOf(inside, {"description"}), argument_hint |-> LastOf(inside, HintKeys)]
            BY <2>1, MetaIsLast
        <3> QED BY <3>1 DEF ReadFrontmatter, inside
    <2> HIDE DEF inside
    <2>5. ReadFrontmatter(t) = [description |-> LastGiven(t, {"description"}), argument_hint |-> LastGiven(t, HintKeys)]
        BY <2>2, <2>3, <2>4
    <2> QED BY <2>5
<1>5. CASE t # <<>> /\ t[1] = Fence /\ fences # {}
    <2> DEFINE k == Min(fences)
    <2>1. k \in fences /\ k \in 3 .. Len(t) /\ t[k] = Fence /\ k \in Nat
        BY <1>2, <1>5, MinOfNumbers
    <2>2. inside = SubSeq(t, 2, k - 1)
        BY <1>1, <1>5 DEF MetaLines
    <2> HIDE DEF k
    <2>3. inside \in Seq(F) /\ Len(inside) = k - 2 /\ \A i \in 1 .. k - 2 : inside[i] = t[i + 1]
        BY <2>1, <2>2
    <2> HIDE DEF inside, F
    <2>4. ASSUME NEW keys, "---" \notin keys PROVE LastOf(inside, keys) = LastGiven(t, keys)
        <3> DEFINE g == GivenAt(inside, keys)
                   h == {i \in 2 .. k : t[i].key \in keys}
        <3>1. Given(t, keys) = h
            BY <1>5 DEF k, fences, Given
        <3>2. \A i : i \in g <=> i \in 1 .. k - 2 /\ t[i + 1].key \in keys
            BY <2>1, <2>3 DEF GivenAt
        <3>3. \A i : i \in h <=> i \in 2 .. k - 1 /\ t[i].key \in keys
            <4>1. t[k].key \notin keys
                BY <1>3, <2>1, <2>4
            <4>2. \A i : i \in 2 .. k <=> i \in 2 .. k - 1 \/ i = k
                BY <2>1
            <4> QED BY <4>1, <4>2
        <3>4. \A i \in 1 .. k - 2 : i + 1 \in 2 .. k - 1
            BY <2>1
        <3>5. \A i \in 2 .. k - 1 : i - 1 \in 1 .. k - 2 /\ (i - 1) + 1 = i
            BY <2>1
        <3>6. \A i \in g : i + 1 \in h
            BY <3>2, <3>3, <3>4
        <3>7. \A i \in h : i - 1 \in g
            BY <3>2, <3>3, <3>5
        <3>8. g \in SUBSET (1 .. k - 2) /\ h \in SUBSET (1 .. k) /\ k - 2 \in Nat
            <4>1. \A i \in 2 .. k - 1 : i \in 1 .. k
                BY <2>1
            <4> QED BY <2>1, <3>2, <3>3, <4>1
        <3> HIDE DEF g, h
        <3>9. CASE g = {}
            <4>1. h = {}
                BY <3>7, <3>9
            <4> QED BY <3>1, <3>9, <4>1 DEF LastOf, LastGiven, g
        <3>10. CASE g # {}
            <4>1. h # {}
                BY <3>6, <3>10
            <4>2. Max(g) \in g /\ \A y \in g : Max(g) >= y
                BY <3>8, <3>10, MaxOfNumbers
            <4>3. Max(h) \in h /\ \A y \in h : Max(h) >= y
                BY <2>1, <3>8, <4>1, MaxOfNumbers
            <4>4. Max(g) + 1 \in h /\ Max(h) - 1 \in g
                BY <3>6, <3>7, <4>2, <4>3
            <4>5. Max(g) \in Int /\ Max(h) \in Int
                <5>1. \A i \in 1 .. k - 2 : i \in Int
                    OBVIOUS
                <5>2. \A i \in 1 .. k : i \in Int
                    OBVIOUS
                <5> QED BY <3>8, <4>2, <4>3, <5>1, <5>2
            <4>6. Max(h) = Max(g) + 1
                <5>1. Max(h) >= Max(g) + 1 /\ Max(g) >= Max(h) - 1
                    BY <4>2, <4>3, <4>4
                <5> QED BY <4>5, <5>1
            <4>7. inside[Max(g)] = t[Max(g) + 1]
                BY <2>3, <3>8, <4>2
            <4> QED BY <3>1, <3>10, <4>1, <4>6, <4>7 DEF LastOf, LastGiven, g
        <3> QED BY <3>9, <3>10
    <2>5. "---" \notin {"description"} /\ "---" \notin HintKeys
        BY DEF HintKeys
    <2>6. LastOf(inside, {"description"}) = LastGiven(t, {"description"}) /\ LastOf(inside, HintKeys) = LastGiven(t, HintKeys)
        <3> QED BY <2>4, <2>5
    <2>7. ReadFrontmatter(t)
              = [description |-> LastOf(inside, {"description"}), argument_hint |-> LastOf(inside, HintKeys)]
        <3>1. FoldLeft(Noted, NoMeta, inside)
              = [description |-> LastOf(inside, {"description"}), argument_hint |-> LastOf(inside, HintKeys)]
            BY <2>3, MetaIsLast DEF F
        <3> QED BY <3>1 DEF ReadFrontmatter, inside
    <2>8. ReadFrontmatter(t) = [description |-> LastGiven(t, {"description"}), argument_hint |-> LastGiven(t, HintKeys)]
        BY <2>6, <2>7
    <2> QED BY <2>8
<1> QED BY <1>4, <1>5

LEMMA NothingMisread == Misread = {}
<1> DEFINE K == {"prose", "---", "description", "argument-hint"}
           W == {NoValue, "d", "e", "h"}
           Set == {Fence, Prose, Line("description", "d"), Line("description", "e"), Line("argument-hint", "h")}
<1>1. Set \subseteq Lines(K, W) /\ NoValue \in W
    BY DEF Fence, Prose, Line, Lines
<1>2. ASSUME NEW t \in Texts PROVE t \in Seq(Lines(K, W))
    <2>1. PICK n \in 0 .. 5 : t \in [1 .. n -> Set]
        BY DEF Texts
    <2> HIDE DEF Set, K, W
    <2> QED BY <1>1, <2>1
<1> HIDE DEF K, W
<1>3. ASSUME NEW t \in Texts PROVE t \notin Misread
    <2>1. t \in Seq(Lines(K, W))
        BY <1>2
    <2>2. CASE Len(t) >= 2 => t[2] # Fence
        <3>1. ReadFrontmatter(t) = [description |-> LastGiven(t, {"description"}),
                                    argument_hint |-> LastGiven(t, HintKeys)]
            <4> HIDE DEF Set
            <4>1. NoValue \in W
                BY <1>1
            <4> QED BY <2>1, <2>2, <4>1, MetaIsRight
        <3> QED BY <3>1, Zenon DEF Misread
    <2>3. CASE ~ (Len(t) >= 2 => t[2] # Fence)
        BY <2>3, Zenon DEF Misread
    <2> QED BY <2>2, <2>3
<1> QED BY <1>3 DEF Misread

-----------------------------------------------------------------------------
(* SlashInventory: the menu                                                *)

\* Files with names of N and texts of T, and the entries a scan makes of them.
FileOf(N, T) == [name : N, kind : {"markdown", "skill", "other"}, valid : BOOLEAN, text : T]
EntryOf(source, N, T) ==
    [id : {<<source, x>> : x \in N}, name : N, meta : {ReadFrontmatter(t) : t \in T}]

Distinct(s) == \A i, j \in 1 .. Len(s) : s[i].name = s[j].name => i = j

\* The entries are those of the files that suit, each once if the files are.
Listing(es, fs, source, kind) ==
    /\ \A i \in 1 .. Len(es) : es[i].id = <<source, es[i].name>>
    /\ \A i \in 1 .. Len(es) : \E j \in 1 .. Len(fs) : Suits(fs[j], kind) /\ es[i].name = fs[j].name
    /\ \A j \in 1 .. Len(fs) : Suits(fs[j], kind) => \E i \in 1 .. Len(es) : es[i].name = fs[j].name
    /\ Distinct(fs) => Distinct(es)

PushedStep(source, kind, N, T) ==
    [q \in Seq(EntryOf(source, N, T)) \X FileOf(N, T) |-> Pushed(q[1], q[2], source, kind)]

LEMMA EntryMade ==
    ASSUME NEW source, NEW N, NEW T, NEW f \in FileOf(N, T)
    PROVE  /\ MakeEntry(source, f) \in EntryOf(source, N, T)
           /\ MakeEntry(source, f).id = <<source, f.name>> /\ MakeEntry(source, f).name = f.name
<1>1. f.name \in N /\ f.text \in T
    BY DEF FileOf
<1>2. MakeEntry(source, f) = [id |-> <<source, f.name>>, name |-> f.name, meta |-> ReadFrontmatter(f.text)]
    BY DEF MakeEntry
<1>3. ReadFrontmatter(f.text) \in {ReadFrontmatter(t) : t \in T} /\ <<source, f.name>> \in {<<source, x>> : x \in N}
    BY <1>1
<1> QED BY <1>1, <1>2, <1>3 DEF EntryOf

LEMMA PushedSteps ==
    ASSUME NEW source, NEW kind, NEW N, NEW T
    PROVE  /\ StepOf(PushedStep(source, kind, N, T), Seq(EntryOf(source, N, T)), FileOf(N, T))
           /\ \A es \in Seq(EntryOf(source, N, T)), f \in FileOf(N, T) :
                /\ PushedStep(source, kind, N, T)[<<es, f>>] = Pushed(es, f, source, kind)
                /\ Pushed(es, f, source, kind) \in Seq(EntryOf(source, N, T))
<1> DEFINE E == EntryOf(source, N, T)
           V == Seq(E)
           F == FileOf(N, T)
<1>1. \A f \in F : MakeEntry(source, f) \in E
    BY EntryMade
<1> HIDE DEF E, F
<1>2. \A es \in V, f \in F : Append(es, MakeEntry(source, f)) \in V
    BY <1>1
<1> HIDE DEF V
<1>3. \A es \in V, f \in F : Pushed(es, f, source, kind) \in V
    BY <1>2, Zenon DEF Pushed
<1>4. \A q \in V \X F : Pushed(q[1], q[2], source, kind) \in V
    BY <1>3
<1>5. [q \in V \X F |-> Pushed(q[1], q[2], source, kind)] \in [V \X F -> V]
    BY <1>4
<1>6. \A es \in V, f \in F :
        [q \in V \X F |-> Pushed(q[1], q[2], source, kind)][<<es, f>>] = Pushed(es, f, source, kind)
    OBVIOUS
<1> QED BY <1>3, <1>5, <1>6 DEF PushedStep, StepOf, V, E, F

\* The fold of the code's function is what the loop leaves.
LEMMA TakenFolds ==
    ASSUME NEW source, NEW kind, NEW N, NEW T, NEW c \in Seq(FileOf(N, T))
    PROVE  Taken(c, source, kind) = Folded(PushedStep(source, kind, N, T), <<>>, c)
<1> DEFINE V == Seq(EntryOf(source, N, T))
           F == FileOf(N, T)
           Round == PushedStep(source, kind, N, T)
           k == <<>>
           Fold(f) == f = [s \in SUBSET DOMAIN c |->
                              IF s = {} THEN k
                              ELSE Pushed(f[s \ {Max(s)}], c[Max(s)], source, kind)]
           fold == CHOOSE f : Fold(f)
<1>1. StepOf(Round, V, F) /\ \A a \in V, b \in F : Round[<<a, b>>] = Pushed(a, b, source, kind)
  BY PushedSteps
<1>2. k \in V /\ c \in Seq(F)
  OBVIOUS
<1> HIDE DEF V, F, Round, k
<1>3. PICK iter \in [SUBSET DOMAIN c -> V] : CalculatesTyped(Round, V, F, k, c, iter)
  BY <1>1, <1>2, LoopExists
<1>4. Fold(iter)
  BY <1>1, <1>3 DEF CalculatesTyped
<1>5. Fold(fold)
  <2> HIDE DEF Fold
  <2>1. QED
    BY <1>4
<1>6. Taken(c, source, kind) = fold[DOMAIN c]
  BY Zenon DEF Taken, k, FoldLeft, MapThenFoldSet
<1> HIDE DEF fold
<1>7. Calculates(Round, V, F, k, c, fold)
  BY <1>1, <1>5 DEF Calculates
<1> HIDE DEF Fold
<1>8. fold[DOMAIN c] = Folded(Round, k, c)
  BY <1>1, <1>2, <1>7, LoopIsFolded
<1>9. QED
  BY <1>6, <1>8 DEF Round, k

LEMMA ListingGrows ==
    ASSUME NEW source, NEW kind, NEW E, NEW F, NEW es \in Seq(E), NEW fs \in Seq(F), NEW f \in F,
           MakeEntry(source, f) \in E, MakeEntry(source, f).id = <<source, f.name>>,
           MakeEntry(source, f).name = f.name,
           Listing(es, fs, source, kind)
    PROVE  Listing(Pushed(es, f, source, kind), Append(fs, f), source, kind)
<1> DEFINE n == Len(fs)
           gs == Append(fs, f)
           e == MakeEntry(source, f)
           ds == Append(es, e)
           k == Len(es)
<1>1. n \in Nat /\ Len(gs) = n + 1 /\ gs[n + 1] = f /\ \A j \in 1 .. n : gs[j] = fs[j]
    OBVIOUS
<1>2. k \in Nat /\ Len(ds) = k + 1 /\ ds[k + 1] = e /\ \A i \in 1 .. k : ds[i] = es[i]
    OBVIOUS
<1>3. e.id = <<source, e.name>> /\ e.name = f.name
    OBVIOUS
<1>4. /\ \A i \in 1 .. k : es[i].id = <<source, es[i].name>>
      /\ \A i \in 1 .. k : \E j \in 1 .. n : Suits(fs[j], kind) /\ es[i].name = fs[j].name
      /\ \A j \in 1 .. n : Suits(fs[j], kind) => \E i \in 1 .. k : es[i].name = fs[j].name
    BY Zenon DEF Listing
<1>5. Distinct(fs) => Distinct(es)
    BY Zenon DEF Listing
<1> HIDE DEF n, gs, e, ds, k
<1>6. /\ \A j : j \in 1 .. n + 1 <=> j \in 1 .. n \/ j = n + 1
      /\ \A i : i \in 1 .. k + 1 <=> i \in 1 .. k \/ i = k + 1
      /\ n + 1 \notin 1 .. n /\ k + 1 \notin 1 .. k
    BY <1>1, <1>2
<1>7. Distinct(gs) => Distinct(fs) /\ \A j \in 1 .. n : fs[j].name # f.name
    <2> SUFFICES ASSUME Distinct(gs) PROVE Distinct(fs) /\ \A j \in 1 .. n : fs[j].name # f.name
        OBVIOUS
    <2>1. \A i, j \in 1 .. n + 1 : gs[i].name = gs[j].name => i = j
        BY <1>1 DEF Distinct
    <2>2. Distinct(fs)
        BY <1>1, <1>6, <2>1 DEF Distinct, n
    <2>3. \A j \in 1 .. n : fs[j].name # f.name
        BY <1>1, <1>6, <2>1
    <2> QED BY <2>2, <2>3
<1>8. CASE Suits(f, kind)
    <2>1. Pushed(es, f, source, kind) = ds
        BY <1>8, Zenon DEF Pushed, ds, e
    <2>2. \A i \in 1 .. Len(ds) : ds[i].id = <<source, ds[i].name>>
        BY <1>2, <1>3, <1>4, <1>6
    <2>3. \A i \in 1 .. Len(ds) : \E j \in 1 .. Len(gs) : Suits(gs[j], kind) /\ ds[i].name = gs[j].name
        <3> SUFFICES ASSUME NEW i \in 1 .. Len(ds)
                     PROVE  \E j \in 1 .. Len(gs) : Suits(gs[j], kind) /\ ds[i].name = gs[j].name
            OBVIOUS
        <3>1. CASE i \in 1 .. k
            <4>1. PICK j \in 1 .. n : Suits(fs[j], kind) /\ es[i].name = fs[j].name
                BY <1>4, <3>1
            <4>2. j \in 1 .. Len(gs) /\ gs[j] = fs[j] /\ ds[i] = es[i]
                BY <1>1, <1>2, <1>6, <3>1
            <4> QED BY <4>1, <4>2, Zenon
        <3>2. CASE i = k + 1
            <4>1. n + 1 \in 1 .. Len(gs) /\ gs[n + 1] = f /\ ds[i].name = f.name
                BY <1>1, <1>2, <1>3, <1>6, <3>2
            <4> QED BY <1>8, <4>1, Zenon
        <3> QED BY <1>2, <1>6, <3>1, <3>2
    <2>4. \A j \in 1 .. Len(gs) : Suits(gs[j], kind) => \E i \in 1 .. Len(ds) : ds[i].name = gs[j].name
        <3> SUFFICES ASSUME NEW j \in 1 .. Len(gs), Suits(gs[j], kind)
                     PROVE  \E i \in 1 .. Len(ds) : ds[i].name = gs[j].name
            BY Zenon
        <3>1. CASE j \in 1 .. n
            <4>1. gs[j] = fs[j]
                BY <1>1, <3>1
            <4>2. PICK i \in 1 .. k : es[i].name = fs[j].name
                BY <1>4, <3>1, <4>1, Zenon
            <4>3. i \in 1 .. Len(ds) /\ ds[i] = es[i]
                BY <1>2, <1>6
            <4> QED BY <4>1, <4>2, <4>3, Zenon
        <3>2. CASE j = n + 1
            <4>1. k + 1 \in 1 .. Len(ds) /\ gs[j] = f /\ ds[k + 1].name = f.name
                BY <1>1, <1>2, <1>3, <1>6, <3>2
            <4> QED BY <4>1, Zenon
        <3> QED BY <1>1, <1>6, <3>1, <3>2
    <2>5. Distinct(gs) => Distinct(ds)
        <3> SUFFICES ASSUME Distinct(gs) PROVE Distinct(ds)
            OBVIOUS
        <3>1. \A i, j \in 1 .. k : es[i].name = es[j].name => i = j
            BY <1>5, <1>7 DEF Distinct, k
        <3>2. \A i \in 1 .. k : es[i].name # f.name
            <4> SUFFICES ASSUME NEW i \in 1 .. k PROVE es[i].name # f.name
                OBVIOUS
            <4>1. PICK j \in 1 .. n : es[i].name = fs[j].name
                BY <1>4, Zenon
            <4> QED BY <1>7, <4>1
        <3>3. ASSUME NEW i \in 1 .. k + 1, NEW j \in 1 .. k + 1, ds[i].name = ds[j].name PROVE i = j
            <4>1. CASE i \in 1 .. k /\ j \in 1 .. k
                BY <1>2, <3>1, <3>3, <4>1
            <4>2. CASE i = k + 1 /\ j \in 1 .. k
                BY <1>2, <1>3, <3>2, <3>3, <4>2
            <4>3. CASE i \in 1 .. k /\ j = k + 1
                BY <1>2, <1>3, <3>2, <3>3, <4>3
            <4> QED BY <1>6, <4>1, <4>2, <4>3
        <3> QED BY <1>2, <3>3 DEF Distinct
    <2> QED BY <2>1, <2>2, <2>3, <2>4, <2>5, Zenon DEF Listing, gs
<1>9. CASE ~ Suits(f, kind)
    <2>1. Pushed(es, f, source, kind) = es
        BY <1>9, Zenon DEF Pushed
    <2>2. \A i \in 1 .. Len(es) : \E j \in 1 .. Len(gs) : Suits(gs[j], kind) /\ es[i].name = gs[j].name
        <3> SUFFICES ASSUME NEW i \in 1 .. k
                     PROVE  \E j \in 1 .. Len(gs) : Suits(gs[j], kind) /\ es[i].name = gs[j].name
            BY Zenon DEF k
        <3>1. PICK j \in 1 .. n : Suits(fs[j], kind) /\ es[i].name = fs[j].name
            BY <1>4, Zenon
        <3>2. j \in 1 .. Len(gs) /\ gs[j] = fs[j]
            BY <1>1, <1>6
        <3> QED BY <3>1, <3>2, Zenon
    <2>3. \A j \in 1 .. Len(gs) : Suits(gs[j], kind) => \E i \in 1 .. Len(es) : es[i].name = gs[j].name
        <3> SUFFICES ASSUME NEW j \in 1 .. Len(gs), Suits(gs[j], kind)
                     PROVE  \E i \in 1 .. k : es[i].name = gs[j].name
            BY Zenon DEF k
        <3>1. j # n + 1
            BY <1>1, <1>9, Zenon
        <3>2. j \in 1 .. n
            BY <1>1, <1>6, <3>1
        <3>3. gs[j] = fs[j]
            BY <1>1, <3>2
        <3> QED BY <1>4, <3>2, <3>3, Zenon
    <2>4. \A i \in 1 .. Len(es) : es[i].id = <<source, es[i].name>>
        BY <1>4, Zenon DEF k
    <2>5. Distinct(gs) => Distinct(es)
        BY <1>5, <1>7, Zenon
    <2>6. Listing(es, gs, source, kind)
        BY <2>2, <2>3, <2>4, <2>5, Zenon DEF Listing
    <2> QED BY <2>1, <2>6, Zenon DEF gs
<1> QED BY <1>8, <1>9

\* A scan lists the files that suit, each once.
LEMMA ScanLists ==
    ASSUME NEW source, NEW kind, NEW N, NEW T, NEW fs \in Seq(FileOf(N, T))
    PROVE  /\ Taken(fs, source, kind) \in Seq(EntryOf(source, N, T))
           /\ Listing(Taken(fs, source, kind), fs, source, kind)
<1> DEFINE E == EntryOf(source, N, T)
           V == Seq(E)
           F == FileOf(N, T)
           Round == PushedStep(source, kind, N, T)
           ListedSoFar(es, gs) == Listing(es, gs, source, kind)
           R == {p \in V \X Seq(F) : ListedSoFar(p[1], p[2])}
<1>1. /\ StepOf(Round, V, F)
      /\ \A es \in V, f \in F : Round[<<es, f>>] = Pushed(es, f, source, kind) /\ Pushed(es, f, source, kind) \in V
    BY PushedSteps
<1>2. <<>> \in V /\ fs \in Seq(F)
    OBVIOUS
<1>3. Taken(fs, source, kind) = Folded(Round, <<>>, fs)
    BY <1>2, TakenFolds
<1>4. ListedSoFar(<<>>, <<>>)
    BY DEF Listing, Distinct
<1>5. ASSUME NEW es \in V, NEW gs \in Seq(F), NEW f \in F, ListedSoFar(es, gs)
      PROVE  ListedSoFar(Pushed(es, f, source, kind), Append(gs, f))
    <2>1. MakeEntry(source, f) \in E /\ MakeEntry(source, f).id = <<source, f.name>>
          /\ MakeEntry(source, f).name = f.name
        BY EntryMade
    <2> HIDE DEF E, F
    <2> QED BY <1>5, <2>1, ListingGrows
<1> HIDE DEF E, F, Round, ListedSoFar
<1>6. \A gs \in Seq(F), f \in F : Append(gs, f) \in Seq(F)
    OBVIOUS
<1> HIDE DEF V
<1> DEFINE Q == Seq(F)
<1>7. <<>> \in Q
    OBVIOUS
<1> HIDE DEF Q
<1>8. <<<<>>, <<>>>> \in R
    BY <1>2, <1>4, <1>7 DEF Q
<1>9. ASSUME NEW es \in V, NEW gs \in Q, NEW f \in F, <<es, gs>> \in R
      PROVE  <<Round[<<es, f>>], Append(gs, f)>> \in R
    <2>1. ListedSoFar(es, gs)
        BY <1>9
    <2>2. Round[<<es, f>>] \in V /\ Append(gs, f) \in Q /\ ListedSoFar(Round[<<es, f>>], Append(gs, f))
        BY <1>1, <1>5, <1>6, <2>1 DEF Q
    <2> QED BY <2>2 DEF Q
<1>10. <<Folded(Round, <<>>, fs), fs>> \in R
    <2>1. R \in SUBSET (V \X Seq(F))
        OBVIOUS
    <2> HIDE DEF R
    <2> QED BY <1>1, <1>2, <1>8, <1>9, <2>1, FoldedSoFar DEF Q
<1>11. Folded(Round, <<>>, fs) \in V /\ ListedSoFar(Folded(Round, <<>>, fs), fs)
    BY <1>10
<1> QED BY <1>3, <1>11 DEF V, E, ListedSoFar

-----------------------------------------------------------------------------
(* The four scans *)

Keys == <<"homeCommands", "cwdCommands", "homeSkills", "cwdSkills">>
Sources == <<"user", "project", "skill", "skill">>
Kinds == <<"markdown", "markdown", "skill", "skill">>

\* A directory: its names differ, as a file system's do, and its files are of
\* the kind that belongs there or of another.
DirOf(kind, N, T) ==
    {d \in [readable : BOOLEAN, files : Seq(FileOf(N, T))] :
        /\ Distinct(d.files)
        /\ \A i \in 1 .. Len(d.files) : d.files[i].kind \in {kind, "other"}}

MachineOf(N, T) ==
    [homeCommands : DirOf("markdown", N, T), cwdCommands : DirOf("markdown", N, T),
     homeSkills : DirOf("skill", N, T), cwdSkills : DirOf("skill", N, T)]

LEMMA FourScans ==
    ASSUME NEW m
    PROVE  /\ DOMAIN Scans(m) = 1 .. 4
           /\ \A k \in 1 .. 4 : Scans(m)[k] = Scanned(m[Keys[k]], Sources[k], Kinds[k])
<1>1. \A k \in 1 .. 4 : k = 1 \/ k = 2 \/ k = 3 \/ k = 4
    OBVIOUS
<1>2. /\ Keys[1] = "homeCommands" /\ Keys[2] = "cwdCommands" /\ Keys[3] = "homeSkills" /\ Keys[4] = "cwdSkills"
      /\ Sources[1] = "user" /\ Sources[2] = "project" /\ Sources[3] = "skill" /\ Sources[4] = "skill"
      /\ Kinds[1] = "markdown" /\ Kinds[2] = "markdown" /\ Kinds[3] = "skill" /\ Kinds[4] = "skill"
    BY DEF Keys, Sources, Kinds
<1>3. /\ Scans(m)[1] = Scanned(m["homeCommands"], "user", "markdown")
      /\ Scans(m)[2] = Scanned(m["cwdCommands"], "project", "markdown")
      /\ Scans(m)[3] = Scanned(m["homeSkills"], "skill", "skill")
      /\ Scans(m)[4] = Scanned(m["cwdSkills"], "skill", "skill")
      /\ DOMAIN Scans(m) = 1 .. 4
    BY DEF Scans, ScanCommandDir, ScanSkillDir
<1> QED BY <1>1, <1>2, <1>3

\* What is expected, scan by scan.
LEMMA ExpectedOf ==
    ASSUME NEW N, NEW T, NEW m \in MachineOf(N, T), NEW e
    PROVE  e \in Expected(m) <=>
             \E k \in 1 .. 4 :
               /\ m[Keys[k]].readable
               /\ \E f \in ToSet(m[Keys[k]].files) :
                    f.valid /\ f.kind # "other" /\ e = <<Keys[k], Sources[k], f.name>>
<1> DEFINE Source == [homeCommands |-> "user", cwdCommands |-> "project",
                      homeSkills |-> "skill", cwdSkills |-> "skill"]
           Valid(key) == {f \in ToSet(m[key].files) : f.valid /\ f.kind # "other"}
           FourDirs == {"homeCommands", "cwdCommands", "homeSkills", "cwdSkills"}
<1>1. DOMAIN m = FourDirs
    BY DEF MachineOf
<1>2. e \in Expected(m) <=>
        \E key \in FourDirs : m[key].readable /\ \E f \in Valid(key) : e = <<key, Source[key], f.name>>
    <2>1. Expected(m) = UNION {{<<key, Source[key], f.name>> : f \in Valid(key)} :
                                  key \in {key \in DOMAIN m : m[key].readable}}
        BY Zenon DEF Expected
    <2> DEFINE Of(key) == {<<key, Source[key], f.name>> : f \in Valid(key)}
               Readable == {key \in DOMAIN m : m[key].readable}
    <2>2. Expected(m) = UNION {Of(key) : key \in Readable}
        BY <2>1, Zenon
    <2>3. \A key : key \in Readable <=> key \in FourDirs /\ m[key].readable
        BY <1>1, Zenon
    <2>4. \A key : e \in Of(key) <=> \E f \in Valid(key) : e = <<key, Source[key], f.name>>
        <3> HIDE DEF Source, Valid
        <3> QED BY Zenon
    <2> HIDE DEF Of, Readable
    <2>5. e \in Expected(m) <=> \E key \in Readable : e \in Of(key)
        BY <2>2
    <2> HIDE DEF Source, FourDirs, Valid
    <2> QED BY <2>3, <2>4, <2>5, Zenon
<1>3. \A key : (\E f \in Valid(key) : e = <<key, Source[key], f.name>>) <=>
               \E f \in ToSet(m[key].files) : f.valid /\ f.kind # "other" /\ e = <<key, Source[key], f.name>>
    <2> HIDE DEF Source
    <2> QED BY Zenon
<1>4. \A k \in 1 .. 4 : Keys[k] \in FourDirs /\ Source[Keys[k]] = Sources[k]
    <2>1. \A k \in 1 .. 4 : k = 1 \/ k = 2 \/ k = 3 \/ k = 4
        OBVIOUS
    <2> QED BY <2>1 DEF Keys, Sources
<1>5. \A key \in FourDirs : \E k \in 1 .. 4 : key = Keys[k]
    <2>1. /\ Keys[1] = "homeCommands" /\ Keys[2] = "cwdCommands"
          /\ Keys[3] = "homeSkills" /\ Keys[4] = "cwdSkills"
        BY DEF Keys
    <2>2. 1 \in 1 .. 4 /\ 2 \in 1 .. 4 /\ 3 \in 1 .. 4 /\ 4 \in 1 .. 4
        OBVIOUS
    <2> QED BY <2>1, <2>2
<1> HIDE DEF Source, FourDirs, Valid
<1> DEFINE Has(key, source) == \E f \in ToSet(m[key].files) :
                                 f.valid /\ f.kind # "other" /\ e = <<key, source, f.name>>
<1>6. e \in Expected(m) <=> \E key \in FourDirs : m[key].readable /\ Has(key, Source[key])
    BY <1>2, <1>3, Zenon
<1> HIDE DEF Has
<1>7. e \in Expected(m) <=> \E k \in 1 .. 4 : m[Keys[k]].readable /\ Has(Keys[k], Sources[k])
    <2>1. ASSUME NEW key \in FourDirs, m[key].readable, Has(key, Source[key])
          PROVE  \E k \in 1 .. 4 : m[Keys[k]].readable /\ Has(Keys[k], Sources[k])
        <3>1. PICK k \in 1 .. 4 : key = Keys[k]
            BY <1>5
        <3>2. Source[key] = Sources[k]
            BY <1>4, <3>1
        <3> QED BY <2>1, <3>1, <3>2, Zenon
    <2>2. ASSUME NEW k \in 1 .. 4, m[Keys[k]].readable, Has(Keys[k], Sources[k])
          PROVE  \E key \in FourDirs : m[key].readable /\ Has(key, Source[key])
        <3>1. Keys[k] \in FourDirs /\ Source[Keys[k]] = Sources[k]
            BY <1>4
        <3> QED BY <2>2, <3>1, Zenon
    <2> QED BY <1>6, <2>1, <2>2, Zenon
<1> QED BY <1>7, Zenon DEF Has

\* Two sets between which there is a bijection are as large, and so are the
\* parts of them that it maps to each other.
LEMMA SameCount ==
    ASSUME NEW H, NEW B, IsFiniteSet(H), NEW g \in Bijection(H, B),
           NEW C \in SUBSET H, NEW D \in SUBSET B, \A a \in H : a \in C <=> g[a] \in D
    PROVE  IsFiniteSet(D) /\ Cardinality(D) = Cardinality(C)
<1> DEFINE h == [a \in C |-> g[a]]
<1>1. g \in [H -> B] /\ (\A a, b \in H : g[a] = g[b] => a = b) /\ \A b \in B : \E a \in H : g[a] = b
    BY DEF Bijection, Injection, Surjection, IsInjective
<1>2. h \in [C -> D] /\ (\A a, b \in C : h[a] = h[b] => a = b)
    BY <1>1
<1>3. \A d \in D : \E c \in C : h[c] = d
    BY <1>1
<1> HIDE DEF h
<1>4. h \in Bijection(C, D)
    BY <1>2, <1>3 DEF Bijection, Injection, Surjection, IsInjective
<1>5. IsFiniteSet(C)
    BY FS_Subset
<1> QED BY <1>4, <1>5, FS_Bijection DEF ExistsBijection

LEMMA SuitsIs ==
    ASSUME NEW N, NEW T, NEW kind, kind # "other", NEW f \in FileOf(N, T), f.kind \in {kind, "other"}
    PROVE  Suits(f, kind) <=> f.valid /\ f.kind # "other"
<1>1. f.kind = kind <=> f.kind # "other"
    OBVIOUS
<1> QED BY <1>1, Zenon DEF Suits

\* The entries are those of the files that are expected of a directory, each
\* once.
HasExpected(es, d, source) ==
    /\ Distinct(es)
    /\ \A i \in DOMAIN es :
         /\ es[i].id = <<source, es[i].name>>
         /\ d.readable
         /\ \E f \in ToSet(d.files) : f.valid /\ f.kind # "other" /\ es[i].name = f.name
    /\ \A f \in ToSet(d.files) :
         d.readable /\ f.valid /\ f.kind # "other" => \E i \in DOMAIN es : es[i].name = f.name

LEMMA ScanOf ==
    ASSUME NEW N, NEW T, NEW source, NEW kind, kind # "other", NEW d \in DirOf(kind, N, T)
    PROVE  /\ Scanned(d, source, kind) \in Seq(EntryOf(source, N, T))
           /\ HasExpected(Scanned(d, source, kind), d, source)
<1> DEFINE F == FileOf(N, T)
           E == EntryOf(source, N, T)
           es == Scanned(d, source, kind)
           fs == d.files
<1>1. /\ d.readable \in BOOLEAN /\ fs \in Seq(F) /\ Distinct(fs)
      /\ \A i \in 1 .. Len(fs) : fs[i].kind \in {kind, "other"}
    BY DEF DirOf
<1>2. Taken(fs, source, kind) \in Seq(E) /\ Listing(Taken(fs, source, kind), fs, source, kind)
    BY <1>1, ScanLists
<1>3. \A f \in F : f.kind \in {kind, "other"} => (Suits(f, kind) <=> f.valid /\ f.kind # "other")
    BY SuitsIs
<1>4. ToSet(fs) = {fs[j] : j \in 1 .. Len(fs)} /\ \A j \in 1 .. Len(fs) : fs[j] \in F
    BY <1>1 DEF ToSet
<1>5. CASE d.readable
    <2>1. es = Taken(fs, source, kind)
        BY <1>5, Zenon DEF Scanned
    <2>2. es \in Seq(E)
        BY <1>2, <2>1
    <2>3. /\ \A i \in 1 .. Len(es) : es[i].id = <<source, es[i].name>>
          /\ \A i \in 1 .. Len(es) : \E j \in 1 .. Len(fs) : Suits(fs[j], kind) /\ es[i].name = fs[j].name
          /\ \A j \in 1 .. Len(fs) : Suits(fs[j], kind) => \E i \in 1 .. Len(es) : es[i].name = fs[j].name
          /\ Distinct(es)
        <3> HIDE DEF es, fs
        <3>1. Listing(es, fs, source, kind)
            BY <1>2, <2>1, Zenon
        <3> QED BY <1>1, <3>1, Zenon DEF Listing
    <2> HIDE DEF E, F, es, fs
    <2>4. DOMAIN es = 1 .. Len(es)
        BY <2>2
    <2>5. \A j \in 1 .. Len(fs) : Suits(fs[j], kind) <=> fs[j].valid /\ fs[j].kind # "other"
        BY <1>1, <1>3, <1>4, Zenon
    <2>6. \A i \in 1 .. Len(es) : \E f \in ToSet(fs) : f.valid /\ f.kind # "other" /\ es[i].name = f.name
        <3> SUFFICES ASSUME NEW i \in 1 .. Len(es)
                     PROVE  \E f \in ToSet(fs) : f.valid /\ f.kind # "other" /\ es[i].name = f.name
            BY Zenon
        <3>1. PICK j \in 1 .. Len(fs) : Suits(fs[j], kind) /\ es[i].name = fs[j].name
            BY <2>3, Zenon
        <3>2. fs[j] \in ToSet(fs)
            BY <1>4
        <3>3. fs[j].valid /\ fs[j].kind # "other"
            BY <2>5, <3>1, Zenon
        <3> QED BY <3>1, <3>2, <3>3, Zenon
    <2>7. \A f \in ToSet(fs) : f.valid /\ f.kind # "other" => \E i \in 1 .. Len(es) : es[i].name = f.name
        <3> SUFFICES ASSUME NEW f \in ToSet(fs), f.valid, f.kind # "other"
                     PROVE  \E i \in 1 .. Len(es) : es[i].name = f.name
            BY Zenon
        <3>1. PICK j \in 1 .. Len(fs) : f = fs[j]
            BY <1>4
        <3>2. Suits(fs[j], kind)
            BY <2>5, <3>1, Zenon
        <3> QED BY <2>3, <3>1, <3>2, Zenon
    <2>8. HasExpected(es, d, source)
        BY <1>5, <2>3, <2>4, <2>6, <2>7, Zenon DEF HasExpected, fs
    <2> QED BY <2>2, <2>8 DEF E, es
<1>6. CASE ~ d.readable
    <2>1. es = <<>>
        BY <1>6, Zenon DEF Scanned
    <2>2. es \in Seq(E) /\ DOMAIN es = {} /\ Len(es) = 0
        BY <2>1
    <2>3. Distinct(es)
        BY <2>2 DEF Distinct
    <2> HIDE DEF E, es
    <2>4. HasExpected(es, d, source)
        BY <1>6, <2>2, <2>3, Zenon DEF HasExpected
    <2> QED BY <2>2, <2>4 DEF E, es
<1> QED BY <1>5, <1>6

LEMMA DirsOf ==
    ASSUME NEW N, NEW T, NEW m \in MachineOf(N, T), NEW k \in 1 .. 4
    PROVE  m[Keys[k]] \in DirOf(Kinds[k], N, T) /\ Kinds[k] # "other"
<1>1. k = 1 \/ k = 2 \/ k = 3 \/ k = 4
    OBVIOUS
<1>2. /\ m["homeCommands"] \in DirOf("markdown", N, T) /\ m["cwdCommands"] \in DirOf("markdown", N, T)
      /\ m["homeSkills"] \in DirOf("skill", N, T) /\ m["cwdSkills"] \in DirOf("skill", N, T)
    <2> DEFINE C == DirOf("markdown", N, T)
               S == DirOf("skill", N, T)
    <2> HIDE DEF C, S
    <2>1. m \in [homeCommands : C, cwdCommands : C, homeSkills : S, cwdSkills : S]
        BY DEF C, S, MachineOf
    <2>2. m["homeCommands"] \in C /\ m["cwdCommands"] \in C /\ m["homeSkills"] \in S /\ m["cwdSkills"] \in S
        BY <2>1
    <2> QED BY <2>2 DEF C, S
<1>3. /\ Keys[1] = "homeCommands" /\ Keys[2] = "cwdCommands" /\ Keys[3] = "homeSkills" /\ Keys[4] = "cwdSkills"
      /\ Kinds[1] = "markdown" /\ Kinds[2] = "markdown" /\ Kinds[3] = "skill" /\ Kinds[4] = "skill"
    BY DEF Keys, Kinds
<1>4. "markdown" # "other" /\ "skill" # "other"
    OBVIOUS
<1> QED BY <1>1, <1>2, <1>3, <1>4, Zenon

Place(m) == Positions(Scans(m))
EntryAt(m, p) == Scans(m)[p[1]][p[2]]
Stands(m) == [p \in Place(m) |-> <<Keys[p[1]], Sources[p[1]], EntryAt(m, p).name>>]

LEMMA PlacesAre ==
    ASSUME NEW N, NEW T, NEW m \in MachineOf(N, T)
    PROVE  /\ IsFiniteSet(Place(m))
           /\ \A k, n : <<k, n>> \in Place(m) <=> k \in 1 .. 4 /\ n \in DOMAIN Scans(m)[k]
           /\ \A p \in Place(m) : p = <<p[1], p[2]>>
<1> DEFINE scans == Scans(m)
           P == Place(m)
           L(k) == Len(scans[k])
           all == L(1) + L(2) + L(3) + L(4)
           Grid == (1 .. 4) \X (1 .. all)
           Of(k) == {<<k, n>> : n \in DOMAIN scans[k]}
<1>1. \A k \in 1 .. 4 : L(k) \in Nat /\ DOMAIN scans[k] = 1 .. L(k)
    <2> TAKE k \in 1 .. 4
    <2> DEFINE E == EntryOf(Sources[k], N, T)
               es == Scanned(m[Keys[k]], Sources[k], Kinds[k])
    <2>1. es \in Seq(E)
        BY DirsOf, ScanOf
    <2>2. scans[k] = es
        BY FourScans
    <2> HIDE DEF E, es, scans
    <2> QED BY <2>1, <2>2
<1>2. DOMAIN scans = 1 .. 4
    BY FourScans
<1>3. P = UNION {Of(k) : k \in 1 .. 4}
    BY <1>2, Zenon DEF Place, Positions
<1> HIDE DEF P, scans, Of
<1>4. \A p : p \in P <=> \E k \in 1 .. 4 : p \in Of(k)
    BY <1>3
<1>5. \A p, k : p \in Of(k) <=> \E n \in DOMAIN scans[k] : p = <<k, n>>
    BY Zenon DEF Of
<1>6. \A k, n : <<k, n>> \in P <=> k \in 1 .. 4 /\ n \in DOMAIN scans[k]
    <2>1. ASSUME NEW k, NEW n, <<k, n>> \in P PROVE k \in 1 .. 4 /\ n \in DOMAIN scans[k]
        <3>1. PICK j \in 1 .. 4 : \E i \in DOMAIN scans[j] : <<k, n>> = <<j, i>>
            BY <1>4, <1>5, <2>1, Zenon
        <3> QED BY <3>1
    <2>2. ASSUME NEW k \in 1 .. 4, NEW n \in DOMAIN scans[k] PROVE <<k, n>> \in P
        BY <1>4, <1>5, Zenon
    <2> QED BY <2>1, <2>2, Zenon
<1>7. \A p \in P : p = <<p[1], p[2]>> /\ p \in Grid
    <2> TAKE p \in P
    <2>1. PICK k \in 1 .. 4 : \E n \in DOMAIN scans[k] : p = <<k, n>>
        BY <1>4, <1>5, Zenon
    <2>2. PICK n \in DOMAIN scans[k] : p = <<k, n>>
        BY <2>1
    <2>3. p = <<p[1], p[2]>>
        BY <2>2
    <2>4. L(1) \in Nat /\ L(2) \in Nat /\ L(3) \in Nat /\ L(4) \in Nat /\ n \in 1 .. L(k)
        BY <1>1, <2>2
    <2>5. k = 1 \/ k = 2 \/ k = 3 \/ k = 4
        OBVIOUS
    <2> HIDE DEF L
    <2>6. n \in 1 .. all
        BY <2>4, <2>5
    <2>7. p \in Grid
        BY <2>2, <2>6
    <2> QED BY <2>3, <2>7
<1>8. IsFiniteSet(P)
    <2>1. all \in Int
        <3>1. L(1) \in Nat /\ L(2) \in Nat /\ L(3) \in Nat /\ L(4) \in Nat
            BY <1>1
        <3> HIDE DEF L
        <3> QED BY <3>1
    <2> HIDE DEF all
    <2>2. IsFiniteSet(1 .. 4) /\ IsFiniteSet(1 .. all)
        <3>1. 1 \in Int /\ 4 \in Int
            OBVIOUS
        <3>2. IsFiniteSet(1 .. 4)
            BY <3>1, FS_Interval
        <3>3. IsFiniteSet(1 .. all)
            BY <2>1, <3>1, FS_Interval
        <3> QED BY <3>2, <3>3
    <2>3. IsFiniteSet(Grid)
        BY <2>2, FS_Product
    <2>4. P \in SUBSET Grid
        BY <1>7
    <2> HIDE DEF Grid
    <2> QED BY <2>3, <2>4, FS_Subset
<1> QED BY <1>6, <1>7, <1>8 DEF P, scans

\* Every place stands for one file that is expected, and every such file for
\* one place.
LEMMA PlacesStand ==
    ASSUME NEW N, NEW T, NEW m \in MachineOf(N, T)
    PROVE  /\ Stands(m) \in Bijection(Place(m), Expected(m))
           /\ \A p \in Place(m) : EntryAt(m, p).id = <<Stands(m)[p][2], Stands(m)[p][3]>>
<1> DEFINE P == Place(m)
           E == Expected(m)
           es(k) == Scanned(m[Keys[k]], Sources[k], Kinds[k])
           g == Stands(m)
<1>1. /\ \A k, n : <<k, n>> \in P <=> k \in 1 .. 4 /\ n \in DOMAIN Scans(m)[k]
      /\ \A p \in P : p = <<p[1], p[2]>>
    BY PlacesAre
<1>2. \A k \in 1 .. 4 : Scans(m)[k] = es(k)
    BY FourScans
<1>3. ASSUME NEW k \in 1 .. 4
      PROVE  /\ Distinct(es(k)) /\ DOMAIN es(k) = 1 .. Len(es(k))
             /\ \A i \in DOMAIN es(k) :
                  /\ es(k)[i].id = <<Sources[k], es(k)[i].name>>
                  /\ m[Keys[k]].readable
                  /\ \E f \in ToSet(m[Keys[k]].files) : f.valid /\ f.kind # "other" /\ es(k)[i].name = f.name
             /\ \A f \in ToSet(m[Keys[k]].files) : m[Keys[k]].readable /\ f.valid /\ f.kind # "other" =>
                  \E i \in DOMAIN es(k) : es(k)[i].name = f.name
    <2> DEFINE d == m[Keys[k]]
               S == Sources[k]
               K == Kinds[k]
               V == EntryOf(S, N, T)
    <2>1. d \in DirOf(K, N, T) /\ K # "other"
        BY DirsOf
    <2>2. es(k) \in Seq(V) /\ HasExpected(es(k), d, S)
        BY <2>1, ScanOf
    <2>3. DOMAIN es(k) = 1 .. Len(es(k))
        <3> HIDE DEF V, es
        <3> QED BY <2>2
    <2> HIDE DEF es
    <2> QED BY <2>2, <2>3, Zenon DEF HasExpected
<1>4. \A e : e \in E <=>
        \E k \in 1 .. 4 :
          /\ m[Keys[k]].readable
          /\ \E f \in ToSet(m[Keys[k]].files) : f.valid /\ f.kind # "other" /\ e = <<Keys[k], Sources[k], f.name>>
    BY ExpectedOf
<1>5. \A k, n : <<k, n>> \in P =>
        /\ k \in 1 .. 4 /\ n \in DOMAIN es(k)
        /\ EntryAt(m, <<k, n>>) = es(k)[n] /\ g[<<k, n>>] = <<Keys[k], Sources[k], es(k)[n].name>>
    <2> SUFFICES ASSUME NEW k, NEW n, <<k, n>> \in P
                 PROVE  /\ k \in 1 .. 4 /\ n \in DOMAIN es(k)
                        /\ EntryAt(m, <<k, n>>) = es(k)[n]
                        /\ g[<<k, n>>] = <<Keys[k], Sources[k], es(k)[n].name>>
        BY Zenon
    <2>1. k \in 1 .. 4 /\ n \in DOMAIN Scans(m)[k]
        BY <1>1, Zenon
    <2>2. Scans(m)[k] = es(k)
        BY <1>2, <2>1
    <2> HIDE DEF es
    <2>3. EntryAt(m, <<k, n>>) = es(k)[n]
        BY <2>2 DEF EntryAt
    <2>4. g[<<k, n>>] = <<Keys[k], Sources[k], EntryAt(m, <<k, n>>).name>>
        <3> DEFINE p == <<k, n>>
        <3>1. p \in P /\ p[1] = k /\ p[2] = n
            OBVIOUS
        <3>2. g[p] = <<Keys[p[1]], Sources[p[1]], EntryAt(m, p).name>>
            BY <3>1, Zenon DEF Stands
        <3> HIDE DEF p
        <3>3. g[p] = <<Keys[k], Sources[k], EntryAt(m, p).name>>
            BY <3>1, <3>2, Zenon
        <3> QED BY <3>3, Zenon DEF p
    <2> QED BY <2>1, <2>2, <2>3, <2>4, Zenon
<1>6. \A i, j \in 1 .. 4 : Keys[i] = Keys[j] => i = j
    <2>1. \A k \in 1 .. 4 : k = 1 \/ k = 2 \/ k = 3 \/ k = 4
        OBVIOUS
    <2>2. /\ Keys[1] = "homeCommands" /\ Keys[2] = "cwdCommands"
          /\ Keys[3] = "homeSkills" /\ Keys[4] = "cwdSkills"
        BY DEF Keys
    <2> QED BY <2>1, <2>2
<1>7. DOMAIN g = P /\ g = [p \in P |-> g[p]]
    BY DEF Stands
<1> HIDE DEF P, E, es, g
<1>8. ASSUME NEW p \in P PROVE g[p] \in E /\ EntryAt(m, p).id = <<g[p][2], g[p][3]>>
    <2>1. PICK k, n : p = <<k, n>>
        BY <1>1
    <2>2. /\ k \in 1 .. 4 /\ n \in DOMAIN es(k)
          /\ EntryAt(m, p) = es(k)[n] /\ g[p] = <<Keys[k], Sources[k], es(k)[n].name>>
        BY <1>5, <2>1, Zenon
    <2>3. /\ es(k)[n].id = <<Sources[k], es(k)[n].name>> /\ m[Keys[k]].readable
          /\ \E f \in ToSet(m[Keys[k]].files) : f.valid /\ f.kind # "other" /\ es(k)[n].name = f.name
        BY <1>3, <2>2, Zenon
    <2>4. g[p] \in E
        BY <1>4, <2>2, <2>3, Zenon
    <2>5. g[p][2] = Sources[k] /\ g[p][3] = es(k)[n].name
        BY <2>2
    <2> QED BY <2>2, <2>3, <2>4, <2>5, Zenon
<1>9. ASSUME NEW p \in P, NEW q \in P, g[p] = g[q] PROVE p = q
    <2>1. PICK k, n : p = <<k, n>>
        BY <1>1
    <2>2. PICK j, i : q = <<j, i>>
        BY <1>1
    <2>3. /\ k \in 1 .. 4 /\ n \in DOMAIN es(k) /\ g[p] = <<Keys[k], Sources[k], es(k)[n].name>>
          /\ j \in 1 .. 4 /\ i \in DOMAIN es(j) /\ g[q] = <<Keys[j], Sources[j], es(j)[i].name>>
        BY <1>5, <2>1, <2>2, Zenon
    <2>4. Keys[k] = Keys[j] /\ es(k)[n].name = es(j)[i].name
        <3> DEFINE a == Keys[k]
                   b == Sources[k]
                   c == es(k)[n].name
                   x == Keys[j]
                   y == Sources[j]
                   z == es(j)[i].name
        <3>1. g[p] = <<a, b, c>> /\ g[q] = <<x, y, z>>
            BY <2>3
        <3> SUFFICES a = x /\ c = z
            OBVIOUS
        <3> HIDE DEF a, b, c, x, y, z
        <3>2. <<a, b, c>> = <<x, y, z>>
            BY <1>9, <3>1, Zenon
        <3> QED BY <3>2
    <2>5. k = j
        BY <1>6, <2>3, <2>4
    <2>6. Distinct(es(k)) /\ n \in 1 .. Len(es(k)) /\ i \in 1 .. Len(es(k))
        BY <1>3, <2>3, <2>5, Zenon
    <2>7. n = i
        BY <2>4, <2>5, <2>6, Zenon DEF Distinct
    <2> QED BY <2>1, <2>2, <2>5, <2>7
<1>10. ASSUME NEW e \in E PROVE \E p \in P : g[p] = e
    <2>1. PICK k \in 1 .. 4 :
            /\ m[Keys[k]].readable
            /\ \E f \in ToSet(m[Keys[k]].files) : f.valid /\ f.kind # "other" /\ e = <<Keys[k], Sources[k], f.name>>
        BY <1>4, Zenon
    <2>2. PICK f \in ToSet(m[Keys[k]].files) : f.valid /\ f.kind # "other" /\ e = <<Keys[k], Sources[k], f.name>>
        BY <2>1, Zenon
    <2>3. PICK n \in DOMAIN es(k) : es(k)[n].name = f.name
        BY <1>3, <2>1, <2>2, Zenon
    <2>4. <<k, n>> \in P
        BY <1>1, <1>2, <2>3, Zenon
    <2>5. g[<<k, n>>] = <<Keys[k], Sources[k], es(k)[n].name>>
        BY <1>5, <2>4, Zenon
    <2> QED BY <2>2, <2>3, <2>4, <2>5, Zenon
<1>11. g \in [P -> E]
    BY <1>7, <1>8
<1>12. g \in Bijection(P, E)
    BY <1>9, <1>10, <1>11 DEF Bijection, Injection, Surjection, IsInjective
<1> QED BY <1>8, <1>12 DEF P, E, g

\* Whatever the order in which the four scans push their entries, the menu of a
\* session has, behind the built-in commands, one entry for each valid file of
\* each directory that can be read, and shows none twice (slash-inventory.ts).
THEOREM MenuIsRight ==
    ASSUME NEW N, NEW T, NEW m \in MachineOf(N, T), NEW o \in Orders(Scans(m))
    PROVE  /\ SubSeq(ScanInventory(m, o), Len(Builtin) + 1, Len(ScanInventory(m, o))) = Found(m, o)
           /\ Len(Found(m, o)) = Cardinality(Expected(m))
           /\ \A i \in DOMAIN Found(m, o) :
                Cardinality({j \in DOMAIN Found(m, o) : Found(m, o)[j].id = Found(m, o)[i].id})
                  = Cardinality({e \in Expected(m) : <<e[2], e[3]>> = Found(m, o)[i].id})
<1> DEFINE P == Place(m)
           E == Expected(m)
           n == Cardinality(P)
           at(p) == EntryAt(m, p)
           g == Stands(m)
           found == Found(m, o)
           head == [i \in DOMAIN Builtin |-> [id |-> <<"builtin", Builtin[i]>>, name |-> Builtin[i], meta |-> NoMeta]]
<1>1. IsFiniteSet(P) /\ n \in Nat /\ IsFiniteSet(1 .. n)
    <2>1. IsFiniteSet(P) /\ n \in Nat
        BY PlacesAre, FS_CardinalityType
    <2> HIDE DEF n
    <2>2. 1 \in Int /\ n \in Int
        BY <2>1
    <2> QED BY <2>1, <2>2, FS_Interval
<1>2. o \in Bijection(1 .. n, P)
    BY DEF Orders, Place
<1>3. o \in [1 .. n -> P]
    BY <1>2 DEF Bijection, Injection
<1>4. /\ g \in Bijection(P, E)
      /\ \A p \in P : at(p).id = <<g[p][2], g[p][3]>>
    BY PlacesStand
<1>5. found = [i \in 1 .. n |-> at(o[i])]
    <2>1. DOMAIN o = 1 .. n
        BY <1>3
    <2>2. found = [i \in DOMAIN o |-> at(o[i])]
        BY Zenon DEF Found, EntryAt
    <2> QED BY <2>1, <2>2, Zenon
<1>6. head \o found = ScanInventory(m, o)
    BY Zenon DEF ScanInventory
<1>7. Len(Builtin) = 3 /\ DOMAIN Builtin = 1 .. 3
    <2>1. \A a, b, c : Len(<<a, b, c>>) = 3 /\ DOMAIN <<a, b, c>> = 1 .. 3
        OBVIOUS
    <2> QED BY <2>1, Zenon DEF Builtin
<1> DEFINE W == {at(p) : p \in P} \cup {head[i] : i \in 1 .. 3}
<1>8. head \in Seq(W) /\ Len(head) = 3
    <2>1. head = [i \in 1 .. 3 |-> head[i]]
        BY <1>7
    <2>2. \A i \in 1 .. 3 : head[i] \in W
        OBVIOUS
    <2> HIDE DEF head, W
    <2> QED BY <2>1, <2>2
<1>9. found \in Seq(W) /\ Len(found) = n /\ DOMAIN found = 1 .. n /\ \A i \in 1 .. n : found[i] = at(o[i])
    <2>1. \A i \in 1 .. n : at(o[i]) \in W
        BY <1>3
    <2> HIDE DEF W, at, found, n
    <2> QED BY <1>1, <1>5, <2>1
<1> HIDE DEF P, E, n, at, g, found, head, W
<1>10. SubSeq(ScanInventory(m, o), Len(Builtin) + 1, Len(ScanInventory(m, o))) = found
    <2>1. SubSeq(head \o found, Len(head) + 1, Len(head \o found)) = found
        BY <1>8, <1>9, AfterFirst
    <2> QED BY <1>6, <1>7, <1>8, <2>1, Zenon
<1>11. Len(found) = Cardinality(E)
    <2>1. Cardinality(E) = Cardinality(P)
        <3>1. P \in SUBSET P /\ E \in SUBSET E /\ \A p \in P : p \in P <=> g[p] \in E
            BY <1>4 DEF Bijection, Injection
        <3> QED BY <1>1, <1>4, <3>1, SameCount
    <2> QED BY <1>9, <2>1 DEF n
<1>12. ASSUME NEW i \in DOMAIN found
       PROVE  Cardinality({j \in DOMAIN found : found[j].id = found[i].id})
                = Cardinality({e \in E : <<e[2], e[3]>> = found[i].id})
    <2> DEFINE id == found[i].id
               J == {j \in 1 .. n : found[j].id = id}
               Q == {p \in P : at(p).id = id}
               D == {e \in E : <<e[2], e[3]>> = id}
    <2> HIDE DEF id
    <2>1. J \in SUBSET (1 .. n) /\ Q \in SUBSET P /\ D \in SUBSET E
        OBVIOUS
    <2>2. \A j \in 1 .. n : j \in J <=> o[j] \in Q
        BY <1>3, <1>9
    <2>3. \A p \in P : p \in Q <=> g[p] \in D
        BY <1>4 DEF Bijection, Injection
    <2> HIDE DEF J, Q, D
    <2>4. Cardinality(Q) = Cardinality(J)
        <3> DEFINE I == 1 .. n
        <3>1. IsFiniteSet(I) /\ o \in Bijection(I, P) /\ J \in SUBSET I
            BY <1>1, <1>2, <2>1
        <3>2. \A j \in I : j \in J <=> o[j] \in Q
            BY <2>2
        <3> HIDE DEF I
        <3>3. ASSUME NEW C \in SUBSET I, NEW B \in SUBSET P, \A j \in I : j \in C <=> o[j] \in B
              PROVE  Cardinality(B) = Cardinality(C)
            BY <3>1, <3>3, SameCount
        <3> QED BY <2>1, <3>1, <3>2, <3>3
    <2>5. Cardinality(D) = Cardinality(Q)
        BY <1>1, <1>4, <2>1, <2>3, SameCount
    <2>6. Cardinality(J) = Cardinality(D)
        BY <2>4, <2>5
    <2> QED BY <1>9, <2>6, Zenon DEF J, D, id
<1> QED BY <1>10, <1>11, <1>12, Zenon DEF found, E

LEMMA NothingMiscounted == Miscounted = {}
<1> DEFINE N == {"x", "y", "bad"}
           T == {<<>>}
           S == UNION {{<<m, o>> : o \in Orders(Scans(m))} : m \in Machines}
           Bad(m, o) ==
             LET out == ScanInventory(m, o)
                 found == SubSeq(out, Len(Builtin) + 1, Len(out))
                 named(id) == Cardinality({e \in Expected(m) : <<e[2], e[3]>> = id})
             IN  \/ Len(found) # Cardinality(Expected(m))
                 \/ \E i \in DOMAIN found :
                       Cardinality({j \in DOMAIN found : found[j].id = found[i].id}) # named(found[i].id)
<1>1. Machines \subseteq MachineOf(N, T)
    <2>1. \A kind \in {"markdown", "skill"} : Dirs(kind) \subseteq DirOf(kind, N, T)
        <3> TAKE kind \in {"markdown", "skill"}
        <3> DEFINE F == FileOf(N, T)
                   a == File("x", kind, TRUE)
                   b == File("y", kind, TRUE)
                   x == File("bad", kind, FALSE)
                   y == File("y", "other", TRUE)
        <3>1. a \in F /\ b \in F /\ x \in F /\ y \in F
            BY DEF FileOf, File
        <3>2. a.name = "x" /\ b.name = "y" /\ x.name = "bad" /\ y.name = "y"
              /\ a.kind = kind /\ b.kind = kind /\ x.kind = kind /\ y.kind = "other"
            BY DEF File
        <3> HIDE DEF F, a, b, x, y
        <3>3. ASSUME NEW fs \in {<<>>, <<a>>, <<a, b>>, <<x, y>>}
              PROVE  fs \in Seq(F) /\ Distinct(fs) /\ \A i \in 1 .. Len(fs) : fs[i].kind \in {kind, "other"}
            <4>1. a.name # b.name /\ x.name # y.name
                BY <3>2
            <4>2. CASE fs = <<>>
                BY <4>2 DEF Distinct
            <4>3. CASE fs = <<a>>
                <5>1. Len(fs) = 1 /\ fs[1] = a
                    BY <4>3
                <5>2. \A i \in 1 .. Len(fs) : fs[i] = a
                    BY <5>1
                <5>3. fs \in Seq(F)
                    BY <3>1, <4>3
                <5>4. Distinct(fs)
                    BY <5>1 DEF Distinct
                <5> QED BY <3>2, <5>2, <5>3, <5>4
            <4>4. ASSUME NEW u \in F, NEW v \in F, u.name # v.name, u.kind \in {kind, "other"},
                         v.kind \in {kind, "other"}, fs = <<u, v>>
                  PROVE  fs \in Seq(F) /\ Distinct(fs) /\ \A i \in 1 .. Len(fs) : fs[i].kind \in {kind, "other"}
                <5>1. fs \in Seq(F) /\ Len(fs) = 2 /\ fs[1] = u /\ fs[2] = v
                    BY <4>4
                <5>2. \A i \in 1 .. Len(fs) : i = 1 \/ i = 2
                    BY <5>1
                <5>3. Distinct(fs)
                    BY <4>4, <5>1, <5>2 DEF Distinct
                <5>4. \A i \in 1 .. Len(fs) : fs[i].kind \in {kind, "other"}
                    BY <4>4, <5>1, <5>2
                <5> QED BY <5>1, <5>3, <5>4
            <4>5. CASE fs = <<a, b>>
                BY <3>1, <3>2, <4>1, <4>4, <4>5
            <4>6. CASE fs = <<x, y>>
                BY <3>1, <3>2, <4>1, <4>4, <4>6
            <4> QED BY <4>2, <4>3, <4>5, <4>6
        <3>4. ASSUME NEW fs \in {<<>>, <<a>>, <<a, b>>, <<x, y>>}, NEW r \in BOOLEAN
              PROVE  [readable |-> r, files |-> fs] \in DirOf(kind, N, T)
            BY <3>3 DEF DirOf, F
        <3>5. /\ [readable |-> FALSE, files |-> <<>>] \in DirOf(kind, N, T)
              /\ [readable |-> TRUE, files |-> <<a>>] \in DirOf(kind, N, T)
              /\ [readable |-> TRUE, files |-> <<a, b>>] \in DirOf(kind, N, T)
              /\ [readable |-> TRUE, files |-> <<x, y>>] \in DirOf(kind, N, T)
            BY <3>4
        <3>6. Dirs(kind) =
                {[readable |-> FALSE, files |-> <<>>], [readable |-> TRUE, files |-> <<a>>],
                 [readable |-> TRUE, files |-> <<a, b>>], [readable |-> TRUE, files |-> <<x, y>>]}
            BY Zenon DEF Dirs, Dir, Unreadable, a, b, x, y
        <3> QED BY <3>5, <3>6, Zenon
    <2>2. \A kind : Few(kind) \subseteq Dirs(kind)
        BY DEF Few, Dirs
    <2> DEFINE H == DirOf("markdown", N, T)
               B == DirOf("skill", N, T)
               C == Dirs("markdown")
               D == Few("markdown")
               G == Few("skill")
    <2>3. C \subseteq H /\ D \subseteq H /\ G \subseteq B
        BY <2>1, <2>2
    <2>4. Machines = [homeCommands : C, cwdCommands : D, homeSkills : G, cwdSkills : G]
        BY DEF Machines
    <2>5. MachineOf(N, T) = [homeCommands : H, cwdCommands : H, homeSkills : B, cwdSkills : B]
        BY DEF MachineOf
    <2> HIDE DEF H, B, C, D, G
    <2> QED BY <2>3, <2>4, <2>5
<1>2. \A c \in S : \E m \in MachineOf(N, T) : \E o \in Orders(Scans(m)) : c = <<m, o>>
    BY <1>1
<1>3. ASSUME NEW c \in S PROVE ~ Bad(c[1], c[2])
    <2>1. PICK m \in MachineOf(N, T) : \E o \in Orders(Scans(m)) : c = <<m, o>>
        BY <1>2
    <2>2. PICK o \in Orders(Scans(m)) : c = <<m, o>>
        BY <2>1
    <2>3. c[1] = m /\ c[2] = o
        BY <2>2
    <2> DEFINE out == ScanInventory(m, o)
    <2>4. /\ SubSeq(out, Len(Builtin) + 1, Len(out)) = Found(m, o)
          /\ Len(Found(m, o)) = Cardinality(Expected(m))
          /\ \A i \in DOMAIN Found(m, o) :
               Cardinality({j \in DOMAIN Found(m, o) : Found(m, o)[j].id = Found(m, o)[i].id})
                 = Cardinality({e \in Expected(m) : <<e[2], e[3]>> = Found(m, o)[i].id})
        BY MenuIsRight
    <2>5. ~ Bad(m, o)
        <3> DEFINE found == SubSeq(out, Len(Builtin) + 1, Len(out))
        <3>1. found = Found(m, o)
            BY <2>4, Zenon
        <3> HIDE DEF found
        <3>2. /\ Len(found) = Cardinality(Expected(m))
              /\ \A i \in DOMAIN found :
                   Cardinality({j \in DOMAIN found : found[j].id = found[i].id})
                     = Cardinality({e \in Expected(m) : <<e[2], e[3]>> = found[i].id})
            BY <2>4, <3>1, Zenon
        <3> QED BY <3>2, Zenon DEF found
    <2> HIDE DEF Bad
    <2> QED BY <2>3, <2>5, Zenon
<1>4. Miscounted = {c \in S : Bad(c[1], c[2])}
    BY Zenon DEF Miscounted
<1> QED BY <1>3, <1>4, Zenon

-----------------------------------------------------------------------------
(* All of it                                                               *)

\* What the daemon reads of its machine - versions, modes, directories and
\* commands - is all of it and nothing besides (agent-probe.ts, fs-list.ts,
\* slash-inventory.ts).
THEOREM ReadsCorrect == Spec => []ReadsAreWhole
<1>1. /\ Misordered = {} /\ HalfBelieved = {} /\ MistakenModes = {}
      /\ Mislisted = {} /\ Miscut = {} /\ Misread = {} /\ Miscounted = {}
  BY NothingMisordered, NoHalf, NoModeMistaken, NothingMislisted, NothingMiscut,
     NothingMisread, NothingMiscounted
<1>2. ReadsAreWhole
  BY <1>1, Zenon DEF ReadsAreWhole, NewerCanMore, NoHalfIsBelieved, ModeIsTheProjects,
     ListedIsUnderRoot, CapCutsTheLast, MetaIsTheFrontMatter, UnreadableHidesNothing
<1> QED BY <1>2, PTL

-----------------------------------------------------------------------------
(* Composer: what stands before and after the last slash of a text         *)

LEMMA GreatestIs ==
    ASSUME NEW s \in SUBSET Int, NEW m \in s, \A y \in s : y <= m
    PROVE  Max(s) = m
<1> DEFINE x == Max(s)
<1>1. \E n \in s : \A y \in s : n >= y
    OBVIOUS
<1>2. x \in s /\ \A y \in s : x >= y
    BY <1>1 DEF Max
<1> HIDE DEF x
<1>3. x = m
    BY <1>2
<1> QED BY <1>3 DEF x

\* The least number of a set that has one.
LEMMA LeastIs ==
    ASSUME NEW s \in SUBSET Int, NEW m \in s, \A y \in s : m <= y
    PROVE  Min(s) = m
<1> DEFINE x == Min(s)
<1>1. \E n \in s : \A y \in s : n <= y
    OBVIOUS
<1>2. x \in s /\ \A y \in s : x <= y
    BY <1>1 DEF Min
<1> HIDE DEF x
<1>3. x = m
    BY <1>2
<1> QED BY <1>3 DEF x

\* A text behind another.
LEMMA BehindIs ==
    ASSUME NEW S, NEW a \in Seq(S), NEW b \in Seq(S)
    PROVE  /\ a \o b \in Seq(S) /\ Len(a \o b) = Len(a) + Len(b)
           /\ Len(a) \in Nat /\ Len(b) \in Nat
           /\ \A i \in 1 .. Len(a) : (a \o b)[i] = a[i]
           /\ \A i \in 1 .. Len(b) : (a \o b)[Len(a) + i] = b[i]
OBVIOUS

\* Texts over an alphabet may be put together in any order.
Regroups(x, y, z) == (x \o y) \o z = x \o (y \o z)
Groups(S) == \A x, y, z \in Seq(S) : Regroups(x, y, z)
Closed(S) == \A x, y \in Seq(S) : x \o y \in Seq(S)

\* Texts put together are texts, in whatever grouping.
LEMMA Regrouped == ASSUME NEW S PROVE Groups(S) /\ Closed(S)
<1>1. \A x, y, z \in Seq(S) : Regroups(x, y, z)
    BY ConcatAssociative DEF Regroups
<1>2. \A x, y \in Seq(S) : x \o y \in Seq(S)
    OBVIOUS
<1> QED BY <1>1, <1>2 DEF Groups, Closed

\* The lengths that decide how a text begins.
LEMMA LengthIs ==
    ASSUME NEW S, NEW t \in Seq(S)
    PROVE  /\ Len(t) \in Nat /\ (Len(t) = 0 <=> t = <<>>)
           /\ t = <<>> \/ Len(t) = 1 \/ Len(t) >= 2
<1>1. Len(t) \in Nat
    OBVIOUS
<1>2. Len(t) = 0 <=> t = <<>>
    OBVIOUS
<1> DEFINE n == Len(t)
<1> HIDE DEF n
<1>3. n = 0 \/ n = 1 \/ n >= 2
    <2>1. n \in Nat
        BY <1>1 DEF n
    <2> QED BY <2>1
<1> QED BY <1>1, <1>2, <1>3 DEF n

\* What is left of a text from a place on, and up to one.
LEMMA RestIs ==
    ASSUME NEW S, NEW t \in Seq(S), NEW m \in 1 .. (Len(t) + 1)
    PROVE  /\ SubSeq(t, m, Len(t)) \in Seq(S)
           /\ Len(SubSeq(t, m, Len(t))) = (Len(t) - m) + 1
           /\ \A i \in 1 .. (Len(t) - m) + 1 : SubSeq(t, m, Len(t))[i] = t[(i + m) - 1]
OBVIOUS

\* A part of a text.
LEMMA MiddleIs ==
    ASSUME NEW S, NEW t \in Seq(S), NEW k \in 0 .. Len(t), NEW m \in 1 .. (k + 1)
    PROVE  /\ SubSeq(t, m, k) \in Seq(S) /\ Len(SubSeq(t, m, k)) = (k - m) + 1
           /\ \A i \in 1 .. (k - m) + 1 : SubSeq(t, m, k)[i] = t[(i + m) - 1]
OBVIOUS

\* The beginning of a text.
LEMMA HeadIs ==
    ASSUME NEW S, NEW t \in Seq(S), NEW k \in 0 .. Len(t)
    PROVE  /\ SubSeq(t, 1, k) \in Seq(S) /\ Len(SubSeq(t, 1, k)) = k
           /\ \A i \in 1 .. k : SubSeq(t, 1, k)[i] = t[i]
OBVIOUS

\* A text is nothing or ends with a slash.
IsDir(u) == u = <<>> \/ u[Len(u)] = "/"

\* No slash is in a text.
IsName(q) == \A i \in DOMAIN q : q[i] # "/"

\* The last slash is that before a name.
LEMMA AfterSlashIs ==
    ASSUME NEW S, NEW u \in Seq(S), NEW q \in Seq(S), IsDir(u), IsName(q)
    PROVE  AfterSlash(u \o q) = Len(u)
<1> DEFINE t == u \o q
           s == {i \in DOMAIN t : t[i] = "/"} \cup {0}
<1>1. Len(u) \in s
    BY DEF IsDir
<1>2. ASSUME NEW i \in DOMAIN t, t[i] = "/" PROVE i <= Len(u)
    <2>1. SUFFICES ASSUME i > Len(u) PROVE FALSE
        OBVIOUS
    <2>2. i - Len(u) \in DOMAIN q /\ t[i] = q[i - Len(u)]
        BY <2>1
    <2> QED BY <1>2, <2>2 DEF IsName
<1>3. s \in SUBSET Int /\ \A y \in s : y <= Len(u)
    BY <1>2
<1> HIDE DEF s
<1>4. Max(s) = Len(u)
    BY <1>1, <1>3, GreatestIs
<1> QED BY <1>4 DEF s, AfterSlash

\* The first of two texts put together.
LEMMA FirstOf ==
    ASSUME NEW S, NEW u \in Seq(S), NEW q \in Seq(S)
    PROVE  SubSeq(u \o q, 1, Len(u)) = u
<1> DEFINE c == SubSeq(u \o q, 1, Len(u))
<1>1. c \in Seq(S) /\ Len(c) = Len(u) /\ \A i \in 1 .. Len(u) : c[i] = u[i]
    OBVIOUS
<1> HIDE DEF c
<1>2. c = u
    BY <1>1, SeqEqual
<1> QED BY <1>2 DEF c

\* A directory and a name are split where they meet.
LEMMA SplitIs ==
    ASSUME NEW S, NEW u \in Seq(S), NEW q \in Seq(S), IsDir(u), u # <<>>, IsName(q)
    PROVE  SplitPath(u \o q) = [parent |-> u, prefix |-> q]
<1>1. AfterSlash(u \o q) = Len(u) /\ Len(u) # 0
    BY AfterSlashIs
<1>2. SubSeq(u \o q, 1, Len(u)) = u
    BY FirstOf
<1>3. SubSeq(u \o q, Len(u) + 1, Len(u \o q)) = q
    BY AfterFirst
<1> QED BY <1>1, <1>2, <1>3 DEF SplitPath

\* Below a directory's name and its slash nothing has been typed.
LEMMA SplitBelow ==
    ASSUME NEW S, Slash \in Seq(S), NEW w \in Seq(S), NEW a \in Seq(S)
    PROVE  /\ SplitPath(w \o (a \o Slash)) = [parent |-> w \o a \o Slash, prefix |-> <<>>]
           /\ w \o (a \o Slash) = w \o a \o Slash
           /\ w \o a \o Slash \in Seq(S) /\ w \o a \o Slash # <<>> /\ IsDir(w \o a \o Slash)
<1> DEFINE h == w \o a
           x == h \o Slash
<1>1. Groups(S) /\ Closed(S)
    BY Regrouped
<1>2. w \o (a \o Slash) = x
    <2>1. Regroups(w, a, Slash)
        BY <1>1, Zenon DEF Groups
    <2> QED BY <2>1, Zenon DEF Regroups
<1>3. h \in Seq(S)
    BY <1>1, Zenon DEF Closed
<1> HIDE DEF h
<1>4. x \in Seq(S) /\ Len(x) = Len(h) + Len(Slash) /\ x[Len(h) + 1] = Slash[1] /\ Len(h) \in Nat
    BY <1>3, BehindIs DEF Slash
<1>5. Len(Slash) = 1 /\ Slash[1] = "/"
    BY DEF Slash
<1> HIDE DEF x
<1>6. x \in Seq(S) /\ x # <<>> /\ IsDir(x)
    BY <1>4, <1>5 DEF IsDir
<1>7. <<>> \in Seq(S) /\ IsName(<<>>)
    BY DEF IsName
<1>8. x \o <<>> = x
    BY <1>6, ConcatEmptySeq, Zenon
<1>9. SplitPath(x \o <<>>) = [parent |-> x, prefix |-> <<>>]
    BY <1>6, <1>7, SplitIs
<1> QED BY <1>2, <1>6, <1>8, <1>9 DEF x, h

\* Every text is a directory and a name.
LEMMA SlashParts ==
    ASSUME NEW S, NEW t \in Seq(S)
    PROVE  \E u \in Seq(S), q \in Seq(S) :
               /\ t = u \o q /\ IsDir(u) /\ IsName(q)
               /\ AfterSlash(t) = Len(u) /\ u = SubSeq(t, 1, AfterSlash(t))
<1> DEFINE slashes == {i \in DOMAIN t : t[i] = "/"}
           k == AfterSlash(t)
           u == SubSeq(t, 1, k)
           q == SubSeq(t, k + 1, Len(t))
<1>1. /\ k \in 0 .. Len(t) /\ (k # 0 => t[k] = "/")
      /\ \A i \in DOMAIN t : i > k => t[i] # "/"
    <2>1. CASE slashes = {}
        <3>1. slashes \cup {0} = {0}
            BY <2>1
        <3>2. Max({0}) = 0
            <4> DEFINE z == {0}
            <4>1. z \in SUBSET Int /\ 0 \in z /\ \A y \in z : y <= 0
                OBVIOUS
            <4> HIDE DEF z
            <4>2. Max(z) = 0
                BY <4>1, GreatestIs
            <4> QED BY <4>2 DEF z
        <3>3. k = 0
            BY <3>1, <3>2 DEF AfterSlash
        <3> QED BY <2>1, <3>3
    <2>2. CASE slashes # {}
        <3>1. slashes \in SUBSET (1 .. Len(t)) /\ Len(t) \in Nat
            OBVIOUS
        <3> DEFINE m == Max(slashes)
        <3>2. m \in slashes /\ \A y \in slashes : m >= y
            <4> HIDE DEF slashes
            <4> QED BY <2>2, <3>1, MaxOfNumbers
        <3> HIDE DEF m
        <3>3. m \in slashes \cup {0} /\ slashes \cup {0} \in SUBSET Int
              /\ \A y \in slashes \cup {0} : y <= m
            BY <3>1, <3>2
        <3>4. Max(slashes \cup {0}) = m
            <4> HIDE DEF slashes
            <4> QED BY <3>3, GreatestIs
        <3>5. k = m
            BY <3>4 DEF AfterSlash
        <3> HIDE DEF k
        <3> QED BY <3>2, <3>5
    <2> QED BY <2>1, <2>2
<1> HIDE DEF k, slashes
<1>2. u \in Seq(S) /\ Len(u) = k /\ \A i \in 1 .. k : u[i] = t[i]
    BY <1>1
<1>3. q \in Seq(S) /\ Len(q) = Len(t) - k /\ \A i \in 1 .. Len(q) : q[i] = t[k + i]
    BY <1>1
<1> HIDE DEF u, q
<1>4. t = u \o q
    <2>1. /\ Len(u \o q) = Len(u) + Len(q) /\ u \o q \in Seq(S)
          /\ \A i \in 1 .. Len(u) : (u \o q)[i] = u[i]
          /\ \A i \in 1 .. Len(q) : (u \o q)[Len(u) + i] = q[i]
        <3>1. u \in Seq(S) /\ q \in Seq(S)
            BY <1>2, <1>3
        <3> QED BY <3>1, BehindIs
    <2>2. Len(t) \in Nat /\ k \in Nat /\ Len(u) = k /\ Len(q) = Len(t) - k /\ k <= Len(t)
        BY <1>1, <1>2, <1>3
    <2>3. ASSUME NEW i \in 1 .. Len(t) PROVE (u \o q)[i] = t[i]
        <3>1. CASE i <= k
            <4>1. i \in 1 .. Len(u) /\ i \in 1 .. k
                BY <2>2, <3>1
            <4>2. (u \o q)[i] = u[i] /\ u[i] = t[i]
                BY <1>2, <2>1, <4>1
            <4> QED BY <4>2
        <3>2. CASE i > k
            <4> DEFINE j == i - k
            <4>1. j \in 1 .. Len(q) /\ k + j = i /\ Len(u) + j = i
                BY <2>2, <3>2
            <4> HIDE DEF j
            <4>2. (u \o q)[Len(u) + j] = q[j] /\ q[j] = t[k + j]
                BY <1>3, <2>1, <4>1
            <4> QED BY <4>1, <4>2
        <3> QED BY <2>2, <3>1, <3>2
    <2>4. Len(u \o q) = Len(t)
        BY <2>1, <2>2
    <2> QED BY <2>1, <2>3, <2>4, SeqEqual
<1>5. IsDir(u)
    BY <1>1, <1>2 DEF IsDir
<1>6. IsName(q)
    <2>1. \A i \in DOMAIN q : k + i \in DOMAIN t /\ k + i > k /\ q[i] = t[k + i]
        BY <1>1, <1>3
    <2> QED BY <1>1, <2>1 DEF IsName
<1> QED BY <1>2, <1>3, <1>4, <1>5, <1>6 DEF u, k

-----------------------------------------------------------------------------
(* Composer: prefixes                                                      *)

LEMMA PrefixOne ==
    ASSUME NEW S, NEW t \in Seq(S), NEW x \in S
    PROVE  IsPrefix(<<x>>, t) <=> t # <<>> /\ t[1] = x
<1>1. <<x>> \in Seq(S) /\ Len(<<x>>) = 1 /\ <<x>>[1] = x
    OBVIOUS
<1>2. IsPrefix(<<x>>, t) <=> Starts(<<x>>, t)
    BY <1>1, PrefixStarts
<1>3. Starts(<<x>>, t) <=> 1 <= Len(t) /\ t[1] = x
    BY <1>1 DEF Starts
<1>4. 1 <= Len(t) <=> t # <<>>
    OBVIOUS
<1> QED BY <1>2, <1>3, <1>4

\* A text that begins with two given letters.
LEMMA PrefixTwo ==
    ASSUME NEW S, NEW t \in Seq(S), NEW x \in S, NEW y \in S
    PROVE  IsPrefix(<<x, y>>, t) <=> Len(t) >= 2 /\ t[1] = x /\ t[2] = y
<1> DEFINE w == <<x, y>>
<1>1. w \in Seq(S) /\ Len(w) = 2 /\ w[1] = x /\ w[2] = y
    OBVIOUS
<1> HIDE DEF w
<1>2. IsPrefix(w, t) <=> Starts(w, t)
    BY <1>1, PrefixStarts
<1>3. Starts(w, t) <=> 2 <= Len(t) /\ t[1] = x /\ t[2] = y
    BY <1>1 DEF Starts
<1> QED BY <1>2, <1>3 DEF w

\* Of two texts, one behind the other, the first is a prefix and the second
\* a suffix.
LEMMA PartsStand ==
    ASSUME NEW S, NEW a \in Seq(S), NEW r \in Seq(S)
    PROVE  IsPrefix(a, a \o r) /\ IsSuffix(r, a \o r)
<1>1. Starts(a, a \o r)
    BY DEF Starts
<1>2. a \o r \in Seq(S)
    OBVIOUS
<1>3. IsPrefix(a, a \o r)
    BY <1>1, <1>2, PrefixStarts
<1> DEFINE x == Reverse(r)
           y == Reverse(a \o r)
<1>4. x \in Seq(S) /\ Len(x) = Len(r) /\ \A i \in 1 .. Len(r) : x[i] = r[(Len(r) - i) + 1]
    BY DEF Reverse
<1>5. /\ y \in Seq(S) /\ Len(y) = Len(a) + Len(r)
      /\ \A i \in 1 .. Len(r) : y[i] = (a \o r)[(Len(a) + Len(r) - i) + 1]
    <2>1. Len(a \o r) = Len(a) + Len(r) /\ \A i \in 1 .. Len(a) + Len(r) : (a \o r)[i] \in S
        OBVIOUS
    <2> DEFINE c == a \o r
               n == Len(a) + Len(r)
    <2>2. c \in Seq(S) /\ Len(c) = n /\ n \in Nat /\ \A i \in 1 .. n : c[i] \in S
        BY <2>1
    <2>3. \A i \in 1 .. Len(r) : i \in 1 .. n
        OBVIOUS
    <2> HIDE DEF c, n
    <2>4. Reverse(c) = [i \in 1 .. n |-> c[(n - i) + 1]]
        BY <2>2 DEF Reverse
    <2>5. \A i \in 1 .. n : c[(n - i) + 1] \in S
        BY <2>2
    <2>6. Reverse(c) \in Seq(S) /\ Len(Reverse(c)) = n
        BY <2>2, <2>4, <2>5
    <2>7. \A i \in 1 .. Len(r) : Reverse(c)[i] = c[(n - i) + 1]
        BY <2>3, <2>4
    <2> QED BY <2>6, <2>7 DEF c, n
<1> HIDE DEF x, y
<1>6. \A i \in 1 .. Len(r) : (a \o r)[(Len(a) + Len(r) - i) + 1] = r[(Len(r) - i) + 1]
    OBVIOUS
<1>7. Starts(x, y)
    <2> DEFINE c == a \o r
               n == Len(a) + Len(r)
    <2>1. \A i \in 1 .. Len(r) : y[i] = c[(n - i) + 1] /\ x[i] = r[(Len(r) - i) + 1]
        BY <1>4, <1>5
    <2>2. \A i \in 1 .. Len(r) : c[(n - i) + 1] = r[(Len(r) - i) + 1]
        BY <1>6
    <2>3. Len(x) = Len(r) /\ Len(x) <= Len(y)
        BY <1>4, <1>5
    <2> HIDE DEF c, n
    <2>4. \A i \in 1 .. Len(x) : y[i] = x[i]
        BY <2>1, <2>2, <2>3
    <2> QED BY <2>3, <2>4 DEF Starts
<1>8. IsPrefix(x, y)
    BY <1>4, <1>5, <1>7, PrefixStarts
<1> QED BY <1>3, <1>8 DEF IsSuffix, x, y

-----------------------------------------------------------------------------
(* Composer: what a token points to                                        *)

\* The characters that the code gives a meaning to.
Special == {"/", "~", ".", "@", Blank}
Speaks(S) == Special \subseteq S
AtSign == <<"@">>
Draft(b, t, r) == b \o AtSign \o t \o r

\* The directory that relative tokens are below.
Based(cwd) == IF cwd = <<>> THEN Slash ELSE IF Last(cwd) = "/" THEN cwd ELSE cwd \o Slash

\* What is joined to a directory stands behind one slash.
LEMMA JoinIs ==
    ASSUME NEW S, Speaks(S), NEW cwd \in Seq(S), NEW rel \in Seq(S)
    PROVE  /\ JoinCwd(cwd, rel) = Based(cwd) \o rel
           /\ Based(cwd) \in Seq(S) /\ Based(cwd) # <<>> /\ IsDir(Based(cwd))
<1>1. Slash \in Seq(S) /\ Slash # <<>> /\ Slash[Len(Slash)] = "/"
    BY DEF Slash, Speaks, Special
<1>2. CASE cwd = <<>>
    BY <1>1, <1>2 DEF Based, JoinCwd, IsDir
<1>3. CASE cwd # <<>> /\ Last(cwd) = "/"
    BY <1>3 DEF Based, JoinCwd, IsDir, Last
<1>4. CASE cwd # <<>> /\ Last(cwd) # "/"
    <2>1. /\ cwd \o Slash \in Seq(S) /\ cwd \o Slash # <<>>
          /\ (cwd \o Slash)[Len(cwd \o Slash)] = "/"
        BY <1>1 DEF Slash
    <2>2. Based(cwd) = cwd \o Slash /\ JoinCwd(cwd, rel) = cwd \o Slash \o rel
        BY <1>4 DEF Based, JoinCwd
    <2> QED BY <2>1, <2>2 DEF IsDir
<1> QED BY <1>2, <1>3, <1>4

Absolute(u) == u # <<>> /\ (u[1] = "/" \/ u[1] = "~")
Dotted(u) == Len(u) >= 2 /\ u[1] = "." /\ u[2] = "/"

\* The directory that a token with u before its last slash is of.
PointsTo(u, cwd) ==
    IF Absolute(u) THEN u
    ELSE Based(cwd) \o (IF Dotted(u) THEN SubSeq(u, 3, Len(u)) ELSE u)

\* A token that ends in a slash points to a directory.
LEMMA PointsToDir ==
    ASSUME NEW S, Speaks(S), NEW u \in Seq(S), NEW cwd \in Seq(S), IsDir(u)
    PROVE  PointsTo(u, cwd) \in Seq(S) /\ PointsTo(u, cwd) # <<>> /\ IsDir(PointsTo(u, cwd))
<1> DEFINE b == Based(cwd)
<1>1. b \in Seq(S) /\ b # <<>> /\ IsDir(b)
    BY JoinIs
<1>2. \A v \in Seq(S) : IsDir(v) => b \o v \in Seq(S) /\ b \o v # <<>> /\ IsDir(b \o v)
    <2> HIDE DEF b
    <2> SUFFICES ASSUME NEW v \in Seq(S), IsDir(v)
                 PROVE  b \o v \in Seq(S) /\ b \o v # <<>> /\ IsDir(b \o v)
        OBVIOUS
    <2>1. CASE v = <<>>
        <3>1. b \o v = b
            BY <1>1, <2>1
        <3> QED BY <1>1, <3>1
    <2>2. CASE v # <<>>
        <3>1. (b \o v)[Len(b \o v)] = v[Len(v)] /\ b \o v \in Seq(S) /\ b \o v # <<>>
            BY <1>1, <2>2
        <3> QED BY <2>2, <3>1 DEF IsDir
    <2> QED BY <2>1, <2>2
<1>3. Dotted(u) => SubSeq(u, 3, Len(u)) \in Seq(S) /\ IsDir(SubSeq(u, 3, Len(u)))
    <2> SUFFICES ASSUME Dotted(u)
                 PROVE  SubSeq(u, 3, Len(u)) \in Seq(S) /\ IsDir(SubSeq(u, 3, Len(u)))
        OBVIOUS
    <2> DEFINE v == SubSeq(u, 3, Len(u))
    <2>1. v \in Seq(S) /\ Len(v) = Len(u) - 2 /\ \A i \in 1 .. Len(v) : v[i] = u[i + 2]
        <3>1. Len(u) \in Nat /\ Len(u) >= 2 /\ 3 \in 1 .. (Len(u) + 1)
            BY DEF Dotted
        <3>2. v \in Seq(S) /\ Len(v) = (Len(u) - 3) + 1 /\ \A i \in 1 .. (Len(u) - 3) + 1 : v[i] = u[(i + 3) - 1]
            BY <3>1, RestIs
        <3>3. Len(v) = Len(u) - 2
            BY <3>1, <3>2
        <3>4. ASSUME NEW i \in 1 .. Len(v) PROVE v[i] = u[i + 2]
            <4>1. i \in 1 .. (Len(u) - 3) + 1 /\ (i + 3) - 1 = i + 2
                BY <3>1, <3>3
            <4> QED BY <3>2, <4>1
        <3> QED BY <3>2, <3>3, <3>4
    <2> HIDE DEF v
    <2>2. v # <<>> => v[Len(v)] = u[Len(u)]
        BY <2>1
    <2>3. u[Len(u)] = "/"
        BY DEF Dotted, IsDir
    <2>4. v \in Seq(S) /\ IsDir(v)
        BY <2>1, <2>2, <2>3 DEF IsDir
    <2> QED BY <2>4 DEF v
<1>4. Absolute(u) => u # <<>>
    BY DEF Absolute
<1> HIDE DEF b
<1> QED BY <1>2, <1>3, <1>4 DEF PointsTo, b

\* What is behind the first two letters.
LEMMA RestBehind ==
    ASSUME NEW S, NEW u \in Seq(S), NEW z \in Seq(S), Len(u) >= 2
    PROVE  SubSeq(u \o z, 3, Len(u \o z)) = SubSeq(u, 3, Len(u)) \o z
<1> DEFINE t == u \o z
           n == Len(u)
           k == Len(z)
           v == SubSeq(u, 3, n)
           w == SubSeq(t, 3, Len(t))
<1>1. /\ t \in Seq(S) /\ Len(t) = n + k /\ n \in Nat /\ k \in Nat /\ n >= 2
      /\ \A i \in 1 .. n : t[i] = u[i]
      /\ \A i \in 1 .. k : t[n + i] = z[i]
    BY BehindIs
<1>2. 3 \in 1 .. (n + 1) /\ 3 \in 1 .. (Len(t) + 1)
    <2> HIDE DEF t, n, k
    <2> QED BY <1>1
<1>3. v \in Seq(S) /\ Len(v) = (n - 3) + 1 /\ \A i \in 1 .. (n - 3) + 1 : v[i] = u[(i + 3) - 1]
    BY <1>2, RestIs
<1>4. w \in Seq(S) /\ Len(w) = (Len(t) - 3) + 1 /\ \A i \in 1 .. (Len(t) - 3) + 1 : w[i] = t[(i + 3) - 1]
    <2> HIDE DEF t
    <2> QED BY <1>1, <1>2, RestIs
<1> HIDE DEF v, w
<1>5. /\ v \o z \in Seq(S) /\ Len(v \o z) = Len(v) + k
      /\ \A i \in 1 .. Len(v) : (v \o z)[i] = v[i]
      /\ \A i \in 1 .. k : (v \o z)[Len(v) + i] = z[i]
    <2>1. v \in Seq(S)
        BY <1>3
    <2> QED BY <2>1, BehindIs
<1> DEFINE x == v \o z
<1> HIDE DEF t, n, k, x
<1>6. Len(w) = Len(x)
    BY <1>1, <1>3, <1>4, <1>5 DEF x
<1>7. ASSUME NEW i \in 1 .. Len(w) PROVE w[i] = x[i]
    <2>1. w[i] = t[i + 2]
        <3>1. i \in 1 .. (Len(t) - 3) + 1 /\ (i + 3) - 1 = i + 2
            BY <1>1, <1>4
        <3> QED BY <1>4, <3>1
    <2>2. CASE i <= n - 2
        <3>1. i \in 1 .. Len(v) /\ i \in 1 .. (n - 3) + 1 /\ (i + 3) - 1 = i + 2 /\ i + 2 \in 1 .. n
            BY <1>1, <1>3, <2>2
        <3>2. x[i] = v[i] /\ v[i] = u[i + 2] /\ t[i + 2] = u[i + 2]
            BY <1>1, <1>3, <1>5, <3>1 DEF x
        <3> QED BY <2>1, <3>2
    <2>3. CASE i > n - 2
        <3> DEFINE j == i - (n - 2)
        <3>1. j \in 1 .. k /\ Len(v) + j = i /\ n + j = i + 2
            BY <1>1, <1>3, <1>4, <2>3
        <3> HIDE DEF j
        <3>2. x[Len(v) + j] = z[j] /\ t[n + j] = z[j]
            BY <1>1, <1>5, <3>1 DEF x
        <3> QED BY <2>1, <3>1, <3>2
    <2> QED BY <1>1, <2>2, <2>3
<1>8. w = x
    BY <1>3, <1>4, <1>5, <1>6, <1>7, SeqEqual DEF x
<1> QED BY <1>8 DEF w, x, v, t, n

\* Behind no directory stands nothing that begins as a token of its own kind.
Plain(u, z) == u = <<>> => ~ Absolute(z) /\ ~ Dotted(z)

\* Which of the three kinds a token is shows in what stands before its last
\* slash.
LEMMA ResolvedIs ==
    ASSUME NEW S, Speaks(S),
           NEW u \in Seq(S), NEW z \in Seq(S), NEW cwd \in Seq(S), IsDir(u),
           Plain(u, z)
    PROVE  ResolveMentionPath(u \o z, cwd) = SplitPath(PointsTo(u, cwd) \o z)
<1> DEFINE t == u \o z
<1>1. t \in Seq(S) /\ Len(t) = Len(u) + Len(z) /\ \A i \in 1 .. Len(u) : t[i] = u[i]
    BY BehindIs
<1>2. "/" \in S /\ "~" \in S /\ "." \in S
    BY DEF Speaks, Special
<1>3. u = <<>> => t = z
    OBVIOUS
<1> HIDE DEF t
<1>4. Absolute(t) <=> Absolute(u)
    <2>1. CASE u = <<>>
        BY <1>3, <2>1 DEF Absolute, Plain
    <2>2. CASE u # <<>>
        <3>1. t # <<>> /\ t[1] = u[1]
            BY <1>1, <2>2
        <3> QED BY <2>2, <3>1 DEF Absolute
    <2> QED BY <2>1, <2>2
<1>5. Dotted(t) <=> Dotted(u)
    <2>1. CASE u = <<>>
        BY <1>3, <2>1 DEF Dotted, Plain
    <2>2. CASE Len(u) = 1
        <3>1. u # <<>> /\ 1 \in 1 .. Len(u)
            <4>1. Len(u) = 0 <=> u = <<>>
                BY LengthIs
            <4> QED BY <2>2, <4>1
        <3>2. u[1] = "/" /\ t[1] = u[1]
            BY <1>1, <2>2, <3>1 DEF IsDir
        <3> QED BY <2>2, <3>2 DEF Dotted
    <2>3. CASE Len(u) >= 2
        <3>1. Len(t) >= 2 /\ t[1] = u[1] /\ t[2] = u[2]
            <4>1. 1 \in 1 .. Len(u) /\ 2 \in 1 .. Len(u) /\ Len(z) \in Nat /\ Len(u) \in Nat
                BY <2>3
            <4> QED BY <1>1, <2>3, <4>1
        <3> QED BY <2>3, <3>1 DEF Dotted
    <2>4. u = <<>> \/ Len(u) = 1 \/ Len(u) >= 2
        BY LengthIs
    <2> QED BY <2>1, <2>2, <2>3, <2>4, Zenon
<1>6. (IsPrefix(Slash, t) \/ IsPrefix(<<"~">>, t)) <=> Absolute(t)
    <2>1. IsPrefix(<<"/">>, t) <=> t # <<>> /\ t[1] = "/"
        BY <1>1, <1>2, PrefixOne
    <2>2. IsPrefix(<<"~">>, t) <=> t # <<>> /\ t[1] = "~"
        BY <1>1, <1>2, PrefixOne
    <2> QED BY <2>1, <2>2 DEF Absolute, Slash
<1>7. IsPrefix(<<".", "/">>, t) <=> Dotted(t)
    BY <1>1, <1>2, PrefixTwo DEF Dotted
<1> DEFINE Abs == IsPrefix(Slash, t) \/ IsPrefix(<<"~">>, t)
           D == IsPrefix(<<".", "/">>, t)
           w == SubSeq(t, 3, Len(t))
           R == CASE Abs -> t [] D -> JoinCwd(cwd, w) [] OTHER -> JoinCwd(cwd, t)
<1>8. ResolveMentionPath(t, cwd) = SplitPath(R)
    BY DEF ResolveMentionPath
<1>9. Abs <=> Absolute(u)
    BY <1>4, <1>6
<1>10. D <=> Dotted(u)
    BY <1>5, <1>7
<1> HIDE DEF Abs, D, w
<1>11. CASE Absolute(u)
    <2>1. ResolveMentionPath(t, cwd) = SplitPath(t)
        <3>1. Abs /\ ~ D
            <4>1. ~ Dotted(u)
                BY <1>11 DEF Absolute, Dotted
            <4> QED BY <1>9, <1>10, <1>11, <4>1
        <3>2. R = t
            BY <3>1
        <3> QED BY <1>8, <3>2
    <2>2. PointsTo(u, cwd) = u
        BY <1>11 DEF PointsTo
    <2> QED BY <2>1, <2>2 DEF t
<1> DEFINE b == Based(cwd)
<1>12. b \in Seq(S) /\ \A rel \in Seq(S) : JoinCwd(cwd, rel) = b \o rel
    BY JoinIs
<1> HIDE DEF b
<1>13. CASE ~ Absolute(u) /\ Dotted(u)
    <2>1. ResolveMentionPath(t, cwd) = SplitPath(JoinCwd(cwd, w))
        <3>1. ~ Abs /\ D
            BY <1>9, <1>10, <1>13
        <3>2. R = JoinCwd(cwd, w)
            BY <3>1
        <3> QED BY <1>8, <3>2
    <2> DEFINE v == SubSeq(u, 3, Len(u))
    <2>2. v \in Seq(S)
        <3>1. 3 \in 1 .. (Len(u) + 1)
            BY <1>13 DEF Dotted
        <3> QED BY <3>1, RestIs
    <2>3. w = v \o z
        <3>1. Len(u) >= 2 /\ Len(u) \in Nat
            BY <1>13 DEF Dotted
        <3> QED BY <3>1, RestBehind DEF t, w
    <2> HIDE DEF v
    <2>4. w \in Seq(S)
        BY <2>2, <2>3, BehindIs
    <2>5. JoinCwd(cwd, w) = b \o (v \o z)
        BY <1>12, <2>4, <2>3
    <2>6. b \o (v \o z) = (b \o v) \o z
        <3>1. b \in Seq(S)
            BY <1>12
        <3>2. Groups(S)
            BY Regrouped
        <3>3. (b \o v) \o z = b \o (v \o z)
            <4>1. Regroups(b, v, z)
                BY <2>2, <3>1, <3>2, Zenon DEF Groups
            <4> QED BY <4>1, Zenon DEF Regroups
        <3> QED BY <3>3
    <2>7. PointsTo(u, cwd) = b \o v
        BY <1>13 DEF PointsTo, b, v
    <2> QED BY <2>1, <2>5, <2>6, <2>7 DEF t, w
<1>14. CASE ~ Absolute(u) /\ ~ Dotted(u)
    <2>1. ResolveMentionPath(t, cwd) = SplitPath(JoinCwd(cwd, t))
        <3>1. ~ Abs /\ ~ D
            BY <1>9, <1>10, <1>14
        <3>2. R = JoinCwd(cwd, t)
            BY <3>1
        <3> QED BY <1>8, <3>2
    <2>2. JoinCwd(cwd, t) = b \o (u \o z)
        BY <1>1, <1>12 DEF t
    <2>3. b \o (u \o z) = (b \o u) \o z
        <3>1. b \in Seq(S)
            BY <1>12
        <3>2. Groups(S)
            BY Regrouped
        <3> QED BY <3>1, <3>2 DEF Groups, Regroups
    <2>4. PointsTo(u, cwd) = b \o u
        BY <1>14 DEF PointsTo, b
    <2> QED BY <2>1, <2>2, <2>3, <2>4 DEF t
<1> QED BY <1>11, <1>13, <1>14

\* A token below the home directory is looked up as it stands.
LEMMA HomeIs ==
    ASSUME NEW S, Speaks(S), NEW t \in Seq(S), t # <<>>, t[1] = "~", NEW cwd
    PROVE  ResolveMentionPath(t, cwd) = SplitPath(t)
<1> DEFINE Abs == IsPrefix(Slash, t) \/ IsPrefix(<<"~">>, t)
           D == IsPrefix(<<".", "/">>, t)
           v == JoinCwd(cwd, SubSeq(t, 3, Len(t)))
           R == CASE Abs -> t [] D -> v [] OTHER -> JoinCwd(cwd, t)
<1>1. ResolveMentionPath(t, cwd) = SplitPath(R)
    BY DEF ResolveMentionPath
<1>2. "/" \in S /\ "~" \in S /\ "." \in S
    BY DEF Speaks, Special
<1>3. Abs
    <2>1. IsPrefix(<<"~">>, t)
        BY <1>2, PrefixOne
    <2> QED BY <2>1
<1>4. ~ D
    <2>1. t[1] # "."
        OBVIOUS
    <2> QED BY <1>2, <2>1, PrefixTwo
<1> HIDE DEF Abs, D, v
<1>5. R = t
    BY <1>3, <1>4
<1> QED BY <1>1, <1>5

-----------------------------------------------------------------------------
(* Composer: the token at the cursor                                       *)

\* The places of a draft with a token in it.
Laid(S, b, t, r, d) ==
    /\ d \in Seq(S) /\ Len(d) = Len(b) + 1 + Len(t) + Len(r)
    /\ \A i \in 1 .. Len(b) : d[i] = b[i]
    /\ d[Len(b) + 1] = "@"
    /\ \A i \in 1 .. Len(t) : d[Len(b) + 1 + i] = t[i]
    /\ \A i \in 1 .. Len(r) : d[Len(b) + 1 + Len(t) + i] = r[i]

\* A draft that holds a token, in its three parts.
LEMMA DraftIs ==
    ASSUME NEW S, Speaks(S), NEW b \in Seq(S), NEW t \in Seq(S), NEW r \in Seq(S)
    PROVE  Laid(S, b, t, r, Draft(b, t, r))
<1>1. "@" \in S
    BY DEF Speaks, Special
<1> QED BY <1>1 DEF AtSign, Draft, Laid

\* No blank and no "@" are in a token.
IsToken(t) == \A i \in DOMAIN t : t[i] # Blank /\ t[i] # "@"

\* A token is found from everywhere in it, and all of it is.
TokenAt(l, t) == [start |-> l, end |-> l + Len(t), text |-> t]
EndsToken(r) == r # <<>> => r[1] = Blank

\* The token at the cursor is the one the draft was made with.
LEMMA TokenIs ==
    ASSUME NEW S, Speaks(S), NEW b \in Seq(S), NEW t \in Seq(S), NEW r \in Seq(S),
           IsToken(t), EndsToken(r), NEW cur \in 0 .. Len(t)
    PROVE  FindMentionAtCursor(Draft(b, t, r), Len(b) + 1 + cur) = TokenAt(Len(b) + 1, t)
<1> DEFINE d == Draft(b, t, r)
           m == Len(b) + 1
           c == m + cur
           n == Len(t)
           ats == {i \in 1 .. c : d[i] = "@" /\ \A k \in i .. c : d[k] # Blank}
           ends == {j \in c .. Len(d) : j = Len(d) \/ d[j + 1] = Blank}
<1>1. /\ d \in Seq(S) /\ Len(d) = m + n + Len(r)
      /\ d[m] = "@"
      /\ \A i \in 1 .. n : d[m + i] = t[i]
      /\ \A i \in 1 .. Len(r) : d[m + n + i] = r[i]
    <2>1. Laid(S, b, t, r, Draft(b, t, r))
        BY DraftIs
    <2> QED BY <2>1 DEF Laid
<1>2. m \in Nat \ {0} /\ n \in Nat /\ c \in m .. (m + n) /\ Len(r) \in Nat
    OBVIOUS
<1> HIDE DEF d, m, n, c
<1>3. \A i \in (m + 1) .. (m + n) : d[i] # Blank /\ d[i] # "@"
    <2> SUFFICES ASSUME NEW i \in (m + 1) .. (m + n) PROVE d[i] # Blank /\ d[i] # "@"
        OBVIOUS
    <2> DEFINE j == i - m
    <2>1. j \in 1 .. n /\ m + j = i
        BY <1>2
    <2>2. j \in DOMAIN t
        BY <2>1 DEF n
    <2> HIDE DEF j
    <2>3. d[m + j] = t[j]
        BY <1>1, <2>1
    <2> QED BY <2>1, <2>2, <2>3 DEF IsToken
<1>4. m \in ats
    <2>1. ASSUME NEW k \in m .. c PROVE d[k] # Blank
        <3>1. d[m] # Blank
            BY <1>1 DEF Blank
        <3>2. k = m \/ k \in (m + 1) .. (m + n)
            BY <1>2
        <3> QED BY <1>3, <3>1, <3>2
    <2>2. m \in 1 .. c
        BY <1>2
    <2> QED BY <1>1, <2>1, <2>2
<1>5. Max(ats) = m
    <2>1. m \in ats
        BY <1>4
    <2>2. ASSUME NEW i \in ats PROVE i <= m
        <3>1. SUFFICES ASSUME i > m PROVE FALSE
            BY <1>2
        <3>2. i \in 1 .. c /\ d[i] = "@"
            OBVIOUS
        <3>3. i \in (m + 1) .. (m + n)
            BY <1>2, <3>1, <3>2
        <3> QED BY <1>3, <3>2, <3>3
    <2>3. ats \in SUBSET Int
        BY <1>2
    <2> HIDE DEF ats
    <2> QED BY <2>1, <2>2, <2>3, GreatestIs
<1>6. Min(ends) = m + n
    <2>1. m + n \in ends
        <3>1. CASE r = <<>>
            BY <1>1, <1>2, <3>1
        <3>2. CASE r # <<>>
            <4>1. 1 \in 1 .. Len(r)
                BY <3>2
            <4>2. d[m + n + 1] = Blank
                BY <1>1, <3>2, <4>1 DEF EndsToken
            <4>3. m + n \in c .. Len(d) /\ Len(d) \in Nat
                <5>1. Len(d) = m + n + Len(r)
                    BY <1>1
                <5> QED BY <1>2, <5>1
            <4> QED BY <4>2, <4>3
        <3> QED BY <3>1, <3>2
    <2>2. \A j \in ends : m + n <= j
        <3> SUFFICES ASSUME NEW j \in ends, j < m + n PROVE FALSE
            BY <1>1, <1>2
        <3>1. j \in c .. Len(d) /\ j + 1 \in (m + 1) .. (m + n) /\ j # Len(d)
            BY <1>1, <1>2
        <3> QED BY <1>3, <3>1
    <2>3. ends \in SUBSET Int
        BY <1>1, <1>2
    <2> HIDE DEF ends
    <2> QED BY <1>2, <2>1, <2>2, <2>3, LeastIs
<1>7. ats # {}
    BY <1>4
<1>8. SubSeq(d, m + 1, m + n) = t
    <2> DEFINE x == SubSeq(d, m + 1, m + n)
    <2>1. x \in Seq(S) /\ Len(x) = n /\ \A i \in 1 .. n : x[i] = d[m + i]
        <3> DEFINE k == m + n
        <3>1. k \in 0 .. Len(d) /\ m + 1 \in 1 .. (k + 1) /\ k \in Nat /\ d \in Seq(S)
            BY <1>1, <1>2
        <3> HIDE DEF k
        <3>2. SubSeq(d, m + 1, k) \in Seq(S) /\ Len(SubSeq(d, m + 1, k)) = (k - (m + 1)) + 1
              /\ \A i \in 1 .. (k - (m + 1)) + 1 : SubSeq(d, m + 1, k)[i] = d[(i + (m + 1)) - 1]
            BY <3>1, MiddleIs
        <3>3. (k - (m + 1)) + 1 = n /\ \A i \in 1 .. n : (i + (m + 1)) - 1 = m + i
            BY <1>2 DEF k
        <3>4. SubSeq(d, m + 1, k) \in Seq(S) /\ Len(SubSeq(d, m + 1, k)) = n
              /\ \A i \in 1 .. n : SubSeq(d, m + 1, k)[i] = d[m + i]
            BY <3>2, <3>3
        <3> QED BY <3>4 DEF k
    <2> HIDE DEF x
    <2>2. Len(t) = n
        BY DEF n
    <2>3. x = t
        BY <1>1, <2>1, <2>2, SeqEqual
    <2> QED BY <2>3 DEF x
<1>9. FindMentionAtCursor(d, c)
        = IF ats = {} THEN NoToken
          ELSE [start |-> Max(ats), end |-> Min(ends), text |-> SubSeq(d, Max(ats) + 1, Min(ends))]
    BY DEF FindMentionAtCursor
<1> HIDE DEF ats, ends
<1>10. FindMentionAtCursor(d, c) = [start |-> m, end |-> m + n, text |-> t]
    BY <1>5, <1>6, <1>7, <1>8, <1>9
<1> QED BY <1>10 DEF d, m, n, c, TokenAt

\* Behind a blank there is none.
LEMMA NoTokenIs ==
    ASSUME NEW d, NEW c \in Nat \ {0}, d[c] = Blank
    PROVE  FindMentionAtCursor(d, c) = NoToken
<1> DEFINE ats == {i \in 1 .. c : d[i] = "@" /\ \A k \in i .. c : d[k] # Blank}
<1>1. ats = {}
    OBVIOUS
<1> HIDE DEF ats
<1> QED BY <1>1 DEF FindMentionAtCursor, ats

-----------------------------------------------------------------------------
(* Composer: the order of names, and what a listing of one entry offers    *)

\* Every character has a place in the collation.
LEMMA RanksAre ==
    /\ \A c \in Alphabet : Rank(c) \in 1 .. 9 /\ Collation[Rank(c)] = c
    /\ {Blank, "-", ".", "/", "@", "~"} \subseteq Alphabet
<1> DEFINE w == Collation
<1>1. DOMAIN w = 1 .. 9
    BY DEF Collation
<1>2. /\ w[1] = Blank /\ w[2] = "-" /\ w[3] = "." /\ w[4] = "/" /\ w[5] = "@" /\ w[6] = "~"
    BY DEF Collation
<1>3. Alphabet = {w[i] : i \in DOMAIN w}
    BY DEF Alphabet, ToSet
<1> HIDE DEF w
<1>4. \A c \in Alphabet : Rank(c) \in DOMAIN w /\ w[Rank(c)] = c
    BY <1>3 DEF Rank, w
<1>5. {Blank, "-", ".", "/", "@", "~"} \subseteq Alphabet
    <2>1. \A i \in 1 .. 9 : w[i] \in Alphabet
        BY <1>1, <1>3
    <2>2. 1 \in 1 .. 9 /\ 2 \in 1 .. 9 /\ 3 \in 1 .. 9 /\ 4 \in 1 .. 9 /\ 5 \in 1 .. 9 /\ 6 \in 1 .. 9
        OBVIOUS
    <2>3. w[1] \in Alphabet /\ w[2] \in Alphabet /\ w[3] \in Alphabet /\ w[4] \in Alphabet
          /\ w[5] \in Alphabet /\ w[6] \in Alphabet
        BY <2>1, <2>2
    <2> QED BY <1>2, <2>3
<1> QED BY <1>1, <1>4, <1>5 DEF w

\* No name is before itself.
LEMMA NotBeforeSelf ==
    ASSUME NEW s \in Seq(Alphabet) PROVE ~ LocaleBefore(s, s)
<1>1. \A i \in DOMAIN s : Rank(s[i]) \in Int
    BY RanksAre
<1>2. \A i \in DOMAIN s : ~ (Rank(s[i]) < Rank(s[i]))
    BY <1>1
<1> QED BY <1>2 DEF LocaleBefore, IsStrictPrefix

Row == [name : Seq(Alphabet), is_dir : BOOLEAN]

\* What a listing of one entry offers.
LEMMA OneOffered ==
    ASSUME NEW e \in Row, NEW prefix, NEW mode
    PROVE  FilterFsEntries({e}, prefix, mode)
             = IF Offered(e, prefix, mode) THEN <<e>> ELSE <<>>
<1> DEFINE offered == {x \in {e} : Offered(x, prefix, mode)}
           before(S) == DirsFirst(S)
<1>1. FilterFsEntries({e}, prefix, mode) = SortedBy(offered, before(offered))
    BY DEF FilterFsEntries
<1>2. CASE Offered(e, prefix, mode)
    <2>1. offered = {e}
        BY <1>2
    <2> DEFINE D == DirsFirst({e})
    <2>2. <<e, e>> \notin D
        <3>1. ~ LocaleBefore(e.name, e.name)
            BY NotBeforeSelf DEF Row
        <3>2. \A p \in {e} \X {e} : p[1] = e /\ p[2] = e
            OBVIOUS
        <3>3. D = {}
            BY <3>1, <3>2, Zenon DEF DirsFirst
        <3> QED BY <3>3
    <2> HIDE DEF D
    <2>3. Cardinality({e}) = 1
        BY FS_Singleton
    <2>4. Cardinality({f \in {e} : <<f, e>> \in D}) = 1 - 1
        <3> DEFINE none == {f \in {e} : <<f, e>> \in D}
        <3>1. none = {}
            BY <2>2
        <3> HIDE DEF none
        <3>2. Cardinality(none) = 0
            BY <3>1, FS_EmptySet
        <3> QED BY <3>2 DEF none
    <2>5. \A i \in 1 .. 1 : (CHOOSE x \in {e} : Cardinality({f \in {e} : <<f, x>> \in D}) = i - 1) = e
        <3>1. \A i \in 1 .. 1 : Cardinality({f \in {e} : <<f, e>> \in D}) = i - 1
            BY <2>4
        <3> DEFINE P(x, i) == Cardinality({f \in {e} : <<f, x>> \in D}) = i - 1
        <3>2. \A i \in 1 .. 1 : P(e, i)
            BY <3>1
        <3> HIDE DEF P
        <3>3. \A i \in 1 .. 1 : (CHOOSE x \in {e} : P(x, i)) = e
            BY <3>2
        <3> QED BY <3>3 DEF P
    <2>6. SortedBy({e}, D) = [i \in 1 .. 1 |-> e]
        BY <2>3, <2>5 DEF SortedBy
    <2>7. [i \in 1 .. 1 |-> e] = <<e>>
        OBVIOUS
    <2> QED BY <1>1, <1>2, <2>1, <2>6, <2>7 DEF D
<1>3. CASE ~ Offered(e, prefix, mode)
    <2>1. offered = {}
        BY <1>3
    <2>2. Cardinality({}) = 0
        BY FS_EmptySet
    <2> DEFINE D == DirsFirst({})
    <2> HIDE DEF D
    <2>3. SortedBy({}, D) = <<>>
        BY <2>2 DEF SortedBy
    <2> QED BY <1>1, <1>3, <2>1, <2>3 DEF D
<1> QED BY <1>2, <1>3

\* An empty listing offers nothing.
LEMMA NoneOffered ==
    ASSUME NEW prefix, NEW mode PROVE FilterFsEntries({}, prefix, mode) = <<>>
<1>1. {x \in {} : Offered(x, prefix, mode)} = {}
    OBVIOUS
<1>2. Cardinality({}) = 0
    BY FS_EmptySet
<1> DEFINE D == DirsFirst({})
<1> HIDE DEF D
<1>3. SortedBy({}, D) = <<>>
    BY <1>2 DEF SortedBy
<1> QED BY <1>1, <1>3 DEF FilterFsEntries, D

\* What is offered begins as what is typed does, but for its case.
LEMMA OfferedBegins ==
    ASSUME NEW e \in Row, NEW prefix \in Seq(Alphabet), NEW mode, Offered(e, prefix, mode),
           prefix # <<>>, prefix[1] = "~"
    PROVE  e.name # <<>> /\ e.name[1] = "~"
<1> DEFINE p == Lower(prefix)
           n == Lower(e.name)
           S == Alphabet \cup {"a"}
<1>1. /\ p \in Seq(S) /\ Len(p) = Len(prefix) /\ p[1] = "~"
    BY DEF Lower
<1>2. e.name \in Seq(Alphabet)
    BY DEF Row
<1>3. n \in Seq(S) /\ Len(n) = Len(e.name)
      /\ \A i \in DOMAIN e.name : n[i] = IF e.name[i] = "A" THEN "a" ELSE e.name[i]
    BY <1>2 DEF Lower
<1>4. IsPrefix(p, n)
    BY DEF Offered
<1> HIDE DEF p, n
<1>5. Starts(p, n)
    BY <1>1, <1>3, <1>4, PrefixStarts
<1>6. Len(p) >= 1 /\ Len(n) >= 1 /\ n[1] = "~"
    BY <1>1, <1>5 DEF Starts
<1>7. e.name # <<>> /\ 1 \in DOMAIN e.name
    BY <1>2, <1>3, <1>6
<1> QED BY <1>3, <1>6, <1>7

-----------------------------------------------------------------------------
(* Composer: picking a mention                                             *)

\* The names that readdir gives: neither nothing nor ".", and without the
\* characters that end a token or a path's part or begin a home directory.
Pickable ==
    {e \in [name : Seq(Alphabet \ {Blank, "@", "/"}), is_dir : BOOLEAN] :
        e.name # <<>> /\ e.name # <<".">> /\ e.name[1] # "~"}

\* An entry that can be picked has a name without slashes, and behind
\* whatever follows it neither an absolute path nor one from the current directory.
LEMMA PickableIs ==
    ASSUME NEW e \in Pickable
    PROVE  /\ e \in Row /\ e.name \in Seq(Alphabet) /\ IsName(e.name) /\ IsToken(e.name)
           /\ e.is_dir \in BOOLEAN
           /\ \A w \in Seq(Alphabet) : ~ Absolute(e.name \o w)
                                       /\ (w = <<>> \/ w[1] = "/" => ~ Dotted(e.name \o w))
<1> DEFINE n == e.name
           L == Alphabet \ {Blank, "@", "/"}
<1>1. n \in Seq(L) /\ e.is_dir \in BOOLEAN /\ n # <<>> /\ n # <<".">> /\ n[1] # "~"
      /\ e = [name |-> e.name, is_dir |-> e.is_dir]
    BY DEF Pickable
<1> HIDE DEF n
<1>2. n \in Seq(Alphabet)
    BY <1>1
<1>3. \A i \in DOMAIN n : n[i] # Blank /\ n[i] # "@" /\ n[i] # "/"
    BY <1>1
<1>4. IsName(n) /\ IsToken(n)
    BY <1>3 DEF IsName, IsToken
<1>5. e \in Row
    BY <1>1, <1>2 DEF Row, n
<1>6. ASSUME NEW w \in Seq(Alphabet)
      PROVE  /\ ~ Absolute(n \o w)
             /\ w = <<>> \/ w[1] = "/" => ~ Dotted(n \o w)
    <2>1. (n \o w)[1] = n[1] /\ 1 \in DOMAIN n
        BY <1>1, <1>2
    <2>2. ~ Absolute(n \o w)
        BY <1>1, <1>3, <2>1 DEF Absolute
    <2>3. ASSUME Dotted(n \o w), w = <<>> \/ w[1] = "/" PROVE FALSE
        <3>1. n[1] = "." /\ (n \o w)[2] = "/" /\ Len(n \o w) >= 2
            BY <2>1, <2>3 DEF Dotted
        <3>2. Len(n) = 1
            <4>1. SUFFICES ASSUME Len(n) # 1 PROVE FALSE
                OBVIOUS
            <4>2. n \in Seq(Alphabet) /\ 2 \in 1 .. Len(n)
                <5>1. n = <<>> \/ Len(n) = 1 \/ Len(n) >= 2
                    BY <1>2, LengthIs
                <5> QED BY <1>1, <1>2, <4>1, <5>1
            <4>3. 2 \in DOMAIN n /\ (n \o w)[2] = n[2]
                BY <4>2
            <4> QED BY <1>3, <3>1, <4>3
        <3>3. n = <<".">>
            BY <1>2, <3>1, <3>2
        <3> QED BY <1>1, <3>3
    <2> QED BY <2>2, <2>3
<1> QED BY <1>1, <1>2, <1>4, <1>5, <1>6 DEF n

\* What a draft begins and ends with.
LEMMA DraftParts ==
    ASSUME NEW S, Speaks(S), NEW b \in Seq(S), NEW t \in Seq(S), NEW r \in Seq(S)
    PROVE  /\ IsPrefix(b, Draft(b, t, r)) /\ IsSuffix(r, Draft(b, t, r))
           /\ SubSeq(Draft(b, t, r), 1, Len(b) + 1) = b \o AtSign
           /\ SubSeq(Draft(b, t, r), Len(b) + 1 + Len(t) + 1, Len(Draft(b, t, r))) = r
<1> DEFINE h == b \o AtSign
           k == h \o t
           x == AtSign \o t
           y == x \o r
           z == t \o r
<1>1. AtSign \in Seq(S) /\ Len(AtSign) = 1
    BY DEF AtSign, Speaks, Special
<1>2. Groups(S) /\ Closed(S)
    BY Regrouped
<1>3. h \in Seq(S) /\ x \in Seq(S) /\ z \in Seq(S)
    BY <1>1, <1>2, Zenon DEF Closed
<1> HIDE DEF h
<1>4. Draft(b, t, r) = k \o r
    BY DEF Draft, h
<1>5. (b \o AtSign) \o t = b \o x
    <2>1. Regroups(b, AtSign, t)
        BY <1>1, <1>2, Zenon DEF Groups
    <2> QED BY <2>1, Zenon DEF Regroups
<1>6. (b \o x) \o r = b \o y
    <2>1. Regroups(b, x, r)
        BY <1>2, <1>3, Zenon DEF Groups
    <2> QED BY <2>1, Zenon DEF Regroups
<1>7. (h \o t) \o r = h \o z
    <2>1. h \in Seq(S)
        BY <1>3
    <2>2. Regroups(h, t, r)
        BY <1>2, <2>1, Zenon DEF Groups
    <2> QED BY <2>2, Zenon DEF Regroups
<1>8. Len(h) = Len(b) + Len(AtSign)
    BY <1>1, BehindIs, Zenon DEF h
<1> HIDE DEF x, z
<1>9. k \in Seq(S) /\ y \in Seq(S)
    BY <1>2, <1>3, Zenon DEF Closed
<1>10. Len(k) = Len(h) + Len(t) /\ Len(b) \in Nat /\ Len(t) \in Nat
    <2>1. Len(k) = Len(h) + Len(t) /\ Len(t) \in Nat
        BY <1>3, BehindIs, Zenon
    <2> QED BY <2>1, LengthIs
<1> DEFINE d == Draft(b, t, r)
<1>11. d = k \o r /\ d = b \o y /\ d = h \o z
    BY <1>4, <1>5, <1>6, <1>7, Zenon DEF h
<1> HIDE DEF k, y, d
<1>12. IsPrefix(b, b \o y)
    BY <1>9, PartsStand, Zenon
<1>13. IsSuffix(r, k \o r)
    BY <1>9, PartsStand, Zenon
<1>14. SubSeq(h \o z, 1, Len(h)) = h
    BY <1>3, FirstOf
<1>15. SubSeq(k \o r, Len(k) + 1, Len(k \o r)) = r
    BY <1>9, AfterFirst
<1>16. Len(h) = Len(b) + 1 /\ Len(k) + 1 = Len(b) + 1 + Len(t) + 1
    BY <1>1, <1>8, <1>10
<1> QED BY <1>11, <1>12, <1>13, <1>14, <1>15, <1>16 DEF d, h

\* What replaces a token stands where it stood.
Accepted(b, t, r, cursor, e, n) ==
    /\ e.is_dir => Accept(Field(Draft(b, t, r), cursor), TokenAt(Len(b) + 1, t), e)
                      = Field(Draft(b, n, r), Len(b) + 1 + Len(n))
    /\ ~ e.is_dir => Accept(Field(Draft(b, t, r), cursor), TokenAt(Len(b) + 1, t), e)
                        = Field(Draft(b, n \o <<Blank>>, r), Len(b) + 1 + Len(n) + 1)

\* What accepting a row leaves of a draft in three parts.
LEMMA AcceptIs ==
    ASSUME NEW S, Speaks(S), NEW b \in Seq(S), NEW t \in Seq(S), NEW r \in Seq(S),
           NEW cursor, NEW e, NEW n \in Seq(S), NextTokenText(t, e) = n
    PROVE  Accepted(b, t, r, cursor, e, n)
<1> DEFINE d == Draft(b, t, r)
           c == Field(d, cursor)
           token == TokenAt(Len(b) + 1, t)
           h == b \o AtSign
<1>1. c.draft = d
    BY DEF Field
<1>2. token.start = Len(b) + 1 /\ token.end = Len(b) + 1 + Len(t) /\ token.text = t
    BY DEF TokenAt
<1>3. SubSeq(d, 1, token.start) = h /\ SubSeq(d, token.end + 1, Len(d)) = r
    <2>1. SubSeq(d, 1, Len(b) + 1) = h /\ SubSeq(d, Len(b) + 1 + Len(t) + 1, Len(d)) = r
        BY DraftParts, Zenon
    <2> HIDE DEF d, token, h
    <2> QED BY <1>2, <2>1
<1>4. AtSign \in Seq(S) /\ <<Blank>> \in Seq(S)
    BY DEF AtSign, Speaks, Special
<1>5. Groups(S) /\ Closed(S)
    BY Regrouped
<1>6. h \in Seq(S)
    BY <1>4, <1>5, Zenon DEF Closed
<1> HIDE DEF d, c, token, h
<1>7. CASE e.is_dir
    <2>1. Accept(c, token, e) = Field(h \o n \o <<>> \o r, Len(b) + 1 + Len(n) + 0)
        BY <1>1, <1>2, <1>3, <1>7 DEF Accept, ReplaceMentionToken
    <2>2. h \o n \in Seq(S) /\ Len(n) \in Nat /\ Len(b) \in Nat
        <3>1. h \o n \in Seq(S)
            BY <1>5, <1>6, Zenon DEF Closed
        <3> QED BY <3>1, LengthIs
    <2>3. h \o n \o <<>> = h \o n
        BY <2>2, ConcatEmptySeq, Zenon
    <2>4. Len(b) + 1 + Len(n) + 0 = Len(b) + 1 + Len(n)
        BY <2>2
    <2>5. Draft(b, n, r) = h \o n \o r
        BY DEF Draft, h
    <2> QED BY <1>7, <2>1, <2>3, <2>4, <2>5 DEF c, d, token, Accepted
<1>8. CASE ~ e.is_dir
    <2>1. Accept(c, token, e) = Field(h \o n \o <<Blank>> \o r, Len(b) + 1 + Len(n) + 1)
        BY <1>1, <1>2, <1>3, <1>8 DEF Accept, ReplaceMentionToken
    <2>2. (h \o n) \o <<Blank>> = h \o (n \o <<Blank>>)
        <3> DEFINE sp == <<Blank>>
        <3>1. sp \in Seq(S)
            BY <1>4
        <3> HIDE DEF sp
        <3>2. (h \o n) \o sp = h \o (n \o sp)
            <4>1. Regroups(h, n, sp)
                BY <1>5, <1>6, <3>1, Zenon DEF Groups
            <4> QED BY <4>1, Zenon DEF Regroups
        <3> QED BY <3>2 DEF sp
    <2>3. Draft(b, n \o <<Blank>>, r) = h \o (n \o <<Blank>>) \o r
        BY DEF Draft, h
    <2> QED BY <1>8, <2>1, <2>2, <2>3 DEF c, d, token, Accepted
<1> QED BY <1>7, <1>8

\* Enter on a mention with one entry listed picks it.
Picks(d, cursor, cwd, e) ==
    /\ ~ IsPrefix(Slash, d) /\ FindMentionAtCursor(d, cursor) # NoToken
    /\ FilterFsEntries({e}, ResolveMentionPath(FindMentionAtCursor(d, cursor).text, cwd).prefix, "all")
         = <<e>>

\* Enter accepts the only row of a mention.
LEMMA EnterAccepts ==
    ASSUME NEW d, NEW cursor, NEW cwd, NEW e, Picks(d, cursor, cwd, e)
    PROVE  ComposerKey(Field(d, cursor), "Enter", {}, cwd, {e})
             = Accept(Field(d, cursor), FindMentionAtCursor(d, cursor), e)
<1> DEFINE c == Field(d, cursor)
           token == FindMentionAtCursor(d, cursor)
           filtered == FilterFsEntries({e}, ResolveMentionPath(token.text, cwd).prefix, "all")
<1>1. c.draft = d /\ c.cursor = cursor /\ c.active = 1 /\ c.suppressed = FALSE
    BY DEF Field
<1>2. filtered # <<>> /\ Len(filtered) = 1 /\ filtered[c.active] = e
    BY <1>1 DEF Picks
<1>3. ~ IsPrefix(Slash, d) /\ token # NoToken
    BY DEF Picks
<1> HIDE DEF c, filtered
<1>4. ComposerKey(c, "Enter", {}, cwd, {e}) = MentionKey(c, "Enter", {}, cwd, {e})
    BY <1>1, <1>3 DEF ComposerKey
<1>5. MentionKey(c, "Enter", {}, cwd, {e}) = Accept(c, token, filtered[c.active])
    BY <1>1, <1>2, <1>3 DEF MentionKey, filtered
<1> QED BY <1>2, <1>4, <1>5 DEF c

(***************************************************************************)
(* Picking a directory for a mention lists that directory next, whatever   *)
(* the draft around it and the directory of the session are, however deep  *)
(* the token is and wherever in it the cursor stood; picking a file ends   *)
(* the token (MentionAutocomplete.tsx).                                    *)
(***************************************************************************)
THEOREM MentionDescends ==
    ASSUME NEW b \in Seq(Alphabet), b = <<>> \/ b[1] # "/",
           NEW t \in Seq(Alphabet), IsToken(t),
           NEW r \in Seq(Alphabet), r = <<>> \/ r[1] = Blank,
           NEW cur \in 0 .. Len(t), NEW cwd \in Seq(Alphabet), NEW e \in Pickable,
           FilterFsEntries({e}, ResolveMentionPath(t, cwd).prefix, "all") # <<>>
    PROVE  PickedWell([before |-> b, text |-> t, cursor |-> cur, rest |-> r,
                       cwd |-> cwd, entry |-> e])
<1> DEFINE S == Alphabet
           resolved == ResolveMentionPath(t, cwd)
<1>1. Speaks(S)
    BY RanksAre DEF Speaks, Special
<1>2. /\ e \in Row /\ e.name \in Seq(S) /\ IsName(e.name) /\ IsToken(e.name) /\ e.is_dir \in BOOLEAN
      /\ \A v \in Seq(S) : /\ ~ Absolute(e.name \o v)
                           /\ v = <<>> \/ v[1] = "/" => ~ Dotted(e.name \o v)
    BY PickableIs
<1>3. PICK u \in Seq(S), q \in Seq(S) :
        /\ t = u \o q /\ IsDir(u) /\ IsName(q)
        /\ AfterSlash(t) = Len(u) /\ u = SubSeq(t, 1, AfterSlash(t))
    BY SlashParts
<1> HIDE DEF S
<1>4. Offered(e, resolved.prefix, "all")
    BY <1>2, OneOffered
<1> DEFINE w == PointsTo(u, cwd)
<1>5. w \in Seq(S) /\ w # <<>> /\ IsDir(w)
    <2>1. cwd \in Seq(S)
        BY DEF S
    <2> QED BY <1>1, <1>3, <2>1, PointsToDir
<1> HIDE DEF w
<1>6. Plain(u, q)
    <2> SUFFICES ASSUME u = <<>> PROVE ~ Absolute(q) /\ ~ Dotted(q)
        BY DEF Plain
    <2>1. t = q /\ AfterSlash(t) = 0
        BY <1>3
    <2>2. ~ Dotted(q)
        BY <1>3 DEF Dotted, IsName
    <2>3. ASSUME Absolute(q) PROVE FALSE
        <3>1. q # <<>> /\ q[1] = "~"
            BY <1>3, <2>3 DEF Absolute, IsName
        <3>2. resolved = SplitPath(t)
            BY <1>1, <1>3, <2>1, <3>1, HomeIs
        <3>3. resolved.prefix = t
            BY <2>1, <3>2 DEF SplitPath
        <3>4. e.name # <<>> /\ e.name[1] = "~"
            BY <1>2, <1>4, <2>1, <3>1, <3>3, OfferedBegins
        <3> QED BY <3>4 DEF Pickable
    <2> QED BY <2>2, <2>3
<1>7. resolved = [parent |-> w, prefix |-> q]
    <2>1. cwd \in Seq(S)
        BY DEF S
    <2>2. resolved = SplitPath(w \o q)
        BY <1>1, <1>3, <1>6, <2>1, ResolvedIs DEF w
    <2> QED BY <1>3, <1>5, <2>2, SplitIs
<1> DEFINE n == u \o Named(e)
<1>8. /\ NextTokenText(t, e) = n /\ n \in Seq(S) /\ IsToken(n)
      /\ e.is_dir => n = u \o (e.name \o Slash)
    <2> DEFINE v == Named(e)
    <2>1. Slash \in Seq(S) /\ IsToken(Slash)
        BY <1>1 DEF Slash, IsToken, Blank, Speaks, Special
    <2>2. \A x, y \in Seq(S) : IsToken(x) /\ IsToken(y) => x \o y \in Seq(S) /\ IsToken(x \o y)
        <3> SUFFICES ASSUME NEW x \in Seq(S), NEW y \in Seq(S), IsToken(x), IsToken(y)
                     PROVE  x \o y \in Seq(S) /\ IsToken(x \o y)
            OBVIOUS
        <3>1. x \o y \in Seq(S)
            OBVIOUS
        <3>2. ASSUME NEW i \in DOMAIN (x \o y)
              PROVE  (x \o y)[i] # Blank /\ (x \o y)[i] # "@"
            <4>1. CASE i <= Len(x)
                <5>1. i \in DOMAIN x /\ (x \o y)[i] = x[i]
                    BY <4>1
                <5> QED BY <5>1 DEF IsToken
            <4>2. CASE i > Len(x)
                <5>1. i - Len(x) \in DOMAIN y /\ (x \o y)[i] = y[i - Len(x)]
                    BY <4>2
                <5> QED BY <5>1 DEF IsToken
            <4> QED BY <4>1, <4>2
        <3> QED BY <3>1, <3>2 DEF IsToken
    <2>3. v \in Seq(S) /\ IsToken(v)
        <3>1. CASE e.is_dir
            <4>1. v = e.name \o Slash
                BY <3>1 DEF Named
            <4> QED BY <1>2, <2>1, <2>2, <4>1
        <3>2. CASE ~ e.is_dir
            <4>1. v = e.name \o <<>>
                BY <3>2 DEF Named
            <4>2. v = e.name
                BY <1>2, <4>1
            <4> QED BY <1>2, <4>2
        <3> QED BY <3>1, <3>2
    <2>4. IsToken(u)
        <3>1. \A i \in DOMAIN u : i \in DOMAIN t /\ t[i] = u[i]
            BY <1>3
        <3> QED BY <3>1 DEF IsToken
    <2>5. NextTokenText(t, e) = u \o v
        BY <1>3 DEF NextTokenText
    <2>6. e.is_dir => v = e.name \o Slash
        BY DEF Named
    <2> HIDE DEF v
    <2>7. u \o v \in Seq(S) /\ IsToken(u \o v)
        BY <1>3, <2>2, <2>3, <2>4
    <2> QED BY <2>5, <2>6, <2>7 DEF v
<1> HIDE DEF n
<1>9. /\ b \in Seq(S) /\ t \in Seq(S) /\ r \in Seq(S) /\ cwd \in Seq(S)
      /\ EndsToken(r) /\ IsToken(t)
    BY DEF S, EndsToken
<1> DEFINE d == Draft(b, t, r)
           token == TokenAt(Len(b) + 1, t)
           pos == Len(b) + 1 + cur
<1>10. FindMentionAtCursor(d, pos) = token
    BY <1>1, <1>9, TokenIs
<1>11. ~ IsPrefix(Slash, d)
    <2> HIDE DEF d
    <2>1. /\ d \in Seq(S) /\ Len(d) = Len(b) + 1 + Len(t) + Len(r)
          /\ \A i \in 1 .. Len(b) : d[i] = b[i]
          /\ d[Len(b) + 1] = "@"
        <3>1. Laid(S, b, t, r, Draft(b, t, r))
            BY <1>1, <1>9, DraftIs
        <3> QED BY <3>1 DEF Laid, d
    <2>2. d[1] # "/"
        <3>1. CASE b = <<>>
            BY <2>1, <3>1
        <3>2. CASE b # <<>>
            <4>1. 1 \in 1 .. Len(b)
                BY <1>9, <3>2
            <4> QED BY <2>1, <3>2, <4>1
        <3> QED BY <3>1, <3>2
    <2>3. "/" \in S
        BY <1>1 DEF Speaks, Special
    <2> QED BY <2>1, <2>2, <2>3, PrefixOne DEF Slash
<1> DEFINE after == ComposerKey(Field(d, pos), "Enter", {}, cwd, {e})
<1>12. after = Accept(Field(d, pos), token, e)
    <2>1. FilterFsEntries({e}, resolved.prefix, "all") = <<e>>
        BY <1>2, <1>4, OneOffered
    <2>2. token # NoToken /\ token.text = t
        <3>1. token.start = Len(b) + 1 /\ NoToken.start = 0 /\ Len(b) \in Nat
            BY <1>9 DEF NoToken, TokenAt
        <3>2. token.start # NoToken.start
            BY <3>1
        <3> QED BY <3>2 DEF TokenAt
    <2>3. FilterFsEntries({e}, ResolveMentionPath(token.text, cwd).prefix, "all") = <<e>>
        BY <2>1, <2>2
    <2> HIDE DEF token, pos, d
    <2>4. Picks(d, pos, cwd, e)
        BY <1>10, <1>11, <2>2, <2>3 DEF Picks
    <2> QED BY <1>10, <2>4, EnterAccepts
<1>13. CASE e.is_dir
    <2> DEFINE d2 == Draft(b, n, r)
               pos2 == Len(b) + 1 + Len(n)
    <2>1. after = Field(d2, pos2)
        <3>1. e.is_dir => Accept(Field(d, pos), token, e) = Field(d2, pos2)
            <4> HIDE DEF pos
            <4>1. Accepted(b, t, r, pos, e, n)
                BY <1>1, <1>8, <1>9, AcceptIs
            <4> QED BY <4>1 DEF Accepted
        <3> HIDE DEF after, d, pos, token, d2, pos2
        <3> QED BY <1>12, <1>13, <3>1
    <2>2. IsPrefix(b, d2) /\ IsSuffix(r, d2)
        BY <1>1, <1>8, <1>9, DraftParts
    <2>3. FindMentionAtCursor(d2, pos2) = TokenAt(Len(b) + 1, n)
        <3>1. Len(n) \in 0 .. Len(n)
            BY <1>8
        <3> QED BY <1>1, <1>8, <1>9, <3>1, TokenIs
    <2> HIDE DEF d2, pos2
    <2>4. after.draft = d2 /\ after.cursor = pos2 /\ after.sent = Unsent
        BY <2>1 DEF Field
    <2>5. FindMentionAtCursor(d2, pos2).text = n
        BY <2>3 DEF TokenAt
    <2> DEFINE z == e.name \o Slash
    <2>6. z \in Seq(S) /\ ~ Absolute(z) /\ ~ Dotted(z)
        <3>1. Slash \in Seq(S) /\ Slash[1] = "/"
            BY <1>1 DEF Slash, Speaks, Special
        <3>2. z \in Seq(S)
            BY <1>2, <3>1, BehindIs
        <3> QED BY <1>2, <3>1, <3>2
    <2>7. ResolveMentionPath(n, cwd) = SplitPath(w \o z)
        <3> HIDE DEF z
        <3>1. ResolveMentionPath(u \o z, cwd) = SplitPath(PointsTo(u, cwd) \o z)
            <4>1. Plain(u, z)
                BY <2>6 DEF Plain
            <4>2. IsDir(u) /\ u \in Seq(S) /\ z \in Seq(S) /\ cwd \in Seq(S)
                BY <1>3, <1>9, <2>6
            <4> QED BY <1>1, <4>1, <4>2, ResolvedIs
        <3> QED BY <1>8, <1>13, <3>1 DEF w, z
    <2>8. SplitPath(w \o z) = [parent |-> w \o e.name \o Slash, prefix |-> <<>>]
        <3>1. Slash \in Seq(S)
            BY <1>1 DEF Slash, Speaks, Special
        <3> QED BY <1>2, <1>5, <3>1, SplitBelow, Zenon
    <2>9. resolved.parent = w
        BY <1>7
    <2> HIDE DEF after, resolved, z, d
    <2>10. ResolveMentionPath(FindMentionAtCursor(after.draft, after.cursor).text, cwd)
            = [parent |-> resolved.parent \o e.name \o Slash, prefix |-> <<>>]
        BY <2>4, <2>5, <2>7, <2>8, <2>9
    <2> QED BY <1>13, <2>2, <2>4, <2>10 DEF PickedWell, after, resolved, d, pos, AtSign, Draft
<1>14. CASE ~ e.is_dir
    <2> DEFINE n2 == n \o <<Blank>>
               d2 == Draft(b, n2, r)
               pos2 == Len(b) + 1 + Len(n) + 1
    <2>1. after = Field(d2, pos2)
        <3>1. ~ e.is_dir => Accept(Field(d, pos), token, e) = Field(d2, pos2)
            <4> HIDE DEF pos
            <4>1. Accepted(b, t, r, pos, e, n)
                BY <1>1, <1>8, <1>9, AcceptIs
            <4> QED BY <4>1 DEF Accepted
        <3> HIDE DEF after, d, pos, token, d2, pos2
        <3> QED BY <1>12, <1>14, <3>1
    <2>2. n2 \in Seq(S) /\ Len(n2) = Len(n) + 1 /\ n2[Len(n) + 1] = Blank /\ Len(n) \in Nat
        <3>1. Blank \in S
            BY <1>1 DEF Speaks, Special
        <3> QED BY <1>8, <3>1
    <2>3. IsPrefix(b, d2) /\ IsSuffix(r, d2)
        <3> HIDE DEF n2
        <3> QED BY <1>1, <1>9, <2>2, DraftParts
    <2>4. Laid(S, b, n2, r, d2)
        <3> HIDE DEF n2
        <3> QED BY <1>1, <1>9, <2>2, DraftIs
    <2>5. /\ d2[pos2] = Blank /\ pos2 \in Nat \ {0} /\ pos2 = Len(d2) - Len(r)
        <3> HIDE DEF n2, d2
        <3>1. /\ Len(d2) = Len(b) + 1 + Len(n2) + Len(r)
              /\ \A i \in 1 .. Len(n2) : d2[Len(b) + 1 + i] = n2[i]
            BY <2>4 DEF Laid
        <3>2. Len(b) \in Nat /\ Len(r) \in Nat
            BY <1>9
        <3>3. Len(n) + 1 \in 1 .. Len(n2) /\ Len(b) + 1 + (Len(n) + 1) = pos2
            BY <2>2, <3>2
        <3> QED BY <2>2, <3>1, <3>2, <3>3
    <2> HIDE DEF d2, pos2
    <2>6. after.draft = d2 /\ after.cursor = pos2 /\ after.sent = Unsent
        BY <2>1 DEF Field
    <2>7. FindMentionAtCursor(d2, pos2) = NoToken
        BY <2>5, NoTokenIs
    <2> HIDE DEF after, resolved, d
    <2> QED BY <1>14, <2>3, <2>5, <2>6, <2>7 DEF PickedWell, after, resolved, d, pos, AtSign, Draft
<1> QED BY <1>2, <1>13, <1>14

-----------------------------------------------------------------------------
(* Composer: picking the directory of a new session                        *)

\* Nothing is cut from a text without blanks at its ends.
LEMMA TrimIs ==
    ASSUME NEW S, NEW s \in Seq(S), s # <<>>, s[1] # Blank, s[Len(s)] # Blank
    PROVE  Trim(s) = s
<1> DEFINE ink == {i \in DOMAIN s : s[i] # Blank}
<1>1. 1 \in ink /\ Len(s) \in ink /\ ink \in SUBSET Int
      /\ \A i \in ink : 1 <= i /\ i <= Len(s)
    OBVIOUS
<1>2. ink # {}
    BY <1>1
<1> HIDE DEF ink
<1>3. Min(ink) = 1 /\ Max(ink) = Len(s)
    BY <1>1, LeastIs, GreatestIs
<1>4. SubSeq(s, 1, Len(s)) = s
    BY SubSeqFull
<1> QED BY <1>2, <1>3, <1>4 DEF Trim, ink

\* Enter takes the only row of a path.
LEMMA EnterTakes ==
    ASSUME NEW d, NEW cursor, NEW e,
           FilterFsEntries({e}, SplitField(d).prefix, "dirs") = <<e>>
    PROVE  PathKey(Field(d, cursor), "Enter", {e})
             = Field(PathAccept(d, e), Len(PathAccept(d, e)))
<1> DEFINE c == Field(d, cursor)
           filtered == FilterFsEntries({e}, SplitField(d).prefix, "dirs")
<1>1. c.draft = d /\ c.active = 1 /\ c.suppressed = FALSE
    BY DEF Field
<1>2. filtered # <<>> /\ Len(filtered) = 1 /\ filtered[c.active] = e
    BY <1>1
<1> HIDE DEF c, filtered
<1>3. PathKey(c, "Enter", {e})
        = Field(PathAccept(d, filtered[c.active]), Len(PathAccept(d, filtered[c.active])))
    BY <1>1, <1>2 DEF PathKey, filtered
<1> QED BY <1>2, <1>3 DEF c

\* Enter starts a session where nothing is listed.
LEMMA EnterStarts ==
    ASSUME NEW d, NEW cursor, Trim(d) = d, d # <<>>
    PROVE  PathKey(Field(d, cursor), "Enter", {}).sent = [kind |-> "start_session", text |-> d]
<1> DEFINE c == Field(d, cursor)
<1>1. c.draft = d /\ c.suppressed = FALSE
    BY DEF Field
<1> HIDE DEF c
<1>2. FilterFsEntries({}, SplitField(d).prefix, "dirs") = <<>>
    BY NoneOffered
<1>3. PathKey(c, "Enter", {})
        = [Field(<<>>, 0) EXCEPT !.sent = [kind |-> "start_session", text |-> d]]
    BY <1>1, <1>2 DEF PathKey
<1> QED BY <1>3 DEF Field, c

(***************************************************************************)
(* Picking a directory for a new session lists that directory next; a file *)
(* is never offered, and where nothing is listed Enter starts the session  *)
(* in exactly the path shown (PathAutocomplete.tsx).                       *)
(***************************************************************************)
THEOREM PathDescends ==
    ASSUME NEW v \in Seq(Alphabet \ {Blank}), NEW e \in Pickable,
           FilterFsEntries({e}, SplitField(v).prefix, "dirs") # <<>>
    PROVE  PickedPathWell(v, e)
<1> DEFINE S == Alphabet
           L == Alphabet \ {Blank}
           from == SplitField(v)
           folder == from.parent
<1>1. "/" \in L /\ "~" \in L
    BY RanksAre DEF Blank
<1>2. /\ e \in Row /\ e.name \in Seq(S) /\ IsName(e.name) /\ IsToken(e.name) /\ e.is_dir \in BOOLEAN
    BY PickableIs
<1>3. e.name \in Seq(L)
    <2>1. \A i \in DOMAIN e.name : e.name[i] \in L
        BY <1>2 DEF IsToken
    <2> HIDE DEF L
    <2> QED BY <1>2, <2>1
<1>4. Offered(e, from.prefix, "dirs")
    BY <1>2, OneOffered
<1>5. e.is_dir
    BY <1>4 DEF Offered
<1>6. folder \in Seq(L)
    <2>1. CASE v = <<>>
        BY <1>1, <2>1 DEF SplitField, BaseHint
    <2>2. CASE v # <<>> /\ AfterSlash(v) = 0
        BY <1>1, <2>2 DEF SplitField, SplitPath, Slash
    <2>3. CASE v # <<>> /\ AfterSlash(v) # 0
        <3>1. v \in Seq(L)
            OBVIOUS
        <3> HIDE DEF L
        <3>2. \E u \in Seq(L), q \in Seq(L) : u = SubSeq(v, 1, AfterSlash(v))
            BY <3>1, SlashParts
        <3>3. folder = SubSeq(v, 1, AfterSlash(v))
            BY <2>3 DEF SplitField, SplitPath
        <3> QED BY <3>2, <3>3
    <2> QED BY <2>1, <2>2, <2>3
<1> HIDE DEF L, from, folder
<1> DEFINE x == folder \o e.name \o Slash
<1>7. /\ x \in Seq(L) /\ x # <<>> /\ x[Len(x)] = "/"
      /\ PathAccept(v, e) = x
    <2>1. Slash \in Seq(L)
        BY <1>1 DEF Slash
    <2>2. /\ folder \o (e.name \o Slash) = x
          /\ x \in Seq(L) /\ x # <<>> /\ IsDir(x)
        BY <1>3, <1>6, <2>1, SplitBelow
    <2>3. PathAccept(v, e) = folder \o (e.name \o Slash)
        BY <1>5 DEF PathAccept, Named, from, folder
    <2> HIDE DEF x
    <2> QED BY <2>2, <2>3 DEF IsDir
<1> HIDE DEF x
<1> DEFINE after == PathKey(Field(v, Len(v)), "Enter", {e})
<1>8. after = Field(x, Len(x))
    <2>1. FilterFsEntries({e}, SplitField(v).prefix, "dirs") = <<e>>
        BY <1>2, <1>4, OneOffered DEF from
    <2> QED BY <1>7, <2>1, EnterTakes
<1>9. after.draft = x /\ after.sent = Unsent
    BY <1>8 DEF Field
<1>10. SplitField(x) = [parent |-> x, prefix |-> <<>>]
    <2>1. x = x \o <<>> /\ <<>> \in Seq(L) /\ IsName(<<>>)
        BY <1>7, ConcatEmptySeq DEF IsName
    <2>2. SplitPath(x \o <<>>) = [parent |-> x, prefix |-> <<>>]
        BY <1>7, <2>1, SplitIs DEF IsDir
    <2> QED BY <1>7, <2>1, <2>2 DEF SplitField
<1>11. PathKey(after, "Enter", {}).sent = [kind |-> "start_session", text |-> x]
    <2>1. x[1] # Blank /\ x[Len(x)] # Blank
        <3>1. \A i \in DOMAIN x : x[i] \in L
            BY <1>7
        <3>2. 1 \in DOMAIN x /\ Len(x) \in DOMAIN x
            BY <1>7
        <3> QED BY <3>1, <3>2 DEF L
    <2>2. Trim(x) = x
        BY <1>7, <2>1, TrimIs
    <2> QED BY <1>7, <1>8, <2>2, EnterStarts
<1> HIDE DEF after
<1>12. SplitField(after.draft) = [parent |-> from.parent \o e.name \o Slash, prefix |-> <<>>]
    BY <1>9, <1>10 DEF x, folder
<1> QED BY <1>5, <1>9, <1>11, <1>12 DEF PickedPathWell, after, from

-----------------------------------------------------------------------------
(* Composer: the orders of the menus                                       *)

\* The rank of the character at a place, 0 behind the end.
RankAt(s, i) == IF i \in DOMAIN s THEN Rank(s[i]) ELSE 0

\* A letter has its place in the collation, and what is behind a name none.
LEMMA RankAtIs ==
    ASSUME NEW s \in Seq(Alphabet)
    PROVE  \A i \in Nat \ {0} : /\ RankAt(s, i) \in Nat
                                /\ RankAt(s, i) = 0 <=> i > Len(s)
                                /\ i <= Len(s) => Collation[RankAt(s, i)] = s[i]
                                                  /\ RankAt(s, i) = Rank(s[i])
<1> SUFFICES ASSUME NEW i \in Nat \ {0}
             PROVE  /\ RankAt(s, i) \in Nat
                    /\ RankAt(s, i) = 0 <=> i > Len(s)
                    /\ i <= Len(s) => Collation[RankAt(s, i)] = s[i] /\ RankAt(s, i) = Rank(s[i])
    OBVIOUS
<1>1. CASE i <= Len(s)
    <2>1. i \in DOMAIN s /\ s[i] \in Alphabet
        BY <1>1
    <2>2. Rank(s[i]) \in 1 .. 9 /\ Collation[Rank(s[i])] = s[i]
        BY <2>1, RanksAre
    <2>3. RankAt(s, i) = Rank(s[i])
        BY <2>1 DEF RankAt
    <2> QED BY <1>1, <2>2, <2>3
<1>2. CASE i > Len(s)
    <2>1. i \notin DOMAIN s
        BY <1>2
    <2>2. RankAt(s, i) = 0
        BY <2>1 DEF RankAt
    <2>3. ~ (i <= Len(s))
        BY <1>2
    <2> QED BY <1>2, <2>2, <2>3
<1>3. i <= Len(s) \/ i > Len(s)
    OBVIOUS
<1> QED BY <1>1, <1>2, <1>3

\* The first place where two texts differ.
DifferAt(s, t, i) ==
    i \in Nat \ {0} /\ RankAt(s, i) < RankAt(t, i)
    /\ \A k \in 1 .. (i - 1) : RankAt(s, k) = RankAt(t, k)

\* One name is before another where they differ first.
LEMMA LocaleIs ==
    ASSUME NEW s \in Seq(Alphabet), NEW t \in Seq(Alphabet)
    PROVE  LocaleBefore(s, t) <=> \E i \in Nat \ {0} : DifferAt(s, t, i)
<1> DEFINE f(i) == RankAt(s, i)
           g(i) == RankAt(t, i)
<1>1. \A i \in Nat \ {0} : /\ f(i) \in Nat /\ g(i) \in Nat
                           /\ f(i) = 0 <=> i > Len(s)
                           /\ g(i) = 0 <=> i > Len(t)
                           /\ i <= Len(s) => Collation[f(i)] = s[i] /\ f(i) = Rank(s[i])
                           /\ i <= Len(t) => Collation[g(i)] = t[i] /\ g(i) = Rank(t[i])
    BY RankAtIs
<1>2. Len(s) \in Nat /\ Len(t) \in Nat /\ DOMAIN s = 1 .. Len(s) /\ DOMAIN t = 1 .. Len(t)
    OBVIOUS
<1>3. \A i : DifferAt(s, t, i) <=> i \in Nat \ {0} /\ f(i) < g(i) /\ \A k \in 1 .. (i - 1) : f(k) = g(k)
    BY DEF DifferAt
<1> HIDE DEF f, g
<1>4. ASSUME IsStrictPrefix(s, t) PROVE \E i \in Nat \ {0} : DifferAt(s, t, i)
    <2>1. Starts(s, t) /\ s # t
        BY <1>4, PrefixStarts DEF IsStrictPrefix
    <2>2. Len(s) <= Len(t) /\ \A i \in 1 .. Len(s) : t[i] = s[i]
        BY <2>1 DEF Starts
    <2>3. Len(s) # Len(t)
        <3>1. SUFFICES ASSUME Len(s) = Len(t) PROVE s = t
            BY <2>1
        <3> QED BY <2>2, <3>1, SeqEqual
    <2> DEFINE i == Len(s) + 1
    <2>4. i \in Nat \ {0} /\ i <= Len(t) /\ i > Len(s)
        <3> DEFINE m == Len(s)
                   n == Len(t)
        <3>1. m \in Nat /\ n \in Nat /\ m <= n /\ m # n
            <4>1. m \in Nat /\ n \in Nat
                BY <1>2
            <4>2. m <= n
                BY <2>2
            <4> HIDE DEF m, n
            <4> QED BY <2>3, <4>1, <4>2 DEF m, n
        <3> HIDE DEF m, n
        <3>2. m + 1 \in Nat \ {0} /\ m + 1 <= n /\ m + 1 > m
            BY <3>1
        <3> QED BY <3>2 DEF m, n
    <2>5. f(i) = 0 /\ g(i) # 0 /\ g(i) \in Nat
        BY <1>1, <1>2, <2>4
    <2>6. \A k \in 1 .. (i - 1) : f(k) = g(k)
        BY <1>1, <1>2, <2>2
    <2> HIDE DEF i
    <2> QED BY <1>3, <2>4, <2>5, <2>6
<1>5. ASSUME NEW i \in DOMAIN s \cap DOMAIN t, Rank(s[i]) < Rank(t[i]),
             \A k \in 1 .. (i - 1) : s[k] = t[k]
      PROVE  DifferAt(s, t, i)
    <2>1. i \in Nat \ {0} /\ i <= Len(s) /\ i <= Len(t)
        BY <1>2
    <2>2. f(i) < g(i)
        BY <1>1, <1>5, <2>1
    <2>3. \A k \in 1 .. (i - 1) : f(k) = g(k)
        BY <1>1, <1>2, <1>5, <2>1
    <2> QED BY <1>3, <2>1, <2>2, <2>3
<1>6. ASSUME NEW i \in Nat \ {0}, DifferAt(s, t, i) PROVE LocaleBefore(s, t)
    <2>1. f(i) < g(i) /\ \A k \in 1 .. (i - 1) : f(k) = g(k)
        BY <1>3, <1>6
    <2>2. i <= Len(t)
        BY <1>1, <1>2, <2>1
    <2>3. ASSUME NEW k \in 1 .. (i - 1), k <= Len(s) PROVE s[k] = t[k]
        <3>1. k \in Nat \ {0} /\ k <= Len(t) /\ f(k) = g(k)
            BY <1>2, <2>1, <2>2
        <3>2. Collation[f(k)] = s[k] /\ Collation[g(k)] = t[k]
            BY <1>1, <2>3, <3>1
        <3> QED BY <3>1, <3>2
    <2>4. CASE i <= Len(s)
        <3>1. i \in DOMAIN s \cap DOMAIN t /\ Rank(s[i]) < Rank(t[i])
            BY <1>1, <1>2, <2>1, <2>2, <2>4
        <3>2. \A k \in 1 .. (i - 1) : s[k] = t[k]
            BY <1>2, <2>3, <2>4
        <3> QED BY <3>1, <3>2 DEF LocaleBefore
    <2>5. CASE i > Len(s)
        <3>1. Len(s) < Len(t) /\ \A k \in 1 .. Len(s) : t[k] = s[k]
            BY <1>2, <2>2, <2>3, <2>5
        <3>2. Starts(s, t) /\ s # t
            BY <1>2, <3>1 DEF Starts
        <3>3. IsStrictPrefix(s, t)
            BY <3>2, PrefixStarts DEF IsStrictPrefix
        <3> QED BY <3>3 DEF LocaleBefore
    <2> QED BY <1>2, <2>4, <2>5
<1> QED BY <1>4, <1>5, <1>6 DEF LocaleBefore

\* localeCompare orders all texts.
LEMMA LocaleOrders ==
    /\ \A s, t \in Seq(Alphabet) : s # t => LocaleBefore(s, t) \/ LocaleBefore(t, s)
    /\ \A s, t, u \in Seq(Alphabet) : LocaleBefore(s, t) /\ LocaleBefore(t, u) => LocaleBefore(s, u)
<1>1. ASSUME NEW s \in Seq(Alphabet), NEW t \in Seq(Alphabet), s # t
      PROVE  LocaleBefore(s, t) \/ LocaleBefore(t, s)
    <2> DEFINE D == {i \in Nat \ {0} : RankAt(s, i) # RankAt(t, i)}
    <2>1. \A i \in Nat \ {0} : /\ RankAt(s, i) \in Nat /\ RankAt(t, i) \in Nat
                               /\ RankAt(s, i) = 0 <=> i > Len(s)
                               /\ RankAt(t, i) = 0 <=> i > Len(t)
                               /\ i <= Len(s) => Collation[RankAt(s, i)] = s[i]
                               /\ i <= Len(t) => Collation[RankAt(t, i)] = t[i]
        BY RankAtIs
    <2>2. D # {}
        <3> SUFFICES ASSUME \A i \in Nat \ {0} : RankAt(s, i) = RankAt(t, i) PROVE FALSE
            OBVIOUS
        <3>1. Len(s) \in Nat /\ Len(t) \in Nat
            OBVIOUS
        <3>2. Len(s) = Len(t)
            <4>1. CASE Len(s) < Len(t)
                <5>1. Len(t) \in Nat \ {0} /\ Len(t) > Len(s) /\ ~ (Len(t) > Len(t))
                    BY <3>1, <4>1
                <5> QED BY <2>1, <5>1
            <4>2. CASE Len(t) < Len(s)
                <5>1. Len(s) \in Nat \ {0} /\ Len(s) > Len(t) /\ ~ (Len(s) > Len(s))
                    BY <3>1, <4>2
                <5> QED BY <2>1, <5>1
            <4> QED BY <3>1, <4>1, <4>2
        <3>3. \A i \in 1 .. Len(s) : s[i] = t[i]
            BY <2>1, <3>1, <3>2
        <3> QED BY <1>1, <3>2, <3>3, SeqEqual
    <2> DEFINE i == Min(D)
    <2>3. i \in D /\ \A y \in D : i <= y
        <3>1. D \in SUBSET (Nat \ {0})
            OBVIOUS
        <3> HIDE DEF D
        <3> QED BY <2>2, <3>1, MinOfNumbers
    <2> HIDE DEF i
    <2>4. i \in Nat \ {0} /\ RankAt(s, i) # RankAt(t, i)
        BY <2>3
    <2>5. \A k \in 1 .. (i - 1) : RankAt(s, k) = RankAt(t, k)
        BY <2>3
    <2>6. RankAt(s, i) < RankAt(t, i) \/ RankAt(t, i) < RankAt(s, i)
        BY <2>1, <2>4
    <2>7. DifferAt(s, t, i) \/ DifferAt(t, s, i)
        BY <2>4, <2>5, <2>6 DEF DifferAt
    <2> QED BY <2>4, <2>7, LocaleIs
<1>2. ASSUME NEW s \in Seq(Alphabet), NEW t \in Seq(Alphabet), NEW u \in Seq(Alphabet),
             LocaleBefore(s, t), LocaleBefore(t, u)
      PROVE  LocaleBefore(s, u)
    <2>1. PICK i \in Nat \ {0} : DifferAt(s, t, i)
        BY <1>2, LocaleIs
    <2>2. PICK j \in Nat \ {0} : DifferAt(t, u, j)
        BY <1>2, LocaleIs
    <2>3. \A k \in Nat \ {0} : RankAt(s, k) \in Nat /\ RankAt(t, k) \in Nat /\ RankAt(u, k) \in Nat
        BY RankAtIs
    <2> DEFINE f(k) == RankAt(s, k)
               g(k) == RankAt(t, k)
               h(k) == RankAt(u, k)
    <2>4. /\ f(i) < g(i) /\ \A k \in 1 .. (i - 1) : f(k) = g(k)
          /\ g(j) < h(j) /\ \A k \in 1 .. (j - 1) : g(k) = h(k)
          /\ \A k \in Nat \ {0} : f(k) \in Nat /\ g(k) \in Nat /\ h(k) \in Nat
        BY <2>1, <2>2, <2>3 DEF DifferAt
    <2>5. \A m \in Nat \ {0} : f(m) < h(m) /\ (\A k \in 1 .. (m - 1) : f(k) = h(k)) => DifferAt(s, u, m)
        BY DEF DifferAt
    <2> HIDE DEF f, g, h
    <2>6. CASE i <= j
        <3>1. f(i) < h(i)
            <4>1. CASE i = j
                BY <2>4, <4>1
            <4>2. CASE i < j
                <5>1. i \in 1 .. (j - 1)
                    BY <4>2
                <5> QED BY <2>4, <5>1
            <4> QED BY <2>6, <4>1, <4>2
        <3>2. \A k \in 1 .. (i - 1) : f(k) = h(k)
            BY <2>4, <2>6
        <3> QED BY <2>5, <3>1, <3>2, LocaleIs
    <2>7. CASE j < i
        <3>1. j \in 1 .. (i - 1)
            BY <2>7
        <3>2. f(j) < h(j)
            BY <2>4, <3>1
        <3>3. \A k \in 1 .. (j - 1) : f(k) = h(k)
            BY <2>4, <2>7
        <3> QED BY <2>5, <3>2, <3>3, LocaleIs
    <2> QED BY <2>6, <2>7
<1> QED BY <1>1, <1>2

\* The alphabet orders any set of names.
LEMMA AlphabeticOrders ==
    ASSUME NEW S \in SUBSET Seq(Alphabet)
    PROVE  IsOrder(Alphabetic(S), S)
<1> DEFINE B == Alphabetic(S)
<1>1. ASSUME NEW s \in S, NEW t \in S PROVE <<s, t>> \in B <=> LocaleBefore(s, t)
    <2>1. <<s, t>> \in S \X S /\ <<s, t>>[1] = s /\ <<s, t>>[2] = t
        OBVIOUS
    <2>2. \A p \in S \X S : p \in B <=> LocaleBefore(p[1], p[2])
        BY Zenon DEF Alphabetic
    <2>3. <<s, t>> \in B <=> LocaleBefore(<<s, t>>[1], <<s, t>>[2])
        BY <2>1, <2>2, Zenon
    <2> QED BY <2>1, <2>3, Zenon
<1>2. \A s \in S : s \in Seq(Alphabet)
    OBVIOUS
<1> HIDE DEF B
<1>3. /\ \A s \in S : ~ LocaleBefore(s, s)
      /\ \A s, t \in S : s # t => LocaleBefore(s, t) \/ LocaleBefore(t, s)
      /\ \A s, t, u \in S : LocaleBefore(s, t) /\ LocaleBefore(t, u) => LocaleBefore(s, u)
    BY <1>2, NotBeforeSelf, LocaleOrders, Zenon
<1> QED BY <1>1, <1>3, Zenon DEF IsOrder, B

\* By score, then by length, then by the alphabet.
LEMMA ScoreIs ==
    ASSUME NEW q, NEW command PROVE Score(q, command) \in 0 .. 3
<1> DEFINE a == IsPrefix(q, Lower(Tail(command)))
           b == StartsAWord(q, Lower(Tail(command)))
           c == IsSubsequence(q, Lower(Tail(command)))
<1>1. Score(q, command) = IF a THEN 3 ELSE IF b THEN 2 ELSE IF c THEN 1 ELSE 0
    BY DEF Score
<1> HIDE DEF a, b, c
<1> QED BY <1>1

\* The better of two commands for a query.
LEMMA BestIs ==
    ASSUME NEW q, NEW S \in SUBSET Seq(Alphabet), NEW s \in S, NEW t \in S
    PROVE  <<s, t>> \in BestFirst(q, S)
             <=> \/ Score(q, s) > Score(q, t)
                 \/ Score(q, s) = Score(q, t) /\ Len(s) < Len(t)
                 \/ Score(q, s) = Score(q, t) /\ Len(s) = Len(t) /\ LocaleBefore(s, t)
<1> DEFINE B == BestFirst(q, S)
           P(x, y) == IF Score(q, x) # Score(q, y) THEN Score(q, x) > Score(q, y)
                      ELSE IF Len(x) # Len(y) THEN Len(x) < Len(y) ELSE LocaleBefore(x, y)
<1>1. <<s, t>> \in S \X S /\ <<s, t>>[1] = s /\ <<s, t>>[2] = t
    OBVIOUS
<1>2. \A p \in S \X S : p \in B <=> P(p[1], p[2])
    BY Zenon DEF BestFirst
<1>3. <<s, t>> \in B <=> P(<<s, t>>[1], <<s, t>>[2])
    BY <1>1, <1>2, Zenon
<1>4. <<s, t>> \in B <=> P(s, t)
    BY <1>1, <1>3, Zenon
<1> HIDE DEF B
<1>5. Score(q, s) \in Int /\ Score(q, t) \in Int /\ Len(s) \in Int /\ Len(t) \in Int
    BY ScoreIs
<1> DEFINE before == LocaleBefore(s, t)
           m == Score(q, s)
           n == Score(q, t)
<1>6. P(s, t) <=> m > n \/ (m = n /\ Len(s) < Len(t)) \/ (m = n /\ Len(s) = Len(t) /\ before)
    <2>1. CASE m # n
        <3>1. P(s, t) <=> m > n
            BY <2>1, Zenon
        <3> HIDE DEF P, m, n, before
        <3> QED BY <2>1, <3>1
    <2>2. CASE m = n /\ Len(s) # Len(t)
        <3>1. P(s, t) <=> Len(s) < Len(t)
            BY <2>2, Zenon
        <3>2. ~ (m > n)
            BY <1>5, <2>2
        <3> HIDE DEF P, m, n, before
        <3> QED BY <2>2, <3>1, <3>2
    <2>3. CASE m = n /\ Len(s) = Len(t)
        <3>1. P(s, t) <=> before
            BY <2>3, Zenon
        <3>2. ~ (m > n) /\ ~ (Len(s) < Len(t))
            BY <1>5, <2>3
        <3> HIDE DEF P, m, n, before
        <3> QED BY <2>3, <3>1, <3>2
    <2> QED BY <2>1, <2>2, <2>3
<1> QED BY <1>4, <1>6, Zenon DEF B, before, m, n

\* What comes first by a number, the greatest first, by another, the least first,
\* and by an order.
Lexical(B, L, f, g, S) ==
    /\ \A s \in S : f[s] \in Int /\ g[s] \in Int
    /\ \A s, t \in S : <<s, t>> \in B
            <=> \/ f[s] > f[t]
                \/ f[s] = f[t] /\ g[s] < g[t]
                \/ f[s] = f[t] /\ g[s] = g[t] /\ <<s, t>> \in L

\* Comparing by two numbers and then by an order is an order.
LEMMA LexicalOrders ==
    ASSUME NEW S, NEW B, NEW L, NEW f, NEW g, IsOrder(L, S), Lexical(B, L, f, g, S)
    PROVE  IsOrder(B, S)
<1> DEFINE P(s, t) == <<s, t>> \in B
           Q(s, t) == <<s, t>> \in L
           X(s, t) == f[s] > f[t]
           Y(s, t) == g[s] < g[t]
           E(s, t) == f[s] = f[t]
           G(s, t) == g[s] = g[t]
<1>1. \A s, t \in S : P(s, t) <=> X(s, t) \/ (E(s, t) /\ Y(s, t)) \/ (E(s, t) /\ G(s, t) /\ Q(s, t))
    BY Zenon DEF Lexical
<1>2. /\ \A s \in S : ~ Q(s, s)
      /\ \A s, t \in S : s # t => Q(s, t) \/ Q(t, s)
      /\ \A s, t, u \in S : Q(s, t) /\ Q(t, u) => Q(s, u)
    BY DEF IsOrder
<1>3. ASSUME NEW s \in S, NEW t \in S
      PROVE  /\ X(s, t) \/ X(t, s) \/ (E(s, t) /\ E(t, s))
             /\ Y(s, t) \/ Y(t, s) \/ (G(s, t) /\ G(t, s))
             /\ ~ X(s, s) /\ ~ Y(s, s)
    <2>1. f[s] \in Int /\ g[s] \in Int /\ f[t] \in Int /\ g[t] \in Int
        BY Zenon DEF Lexical
    <2> QED BY <2>1
<1>4. ASSUME NEW s \in S, NEW t \in S, NEW u \in S
      PROVE  /\ X(s, t) /\ X(t, u) => X(s, u)
             /\ X(s, t) /\ E(t, u) => X(s, u)
             /\ E(s, t) /\ X(t, u) => X(s, u)
             /\ E(s, t) /\ E(t, u) => E(s, u)
             /\ Y(s, t) /\ Y(t, u) => Y(s, u)
             /\ Y(s, t) /\ G(t, u) => Y(s, u)
             /\ G(s, t) /\ Y(t, u) => Y(s, u)
             /\ G(s, t) /\ G(t, u) => G(s, u)
    <2>1. f[s] \in Int /\ g[s] \in Int /\ f[t] \in Int /\ g[t] \in Int /\ f[u] \in Int /\ g[u] \in Int
        BY Zenon DEF Lexical
    <2> QED BY <2>1
<1> HIDE DEF P, Q, X, Y, E, G
<1>5. \A s \in S : ~ P(s, s)
    BY <1>1, <1>2, <1>3, Zenon
<1>6. \A s, t \in S : s # t => P(s, t) \/ P(t, s)
    BY <1>1, <1>2, <1>3, Zenon
<1>7. ASSUME NEW s \in S, NEW t \in S, NEW u \in S, P(s, t), P(t, u) PROVE P(s, u)
    <2>1. X(s, t) \/ (E(s, t) /\ Y(s, t)) \/ (E(s, t) /\ G(s, t) /\ Q(s, t))
        BY <1>1, <1>7, Zenon
    <2>2. X(t, u) \/ (E(t, u) /\ Y(t, u)) \/ (E(t, u) /\ G(t, u) /\ Q(t, u))
        BY <1>1, <1>7, Zenon
    <2>3. Q(s, t) /\ Q(t, u) => Q(s, u)
        BY <1>2, Zenon
    <2>4. X(s, u) \/ (E(s, u) /\ Y(s, u)) \/ (E(s, u) /\ G(s, u) /\ Q(s, u))
        BY <1>4, <2>1, <2>2, <2>3, Zenon
    <2> QED BY <1>1, <2>4, Zenon
<1> QED BY <1>5, <1>6, <1>7, Zenon DEF IsOrder, P

\* The order of the menu of commands is one.
LEMMA BestFirstOrders ==
    ASSUME NEW q, NEW S \in SUBSET Seq(Alphabet)
    PROVE  IsOrder(BestFirst(q, S), S)
<1> DEFINE B == BestFirst(q, S)
           L == Alphabetic(S)
           f == [s \in S |-> Score(q, s)]
           g == [s \in S |-> Len(s)]
<1>1. \A s \in S : f[s] = Score(q, s) /\ g[s] = Len(s)
    OBVIOUS
<1>2. \A s \in S : Score(q, s) \in Int /\ Len(s) \in Int
    BY ScoreIs
<1>3. IsOrder(L, S)
    BY AlphabeticOrders
<1>4. ASSUME NEW s \in S, NEW t \in S PROVE <<s, t>> \in L <=> LocaleBefore(s, t)
    <2>1. <<s, t>> \in S \X S /\ <<s, t>>[1] = s /\ <<s, t>>[2] = t
        OBVIOUS
    <2>2. \A p \in S \X S : p \in L <=> LocaleBefore(p[1], p[2])
        BY Zenon DEF Alphabetic
    <2>3. <<s, t>> \in L <=> LocaleBefore(<<s, t>>[1], <<s, t>>[2])
        BY <2>1, <2>2, Zenon
    <2> QED BY <2>1, <2>3, Zenon
<1> DEFINE P(s, t) == \/ Score(q, s) > Score(q, t)
                      \/ Score(q, s) = Score(q, t) /\ Len(s) < Len(t)
                      \/ Score(q, s) = Score(q, t) /\ Len(s) = Len(t) /\ LocaleBefore(s, t)
<1>5. ASSUME NEW s \in S, NEW t \in S PROVE <<s, t>> \in B <=> P(s, t)
    BY BestIs
<1> HIDE DEF B, L, f, g, P
<1>6. ASSUME NEW s \in S, NEW t \in S
      PROVE  <<s, t>> \in B
                <=> \/ f[s] > f[t]
                    \/ f[s] = f[t] /\ g[s] < g[t]
                    \/ f[s] = f[t] /\ g[s] = g[t] /\ <<s, t>> \in L
    <2>1. /\ Score(q, s) > Score(q, t) <=> f[s] > f[t]
          /\ Score(q, s) = Score(q, t) <=> f[s] = f[t]
          /\ Len(s) < Len(t) <=> g[s] < g[t]
          /\ Len(s) = Len(t) <=> g[s] = g[t]
        BY <1>1
    <2> QED BY <1>4, <1>5, <2>1, Zenon DEF P
<1>7. \A s \in S : f[s] \in Int /\ g[s] \in Int
    BY <1>1, <1>2
<1>8. IsOrder(B, S)
    <2>1. Lexical(B, L, f, g, S)
        BY <1>6, <1>7, Zenon DEF Lexical
    <2> QED BY <1>3, <2>1, LexicalOrders
<1> QED BY <1>8 DEF B

\* A sorted set: its members, as many as there are, the least first.
LEMMA SortedIs ==
    ASSUME NEW S, IsFiniteSet(S), NEW before, IsOrder(before, S)
    PROVE  /\ SortedBy(S, before) \in Seq(S) /\ Len(SortedBy(S, before)) = Cardinality(S)
           /\ \A m \in S : (\A o \in S : o # m => <<m, o>> \in before) => SortedBy(S, before)[1] = m
<1> DEFINE n == Cardinality(S)
           Nth(i) == CHOOSE e \in S : RankIn(S, before, e) = i - 1
<1>1. n \in Nat /\ \A i \in 1 .. n : \E o \in S : RankIn(S, before, o) = i - 1
    BY OneEachRank
<1>2. \A i \in 1 .. n : Nth(i) \in S /\ RankIn(S, before, Nth(i)) = i - 1
    BY <1>1
<1>3. SortedBy(S, before) = [i \in 1 .. n |-> Nth(i)]
    BY DEF SortedBy, RankIn
<1> HIDE DEF Nth
<1> HIDE DEF n
<1>4. [i \in 1 .. n |-> Nth(i)] \in Seq(S) /\ Len([i \in 1 .. n |-> Nth(i)]) = n
    BY <1>1, <1>2
<1>5. ASSUME NEW m \in S, \A o \in S : o # m => <<m, o>> \in before PROVE Nth(1) = m /\ n # 0
    <2>1. n # 0
        <3>1. S # {}
            OBVIOUS
        <3> QED BY <3>1, FS_EmptySet DEF n
    <2> DEFINE x == Nth(1)
               U == {p \in S : <<p, x>> \in before}
    <2>2. x \in S /\ Cardinality(U) = 0
        <3>1. 1 \in 1 .. n /\ 1 - 1 = 0
            BY <1>1, <2>1
        <3> QED BY <1>2, <3>1 DEF RankIn
    <2>3. U = {}
        <3>1. IsFiniteSet(U)
            <4>1. U \in SUBSET S
                OBVIOUS
            <4> HIDE DEF U
            <4> QED BY <4>1, FS_Subset
        <3> HIDE DEF U
        <3> QED BY <2>2, <3>1, FS_EmptySet
    <2>4. x = m
        <3> HIDE DEF x
        <3> QED BY <1>5, <2>2, <2>3
    <2> QED BY <2>1, <2>4
<1>6. \A m \in S : (\A o \in S : o # m => <<m, o>> \in before) => [i \in 1 .. n |-> Nth(i)][1] = m
    BY <1>1, <1>5
<1> QED BY <1>3, <1>4, <1>6 DEF n

-----------------------------------------------------------------------------
(* Composer: the words of a draft                                          *)

\* The first word ends before the first blank.
LEMMA FirstWordIs ==
    ASSUME NEW S, NEW s \in Seq(S), NEW f \in 1 .. (Len(s) + 1),
           f = Len(s) + 1 \/ s[f] = Blank, \A i \in 1 .. (f - 1) : s[i] # Blank
    PROVE  FirstWord(s) = SubSeq(s, 1, f - 1)
<1> DEFINE ends == {i \in DOMAIN s : s[i] = Blank} \cup {Len(s) + 1}
<1>1. Len(s) \in Nat /\ DOMAIN s = 1 .. Len(s)
    OBVIOUS
<1>2. f \in ends /\ ends \in SUBSET Int
    BY <1>1
<1>3. \A y \in ends : f <= y
    BY <1>1
<1> HIDE DEF ends
<1>4. Min(ends) = f
    BY <1>2, <1>3, LeastIs
<1> QED BY <1>4 DEF FirstWord, ends

\* Some place ends the first word.
LEMMA FirstWordEnds ==
    ASSUME NEW S, NEW s \in Seq(S)
    PROVE  \E f \in 1 .. (Len(s) + 1) :
              (f = Len(s) + 1 \/ s[f] = Blank) /\ \A i \in 1 .. (f - 1) : s[i] # Blank
<1> DEFINE ends == {i \in DOMAIN s : s[i] = Blank} \cup {Len(s) + 1}
           f == Min(ends)
<1>1. Len(s) \in Nat /\ DOMAIN s = 1 .. Len(s)
    OBVIOUS
<1>2. ends \in SUBSET (Nat \ {0}) /\ ends # {}
    BY <1>1
<1>3. f \in ends /\ \A y \in ends : f <= y
    <2> HIDE DEF ends
    <2> QED BY <1>2, MinOfNumbers
<1> HIDE DEF f
<1>4. f \in 1 .. (Len(s) + 1) /\ (f = Len(s) + 1 \/ s[f] = Blank)
    BY <1>1, <1>3
<1>5. \A i \in 1 .. (f - 1) : s[i] # Blank
    BY <1>1, <1>3, <1>4
<1> QED BY <1>4, <1>5

\* A word without blanks, and with one behind it.
LEMMA WordAlone ==
    ASSUME NEW S, Blank \in S, NEW w \in Seq(S), \A i \in DOMAIN w : w[i] # Blank
    PROVE  /\ FirstWord(w) = w /\ FirstWord(w \o <<Blank>>) = w
           /\ w # <<>> => Trim(w) = w /\ Trim(w \o <<Blank>>) = w
<1> DEFINE d == w \o <<Blank>>
           n == Len(w)
<1>1. n \in Nat /\ DOMAIN w = 1 .. n
    OBVIOUS
<1>2. /\ d \in Seq(S) /\ Len(d) = n + 1 /\ DOMAIN d = 1 .. (n + 1) /\ d[n + 1] = Blank
      /\ \A i \in 1 .. n : d[i] = w[i]
    OBVIOUS
<1> HIDE DEF d
<1>3. SubSeq(d, 1, n) = w
    <2>1. SubSeq(d, 1, n) \in Seq(S) /\ Len(SubSeq(d, 1, n)) = n
          /\ \A i \in 1 .. n : SubSeq(d, 1, n)[i] = w[i]
        BY <1>1, <1>2
    <2> QED BY <2>1, SeqEqual
<1>4. SubSeq(w, 1, n) = w
    BY SubSeqFull
<1>5. FirstWord(w) = w
    <2>1. FirstWord(w) = SubSeq(w, 1, (n + 1) - 1)
        <3>1. n + 1 \in 1 .. (n + 1) /\ \A i \in 1 .. ((n + 1) - 1) : w[i] # Blank
            BY <1>1
        <3> QED BY <3>1, FirstWordIs
    <2>2. (n + 1) - 1 = n
        BY <1>1
    <2> QED BY <1>4, <2>1, <2>2
<1>6. FirstWord(d) = w
    <2>1. FirstWord(d) = SubSeq(d, 1, (n + 1) - 1)
        <3>1. n + 1 \in 1 .. (Len(d) + 1) /\ \A i \in 1 .. ((n + 1) - 1) : d[i] # Blank
            BY <1>1, <1>2
        <3> QED BY <1>2, <3>1, FirstWordIs
    <2>2. (n + 1) - 1 = n
        BY <1>1
    <2> QED BY <1>3, <2>1, <2>2
<1>7. ASSUME w # <<>> PROVE Trim(w) = w
    <2>1. w[1] # Blank /\ w[Len(w)] # Blank
        BY <1>1, <1>7
    <2> QED BY <1>7, <2>1, TrimIs
<1>8. ASSUME w # <<>> PROVE Trim(d) = w
    <2> DEFINE ink == {i \in DOMAIN d : d[i] # Blank}
    <2>1. n # 0
        BY <1>8
    <2>2. ink \in SUBSET Int /\ 1 \in ink /\ n \in ink /\ \A i \in ink : 1 <= i /\ i <= n
        BY <1>1, <1>2, <2>1
    <2>3. ink # {}
        BY <2>2
    <2> HIDE DEF ink
    <2>4. Min(ink) = 1 /\ Max(ink) = n
        BY <2>2, LeastIs, GreatestIs
    <2> QED BY <1>3, <2>3, <2>4 DEF Trim, ink
<1> QED BY <1>5, <1>6, <1>7, <1>8 DEF d

\* What is cut from a draft that begins with a letter is behind its first word.
LEMMA TrimKeepsWord ==
    ASSUME NEW S, NEW s \in Seq(S), s # <<>>, s[1] # Blank
    PROVE  /\ Trim(s) \in Seq(S) /\ Trim(s) # <<>> /\ Trim(s)[1] = s[1]
           /\ FirstWord(Trim(s)) = FirstWord(s)
<1> DEFINE ink == {i \in DOMAIN s : s[i] # Blank}
           k == Max(ink)
<1>1. Len(s) \in Nat /\ DOMAIN s = 1 .. Len(s) /\ 1 \in ink
    OBVIOUS
<1>2. k \in ink /\ \A y \in ink : k >= y
    <2>1. ink \in SUBSET (1 .. Len(s)) /\ ink # {}
        BY <1>1
    <2> HIDE DEF ink
    <2> QED BY <1>1, <2>1, MaxOfNumbers
<1>3. Min(ink) = 1
    <2>1. ink \in SUBSET Int /\ \A y \in ink : 1 <= y
        BY <1>1
    <2> HIDE DEF ink
    <2> QED BY <1>1, <2>1, LeastIs
<1> HIDE DEF k
<1>4. k \in 1 .. Len(s) /\ s[k] # Blank /\ \A i \in DOMAIN s : i > k => s[i] = Blank
    BY <1>1, <1>2
<1>5. Trim(s) = SubSeq(s, 1, k)
    BY <1>1, <1>3 DEF Trim, k
<1> DEFINE t == SubSeq(s, 1, k)
<1>6. t \in Seq(S) /\ Len(t) = k /\ \A i \in 1 .. k : t[i] = s[i]
    BY <1>1, <1>4
<1> HIDE DEF t
<1>7. PICK f \in 1 .. (Len(s) + 1) :
        (f = Len(s) + 1 \/ s[f] = Blank) /\ \A i \in 1 .. (f - 1) : s[i] # Blank
    BY FirstWordEnds
<1>8. f \in 1 .. (k + 1) /\ f # k
    <2>1. ~ (f > k + 1)
        <3> SUFFICES ASSUME f > k + 1 PROVE FALSE
            OBVIOUS
        <3>1. k + 1 \in 1 .. (f - 1) /\ k + 1 \in DOMAIN s /\ k + 1 > k
            BY <1>1, <1>4, <1>7
        <3> QED BY <1>4, <1>7, <3>1
    <2>2. f # k
        BY <1>1, <1>4, <1>7
    <2> QED BY <1>1, <1>4, <1>7, <2>1, <2>2
<1>9. FirstWord(s) = SubSeq(s, 1, f - 1)
    BY <1>7, FirstWordIs
<1>10. FirstWord(t) = SubSeq(t, 1, f - 1)
    <2>1. f \in 1 .. (Len(t) + 1) /\ (f = Len(t) + 1 \/ t[f] = Blank)
        BY <1>4, <1>6, <1>7, <1>8
    <2>2. \A i \in 1 .. (f - 1) : t[i] # Blank
        BY <1>4, <1>6, <1>7, <1>8
    <2> QED BY <1>6, <2>1, <2>2, FirstWordIs
<1>11. SubSeq(t, 1, f - 1) = SubSeq(s, 1, f - 1)
    <2>1. f - 1 \in 0 .. Len(s) /\ f - 1 <= k
        BY <1>1, <1>4, <1>8
    <2>2. /\ SubSeq(s, 1, f - 1) \in Seq(S) /\ Len(SubSeq(s, 1, f - 1)) = f - 1
          /\ \A i \in 1 .. (f - 1) : SubSeq(s, 1, f - 1)[i] = s[i]
        BY <1>1, <2>1
    <2>3. /\ SubSeq(t, 1, f - 1) \in Seq(S) /\ Len(SubSeq(t, 1, f - 1)) = f - 1
          /\ \A i \in 1 .. (f - 1) : SubSeq(t, 1, f - 1)[i] = s[i]
        BY <1>4, <1>6, <2>1
    <2> QED BY <2>2, <2>3, SeqEqual
<1>12. t # <<>> /\ t[1] = s[1]
    BY <1>4, <1>6
<1> QED BY <1>5, <1>6, <1>9, <1>10, <1>11, <1>12 DEF t

-----------------------------------------------------------------------------
(* Composer: the menu of commands                                          *)

\* A command is a slash and a name without blanks.
Command == {c \in Seq(Alphabet) : Len(c) >= 2 /\ c[1] = "/" /\ \A i \in DOMAIN c : c[i] # Blank}

\* No two commands differ in their case only.
CaseApart(commands) == \A c, d \in commands : Lower(c) = Lower(d) => c = d

\* The menu lists commands, and nothing behind a blank.
LEMMA MenuLists ==
    ASSUME NEW commands \in SUBSET Seq(Alphabet), IsFiniteSet(commands), NEW draft
    PROVE  FilterEntries(commands, draft) \in Seq(commands)
<1> DEFINE fit(q) == {n \in commands : Score(q, n) > 0}
<1>1. SortedBy(commands, Alphabetic(commands)) \in Seq(commands)
    BY AlphabeticOrders, SortedIs
<1>2. ASSUME NEW q PROVE Ranked(commands, q) \in Seq(commands)
    <2> DEFINE F == fit(q)
    <2>1. F \in SUBSET Seq(Alphabet) /\ F \in SUBSET commands
        OBVIOUS
    <2> HIDE DEF F
    <2>2. IsFiniteSet(F)
        BY <2>1, FS_Subset
    <2>3. IsOrder(BestFirst(q, F), F)
        BY <2>1, BestFirstOrders
    <2>4. SortedBy(F, BestFirst(q, F)) \in Seq(F)
        BY <2>2, <2>3, SortedIs
    <2>5. SortedBy(F, BestFirst(q, F)) \in Seq(commands)
        BY <2>1, <2>4, SeqMonotonic
    <2> QED BY <2>5 DEF Ranked, F
<1>3. <<>> \in Seq(commands)
    OBVIOUS
<1> DEFINE a == ~ IsPrefix(Slash, draft) \/ Len(draft) > Len(FirstWord(Tail(draft))) + 1
           b == FirstWord(Tail(draft)) = <<>>
           x == SortedBy(commands, Alphabetic(commands))
           y == Ranked(commands, Lower(FirstWord(Tail(draft))))
<1>4. FilterEntries(commands, draft) = IF a THEN <<>> ELSE IF b THEN x ELSE y
    BY Zenon DEF FilterEntries
<1>5. x \in Seq(commands) /\ y \in Seq(commands)
    BY <1>1, <1>2
<1> HIDE DEF a, b, x, y
<1> QED BY <1>3, <1>4, <1>5

\* Of the name of a command.
LEMMA CommandIs ==
    ASSUME NEW c \in Command
    PROVE  /\ c \in Seq(Alphabet) /\ c # <<>> /\ c[1] = "/" /\ c[1] # Blank /\ Len(c) \in Nat
           /\ Tail(c) \in Seq(Alphabet) /\ Tail(c) # <<>> /\ Len(c) = Len(Tail(c)) + 1
           /\ \A i \in DOMAIN Tail(c) : Tail(c)[i] # Blank /\ Tail(c)[i] = c[i + 1]
           /\ IsPrefix(Slash, c) /\ FirstWord(c) = c /\ FirstWord(Tail(c)) = Tail(c)
           /\ Trim(c \o <<Blank>>) = c /\ IsPrefix(Slash, c \o <<Blank>>)
           /\ FirstWord(Tail(c \o <<Blank>>)) = Tail(c) /\ Len(c \o <<Blank>>) = Len(c) + 1
<1> DEFINE w == Tail(c)
           d == c \o <<Blank>>
<1>1. "/" \in Alphabet /\ Blank \in Alphabet /\ "/" # Blank
    BY RanksAre DEF Blank
<1>2. c \in Seq(Alphabet) /\ Len(c) >= 2 /\ c[1] = "/" /\ \A i \in DOMAIN c : c[i] # Blank
    BY DEF Command
<1>3. c # <<>> /\ c[1] # Blank /\ Len(c) \in Nat
    BY <1>1, <1>2
<1>4. w \in Seq(Alphabet) /\ w # <<>> /\ Len(c) = Len(w) + 1
      /\ \A i \in DOMAIN w : i + 1 \in DOMAIN c /\ w[i] = c[i + 1]
    BY <1>2
<1>5. \A i \in DOMAIN w : w[i] # Blank
    BY <1>2, <1>4
<1>6. d \in Seq(Alphabet) /\ d # <<>> /\ d[1] = "/" /\ Len(d) = Len(c) + 1
    BY <1>1, <1>2
<1>7. Tail(d) = w \o <<Blank>>
    <2>1. Tail(d) \in Seq(Alphabet) /\ Len(Tail(d)) = Len(c)
          /\ \A i \in 1 .. Len(c) : Tail(d)[i] = IF i <= Len(w) THEN c[i + 1] ELSE Blank
        BY <1>1, <1>2, <1>4
    <2> HIDE DEF d
    <2>2. w \o <<Blank>> \in Seq(Alphabet) /\ Len(w \o <<Blank>>) = Len(c)
          /\ \A i \in 1 .. Len(c) : (w \o <<Blank>>)[i] = IF i <= Len(w) THEN w[i] ELSE Blank
        <3> HIDE DEF w
        <3> QED BY <1>1, <1>2, <1>4
    <2>3. \A i \in 1 .. Len(c) : i <= Len(w) => w[i] = c[i + 1]
        <3> HIDE DEF w
        <3> QED BY <1>2, <1>4
    <2> HIDE DEF w
    <2>4. \A i \in 1 .. Len(c) : Tail(d)[i] = (w \o <<Blank>>)[i]
        BY <2>1, <2>2, <2>3
    <2> QED BY <2>1, <2>2, <2>4, SeqEqual
<1>8. IsPrefix(Slash, c) /\ IsPrefix(Slash, d)
    <2> HIDE DEF d
    <2> QED BY <1>1, <1>2, <1>3, <1>6, PrefixOne DEF Slash
<1> HIDE DEF w
<1>9. FirstWord(w) = w /\ FirstWord(w \o <<Blank>>) = w
    BY <1>1, <1>4, <1>5, WordAlone
<1>10. FirstWord(c) = c /\ Trim(c \o <<Blank>>) = c
    BY <1>1, <1>2, <1>3, WordAlone
<1> QED BY <1>2, <1>3, <1>4, <1>5, <1>6, <1>7, <1>8, <1>9, <1>10 DEF w, d

\* Behind a command and a blank the menu is closed.
LEMMA NothingBehindBlank ==
    ASSUME NEW commands, NEW c \in Command
    PROVE  FilterEntries(commands, c \o <<Blank>>) = <<>>
<1> DEFINE d == c \o <<Blank>>
<1>1. /\ Len(d) = Len(c) + 1 /\ FirstWord(Tail(d)) = Tail(c) /\ Len(c) = Len(Tail(c)) + 1
      /\ Len(c) \in Nat
    BY CommandIs
<1> HIDE DEF d
<1>2. Len(d) > Len(FirstWord(Tail(d))) + 1
    BY <1>1
<1> QED BY <1>2 DEF FilterEntries, d

\* One less of the same number is the same.
LEMMA SameLess ==
    ASSUME NEW m \in Nat, NEW n \in Nat, m + 1 = n + 1
    PROVE  m = n
OBVIOUS

\* A command typed in full is the first row.
LEMMA TypedIsFirst ==
    ASSUME NEW commands \in SUBSET Command, IsFiniteSet(commands), CaseApart(commands),
           NEW draft \in commands
    PROVE  FilterEntries(commands, draft)[1] = draft
<1> DEFINE w == Tail(draft)
           q == Lower(w)
           fit == {n \in commands : Score(q, n) > 0}
<1>1. /\ draft \in Seq(Alphabet) /\ draft # <<>> /\ draft[1] = "/" /\ IsPrefix(Slash, draft)
      /\ w \in Seq(Alphabet) /\ w # <<>> /\ Len(draft) = Len(w) + 1 /\ FirstWord(w) = w
      /\ Len(draft) \in Nat
      /\ \A i \in DOMAIN w : w[i] = draft[i + 1]
    BY CommandIs
<1>2. FilterEntries(commands, draft) = SortedBy(fit, BestFirst(q, fit))
    <2>1. ~ (Len(draft) > Len(w) + 1)
        BY <1>1
    <2>2. FilterEntries(commands, draft) = Ranked(commands, q)
        BY <1>1, <2>1 DEF FilterEntries
    <2> QED BY <2>2 DEF Ranked
<1>3. fit \in SUBSET commands /\ fit \in SUBSET Seq(Alphabet)
    <2>1. \A c \in commands : c \in Seq(Alphabet)
        BY CommandIs
    <2> QED BY <2>1
<1>4. IsFiniteSet(fit) /\ IsOrder(BestFirst(q, fit), fit)
    <2> HIDE DEF fit, q
    <2>1. IsFiniteSet(fit)
        BY <1>3, FS_Subset
    <2> QED BY <1>3, <2>1, BestFirstOrders
<1>5. \A c \in commands : Score(q, c) \in 0 .. 3 /\ (Score(q, c) = 3 <=> IsPrefix(q, Lower(Tail(c))))
    <2> SUFFICES ASSUME NEW c \in commands
                 PROVE  Score(q, c) \in 0 .. 3 /\ (Score(q, c) = 3 <=> IsPrefix(q, Lower(Tail(c))))
        OBVIOUS
    <2> HIDE DEF q
    <2> DEFINE x == IsPrefix(q, Lower(Tail(c)))
               y == StartsAWord(q, Lower(Tail(c)))
               z == IsSubsequence(q, Lower(Tail(c)))
    <2>1. Score(q, c) = IF x THEN 3 ELSE IF y THEN 2 ELSE IF z THEN 1 ELSE 0
        BY DEF Score
    <2> HIDE DEF x, y, z
    <2>2. Score(q, c) \in 0 .. 3 /\ (Score(q, c) = 3 <=> x)
        BY <2>1
    <2> QED BY <2>2 DEF x
<1> DEFINE S == Alphabet \cup {"a"}
<1>6. \A s \in Seq(Alphabet) :
        /\ Lower(s) \in Seq(S) /\ Len(Lower(s)) = Len(s)
        /\ \A i \in DOMAIN s : Lower(s)[i] = IF s[i] = "A" THEN "a" ELSE s[i]
    BY DEF Lower
<1>7. Score(q, draft) = 3 /\ draft \in fit
    <2>1. q \in Seq(S)
        BY <1>1, <1>6
    <2>2. IsPrefix(q, q)
        <3> HIDE DEF q, S
        <3>1. Starts(q, q)
            BY <2>1 DEF Starts
        <3> QED BY <2>1, <3>1, PrefixStarts
    <2>3. Score(q, draft) = 3
        BY <1>5, <2>2
    <2> QED BY <2>3
<1>8. ASSUME NEW c \in fit, c # draft PROVE <<draft, c>> \in BestFirst(q, fit)
    <2>1. /\ c \in commands /\ c \in Seq(Alphabet) /\ c # <<>> /\ c[1] = "/" /\ Len(c) \in Nat
          /\ Tail(c) \in Seq(Alphabet) /\ Len(c) = Len(Tail(c)) + 1
          /\ \A i \in DOMAIN Tail(c) : Tail(c)[i] = c[i + 1]
        <3>1. c \in commands
            OBVIOUS
        <3> QED BY <3>1, CommandIs
    <2>2. CASE Score(q, c) # 3
        <3>1. Score(q, draft) > Score(q, c)
            <4>1. Score(q, c) \in 0 .. 3
                BY <1>5, <2>1
            <4> HIDE DEF q
            <4> QED BY <1>7, <2>2, <4>1
        <3> HIDE DEF fit, q
        <3> QED BY <1>3, <1>7, <3>1, BestIs
    <2>3. CASE Score(q, c) = 3
        <3> DEFINE v == Tail(c)
                   p == Lower(v)
        <3>1. IsPrefix(q, p)
            BY <1>5, <2>1, <2>3
        <3>2. p \in Seq(S) /\ Len(p) = Len(v) /\ q \in Seq(S) /\ Len(q) = Len(w)
            <4>1. p \in Seq(S) /\ Len(p) = Len(v)
                <5> HIDE DEF S
                <5> QED BY <1>6, <2>1
            <4>2. q \in Seq(S) /\ Len(q) = Len(w)
                <5> HIDE DEF S, w
                <5> QED BY <1>1, <1>6
            <4> QED BY <4>1, <4>2, Zenon
        <3>3. Len(q) <= Len(p) /\ \A i \in 1 .. Len(q) : p[i] = q[i]
            <4> HIDE DEF p, q, S
            <4>1. Starts(q, p)
                BY <3>1, <3>2, PrefixStarts
            <4> QED BY <4>1 DEF Starts
        <3>4. Len(draft) <= Len(c)
            <4> HIDE DEF p, q, v, w
            <4> QED BY <1>1, <2>1, <3>2, <3>3 DEF v
        <3>5. Len(draft) # Len(c)
            <4> SUFFICES ASSUME Len(draft) = Len(c) PROVE FALSE
                OBVIOUS
            <4> DEFINE x == Lower(draft)
                       y == Lower(c)
            <4>1. /\ x \in Seq(S) /\ Len(x) = Len(draft)
                  /\ \A i \in DOMAIN draft : x[i] = IF draft[i] = "A" THEN "a" ELSE draft[i]
                BY <1>1, <1>6
            <4>2. /\ y \in Seq(S) /\ Len(y) = Len(c)
                  /\ \A i \in DOMAIN c : y[i] = IF c[i] = "A" THEN "a" ELSE c[i]
                BY <1>6, <2>1
            <4>3. /\ \A i \in DOMAIN w : q[i] = IF w[i] = "A" THEN "a" ELSE w[i]
                  /\ \A i \in DOMAIN v : p[i] = IF v[i] = "A" THEN "a" ELSE v[i]
                <5>1. w \in Seq(Alphabet) /\ v \in Seq(Alphabet)
                    BY <1>1, <2>1
                <5> HIDE DEF S, w, v
                <5> QED BY <1>6, <5>1
            <4>4. /\ DOMAIN w = 1 .. Len(w) /\ DOMAIN v = 1 .. Len(v) /\ Len(w) = Len(v)
                  /\ Len(w) \in Nat /\ DOMAIN draft = 1 .. (Len(w) + 1)
                  /\ DOMAIN c = 1 .. (Len(w) + 1)
                <5>1. \A s \in Seq(Alphabet) : DOMAIN s = 1 .. Len(s) /\ Len(s) \in Nat
                    OBVIOUS
                <5>2. /\ w \in Seq(Alphabet) /\ v \in Seq(Alphabet) /\ draft \in Seq(Alphabet)
                      /\ c \in Seq(Alphabet) /\ Len(draft) = Len(w) + 1 /\ Len(c) = Len(v) + 1
                    BY <1>1, <2>1
                <5> HIDE DEF p, q, v, w
                <5>3. DOMAIN w = 1 .. Len(w) /\ Len(w) \in Nat
                    BY <5>1, <5>2, Zenon
                <5>4. DOMAIN v = 1 .. Len(v) /\ Len(v) \in Nat
                    BY <5>1, <5>2, Zenon
                <5>5. DOMAIN draft = 1 .. Len(draft) /\ DOMAIN c = 1 .. Len(c)
                    BY <5>1, <5>2, Zenon
                <5>6. Len(w) = Len(v)
                    <6>1. Len(w) + 1 = Len(v) + 1
                        BY <5>2, Zenon
                    <6> QED BY <5>3, <5>4, <6>1, SameLess, Zenon
                <5> QED BY <5>2, <5>3, <5>4, <5>5, <5>6, Zenon
            <4>5. \A i \in DOMAIN v : v[i] = c[i + 1]
                BY <2>1
            <4> HIDE DEF x, y, p, q, v, w, S
            <4>6. ASSUME NEW i \in 1 .. (Len(w) + 1) PROVE x[i] = y[i]
                <5>1. CASE i = 1
                    <6>1. x[1] = IF draft[1] = "A" THEN "a" ELSE draft[1]
                        BY <4>1, <4>4, <5>1
                    <6>2. y[1] = IF c[1] = "A" THEN "a" ELSE c[1]
                        BY <4>2, <4>4, <5>1
                    <6> QED BY <1>1, <2>1, <5>1, <6>1, <6>2
                <5>2. CASE i # 1
                    <6> DEFINE j == i - 1
                    <6>1. j \in 1 .. Len(w) /\ j + 1 = i
                        BY <4>4, <5>2
                    <6> HIDE DEF j
                    <6>2. p[j] = q[j]
                        BY <3>2, <3>3, <6>1
                    <6>3. w[j] = draft[i] /\ v[j] = c[i]
                        BY <1>1, <4>4, <4>5, <6>1
                    <6>4. q[j] = x[i]
                        BY <4>1, <4>3, <4>4, <6>1, <6>3
                    <6>5. p[j] = y[i]
                        BY <4>2, <4>3, <4>4, <6>1, <6>3
                    <6> QED BY <6>2, <6>4, <6>5
                <5> QED BY <5>1, <5>2
            <4>7. Len(x) = Len(w) + 1 /\ Len(y) = Len(x)
                BY <1>1, <4>1, <4>2
            <4>8. x = y
                BY <4>1, <4>2, <4>6, <4>7, SeqEqual
            <4>9. draft = c
                BY <2>1, <4>8 DEF CaseApart, x, y
            <4> QED BY <1>8, <4>9
        <3>6. Len(draft) < Len(c)
            <4>1. Len(draft) \in Nat /\ Len(c) \in Nat
                BY <1>1, <2>1
            <4> QED BY <3>4, <3>5, <4>1
        <3> HIDE DEF fit, q
        <3> QED BY <1>3, <1>7, <2>3, <3>6, BestIs
    <2> QED BY <2>2, <2>3
<1> HIDE DEF fit, q
<1>9. SortedBy(fit, BestFirst(q, fit))[1] = draft
    BY <1>4, <1>7, <1>8, SortedIs
<1> QED BY <1>2, <1>9

-----------------------------------------------------------------------------
(* Composer: the row that ArrowDown reaches                                *)

\* The rest of a division.
LEMMA RestOf ==
    ASSUME NEW len \in Nat \ {0}, NEW m \in Nat, NEW r \in 0 .. (len - 1)
    PROVE  (m * len + r) % len = r
OBVIOUS

\* ArrowDown goes to the next row, and from the last to the first.
LEMMA WrapsAround ==
    ASSUME NEW len \in Nat \ {0}, NEW n \in Nat
    PROVE  /\ n % len \in 0 .. (len - 1)
           /\ NextActiveIndex(1 + (n % len), len, 1) = 1 + ((n + 1) % len)
<1> DEFINE r == n % len
<1>1. r \in 0 .. (len - 1)
    OBVIOUS
<1>2. PICK m \in Nat : n = m * len + r
    <2> DEFINE m == n \div len
    <2>1. m \in Nat /\ n = m * len + r
        OBVIOUS
    <2> HIDE DEF m, r
    <2> QED BY <2>1, Zenon
<1> HIDE DEF r
<1>3. NextActiveIndex(1 + r, len, 1) = 1 + ((r + 1 + len) % len)
    <2>1. len # 0 /\ (1 + r) - 1 + 1 + len = r + 1 + len
        BY <1>1
    <2> QED BY <2>1, Zenon DEF NextActiveIndex
<1>4. CASE r + 1 < len
    <2>1. (r + 1 + len) % len = r + 1
        BY <1>1, <1>4
    <2>2. (n + 1) % len = r + 1
        <3>1. n + 1 = m * len + (r + 1)
            BY <1>1, <1>2
        <3>2. r + 1 \in 0 .. (len - 1)
            BY <1>1, <1>4
        <3>3. (m * len + (r + 1)) % len = r + 1
            BY <3>2, RestOf, Zenon
        <3> QED BY <3>1, <3>3, Zenon
    <2> QED BY <1>1, <1>3, <2>1, <2>2 DEF r
<1>5. CASE r + 1 = len
    <2>1. (r + 1 + len) % len = 0
        BY <1>1, <1>5
    <2>2. (n + 1) % len = 0
        <3>1. n + 1 = (m + 1) * len + 0
            BY <1>1, <1>2, <1>5
        <3>2. m + 1 \in Nat /\ 0 \in 0 .. (len - 1)
            OBVIOUS
        <3>3. ((m + 1) * len + 0) % len = 0
            BY <3>2, RestOf, Zenon
        <3> QED BY <3>1, <3>3, Zenon
    <2> QED BY <1>1, <1>3, <2>1, <2>2 DEF r
<1> QED BY <1>1, <1>4, <1>5

\* The field while a row is chosen.
Chosen(draft, nth) ==
    [draft |-> draft, cursor |-> Len(draft), active |-> nth, suppressed |-> FALSE, sent |-> Unsent]
ChosenRows(draft) == {Chosen(draft, nth) : nth \in Nat \ {0}}

FieldOf(draft, len, nth, hides, none) ==
    [draft |-> draft, cursor |-> len, active |-> nth, suppressed |-> hides, sent |-> none]

\* The field with another row chosen.
LEMMA RowChanges ==
    \A draft, len, nth, place, hides, none :
        [FieldOf(draft, len, nth, hides, none) EXCEPT !.active = place]
          = FieldOf(draft, len, place, hides, none)
BY DEF FieldOf

\* ArrowDown in the menu of commands.
LEMMA DownMoves ==
    ASSUME NEW commands, NEW draft, IsPrefix(Slash, draft), NEW nth
    PROVE  Press(Chosen(draft, nth), "ArrowDown", commands)
             = Chosen(draft, NextActiveIndex(nth, Len(FilterEntries(commands, draft)), 1))
<1> DEFINE c == Chosen(draft, nth)
           n == Len(FilterEntries(commands, draft))
<1>1. c.draft = draft /\ c.active = nth
    BY DEF Chosen
<1> DEFINE to == NextActiveIndex(nth, n, 1)
           len == Len(draft)
           none == Unsent
<1>2. [c EXCEPT !.active = to] = Chosen(draft, to)
    <2> DEFINE hides == FALSE
    <2>1. \A a : Chosen(draft, a) = FieldOf(draft, len, a, hides, none)
        BY Zenon DEF Chosen, FieldOf
    <2> HIDE DEF hides
    <2>2. [FieldOf(draft, len, nth, hides, none) EXCEPT !.active = to]
            = FieldOf(draft, len, to, hides, none)
        <3> HIDE DEF to, len, none
        <3> QED BY RowChanges
    <2> HIDE DEF to, len, none
    <2> QED BY <2>1, <2>2, Zenon
<1> HIDE DEF c
<1>3. Press(c, "ArrowDown", commands) = SlashKey(c, "ArrowDown", commands)
    BY <1>1 DEF Press, ComposerKey
<1>4. SlashKey(c, "ArrowDown", commands) = Moved(c, n, 1)
    BY <1>1 DEF SlashKey
<1> QED BY <1>1, <1>2, <1>3, <1>4 DEF Moved, c

DownStep(draft, commands) ==
    [p \in ChosenRows(draft) \X {"ArrowDown"} |-> Press(p[1], p[2], commands)]

\* ArrowDown as a step that a loop can repeat.
LEMMA DownSteps ==
    ASSUME NEW commands, NEW draft, IsPrefix(Slash, draft),
           Len(FilterEntries(commands, draft)) \in Nat
    PROVE  /\ StepOf(DownStep(draft, commands), ChosenRows(draft), {"ArrowDown"})
           /\ \A c \in ChosenRows(draft), key \in {"ArrowDown"} :
                 DownStep(draft, commands)[<<c, key>>] = Press(c, key, commands)
<1> DEFINE V == ChosenRows(draft)
           F == {"ArrowDown"}
           n == Len(FilterEntries(commands, draft))
<1>1. ASSUME NEW c \in V, NEW key \in F PROVE Press(c, key, commands) \in V
    <2>1. PICK nth \in Nat \ {0} : c = Chosen(draft, nth)
        BY DEF ChosenRows
    <2>2. key = "ArrowDown"
        OBVIOUS
    <2>3. Press(c, key, commands) = Chosen(draft, NextActiveIndex(nth, n, 1))
        BY <2>1, <2>2, DownMoves
    <2>4. NextActiveIndex(nth, n, 1) \in Nat \ {0}
        <3> HIDE DEF n
        <3>1. n \in Nat
            BY DEF n
        <3>2. CASE n = 0
            BY <3>2 DEF NextActiveIndex
        <3>3. CASE n # 0
            <4> DEFINE x == nth - 1 + 1 + n
            <4>1. x \in Nat
                BY <3>1
            <4> HIDE DEF x
            <4>2. x % n \in 0 .. (n - 1)
                BY <3>1, <3>3, <4>1
            <4>3. NextActiveIndex(nth, n, 1) = 1 + (x % n)
                BY <3>3 DEF NextActiveIndex, x
            <4> QED BY <3>1, <4>2, <4>3
        <3> QED BY <3>2, <3>3
    <2> QED BY <2>3, <2>4 DEF ChosenRows
<1> HIDE DEF V, F
<1>2. \A p \in V \X F : Press(p[1], p[2], commands) \in V
    BY <1>1
<1>3. [p \in V \X F |-> Press(p[1], p[2], commands)] \in [V \X F -> V]
    BY <1>2
<1>4. \A c \in V, key \in F :
        [p \in V \X F |-> Press(p[1], p[2], commands)][<<c, key>>] = Press(c, key, commands)
    OBVIOUS
<1> QED BY <1>3, <1>4 DEF DownStep, StepOf, V, F

\* The fold of the code's function is what the loop leaves.
LEMMA DownFolds ==
    ASSUME NEW commands, NEW draft, IsPrefix(Slash, draft),
           Len(FilterEntries(commands, draft)) \in Nat,
           NEW k \in ChosenRows(draft), NEW downs \in Nat
    PROVE  PressDown(k, commands, downs)
             = Folded(DownStep(draft, commands), k, [i \in 1 .. downs |-> "ArrowDown"])
<1> DEFINE F == {"ArrowDown"}
           V == ChosenRows(draft)
           Round == DownStep(draft, commands)
           c == [i \in 1 .. downs |-> "ArrowDown"]
           Fold(f) == f = [s \in SUBSET DOMAIN c |->
                              IF s = {} THEN k
                              ELSE Press(f[s \ {Max(s)}], c[Max(s)], commands)]
           fold == CHOOSE f : Fold(f)
<1>1. StepOf(Round, V, F) /\ \A a \in V, b \in F : Round[<<a, b>>] = Press(a, b, commands)
    BY DownSteps
<1>2. k \in V /\ c \in Seq(F)
    OBVIOUS
<1>3. PressDown(k, commands, downs) = FoldLeft(LAMBDA d, key : Press(d, key, commands), k, c)
    BY DEF PressDown
<1> HIDE DEF F, V, Round, c
<1>4. PICK iter \in [SUBSET DOMAIN c -> V] : CalculatesTyped(Round, V, F, k, c, iter)
    BY <1>1, <1>2, LoopExists
<1>5. Fold(iter)
    BY <1>1, <1>4 DEF CalculatesTyped
<1>6. Fold(fold)
    <2> HIDE DEF Fold
    <2> QED BY <1>5
<1>7. FoldLeft(LAMBDA d, key : Press(d, key, commands), k, c) = fold[DOMAIN c]
    BY Zenon DEF FoldLeft, MapThenFoldSet
<1> HIDE DEF fold
<1>8. Calculates(Round, V, F, k, c, fold)
    BY <1>1, <1>6 DEF Calculates
<1> HIDE DEF Fold
<1>9. fold[DOMAIN c] = Folded(Round, k, c)
    BY <1>1, <1>2, <1>8, LoopIsFolded
<1>10. PressDown(k, commands, downs) = Folded(Round, k, c)
    BY <1>3, <1>7, <1>9, Zenon
<1> QED BY <1>10, Zenon DEF Round, c

\* After any number of ArrowDowns the row is the one that many further, from
\* the top again behind the last.
LEMMA DownsReach ==
    ASSUME NEW commands, NEW draft, IsPrefix(Slash, draft),
           Len(FilterEntries(commands, draft)) \in Nat, NEW downs \in Nat
    PROVE  /\ \E nth \in Nat \ {0} : PressDown(Field(draft, Len(draft)), commands, downs) = Chosen(draft, nth)
           /\ FilterEntries(commands, draft) # <<>> /\ Len(FilterEntries(commands, draft)) # 0 =>
                PressDown(Field(draft, Len(draft)), commands, downs)
                  = Chosen(draft, 1 + (downs % Len(FilterEntries(commands, draft))))
<1> DEFINE F == {"ArrowDown"}
           V == ChosenRows(draft)
           Round == DownStep(draft, commands)
           c == [i \in 1 .. downs |-> "ArrowDown"]
           n == Len(FilterEntries(commands, draft))
           k == Field(draft, Len(draft))
<1>1. k = Chosen(draft, 1) /\ k \in V
    <2>1. k = Chosen(draft, 1)
        BY DEF Chosen, Field
    <2> QED BY <2>1 DEF ChosenRows
<1>2. StepOf(Round, V, F) /\ \A a \in V, b \in F : Round[<<a, b>>] = Press(a, b, commands)
    BY DownSteps
<1>3. c \in Seq(F) /\ Len(c) = downs
    OBVIOUS
<1>4. PressDown(k, commands, downs) = Folded(Round, k, c)
    BY <1>1, DownFolds
<1>5. \A nth : Press(Chosen(draft, nth), "ArrowDown", commands) = Chosen(draft, NextActiveIndex(nth, n, 1))
    BY DownMoves
<1>6. n \in Nat
    OBVIOUS
<1>7. \A a \in V : \E nth \in Nat \ {0} : a = Chosen(draft, nth)
    BY DEF ChosenRows
<1>8. \A nth \in Nat \ {0} : Chosen(draft, nth) \in V
    BY DEF ChosenRows
<1>9. "ArrowDown" \in F /\ \A f \in F : f = "ArrowDown"
    OBVIOUS
<1> HIDE DEF F, V, Round, c, n, k
<1>10. Folded(Round, k, c) \in V
    BY <1>1, <1>2, <1>3, FoldedType
<1>11. ASSUME n # 0 PROVE Folded(Round, k, c) = Chosen(draft, 1 + (downs % n))
    <2> DEFINE R == {p \in V \X Seq(F) : p[1] = Chosen(draft, 1 + (Len(p[2]) % n))}
    <2>1. R \in SUBSET (V \X Seq(F))
        OBVIOUS
    <2>2. \A v \in V, d \in Seq(F) : <<v, d>> \in R <=> v = Chosen(draft, 1 + (Len(d) % n))
        OBVIOUS
    <2> HIDE DEF R
    <2>3. <<k, <<>>>> \in R
        <3>1. <<>> \in Seq(F) /\ Len(<<>>) = 0
            OBVIOUS
        <3>2. 1 + (0 % n) = 1
            BY <1>6, <1>11
        <3> QED BY <1>1, <2>2, <3>1, <3>2
    <2>4. ASSUME NEW v \in V, NEW d \in Seq(F), NEW f \in F, <<v, d>> \in R
          PROVE  <<Round[<<v, f>>], Append(d, f)>> \in R
        <3> DEFINE l == Len(d)
        <3>1. l \in Nat /\ Append(d, f) \in Seq(F) /\ Len(Append(d, f)) = l + 1
            OBVIOUS
        <3>2. v = Chosen(draft, 1 + (l % n))
            BY <2>2, <2>4
        <3> HIDE DEF l
        <3>3. NextActiveIndex(1 + (l % n), n, 1) = 1 + ((l + 1) % n)
            BY <1>6, <1>11, <3>1, WrapsAround
        <3>4. Round[<<v, f>>] = Press(v, "ArrowDown", commands)
            BY <1>2, <1>9
        <3>5. Round[<<v, f>>] = Chosen(draft, 1 + ((l + 1) % n))
            BY <1>5, <3>2, <3>3, <3>4
        <3>6. Round[<<v, f>>] \in V
            BY <1>2 DEF StepOf
        <3> QED BY <2>2, <3>1, <3>5, <3>6
    <2>5. <<Folded(Round, k, c), c>> \in R
        BY <1>1, <1>2, <1>3, <2>1, <2>3, <2>4, FoldedSoFar
    <2> QED BY <1>3, <1>10, <2>2, <2>5
<1>12. (\E nth \in Nat \ {0} : PressDown(k, commands, downs) = Chosen(draft, nth))
    BY <1>4, <1>7, <1>10
<1>13. n # 0 => PressDown(k, commands, downs) = Chosen(draft, 1 + (downs % n))
    BY <1>4, <1>11
<1> QED BY <1>12, <1>13 DEF k, n

-----------------------------------------------------------------------------
(* Composer: Enter                                                         *)

LEMMA SendIs ==
    ASSUME NEW c, NEW commands, NEW t, Trim(c.draft) = t, t # <<>>
    PROVE  HandleSend(c, commands).sent
             = [kind |-> IF IsSlashSubmit(t, commands) THEN "cli" ELSE "chat", text |-> t]
<1> DEFINE sent == [kind |-> IF IsSlashSubmit(t, commands) THEN "cli" ELSE "chat", text |-> t]
<1>1. HandleSend(c, commands) = [Field(<<>>, 0) EXCEPT !.sent = sent]
    BY DEF HandleSend
<1> HIDE DEF sent
<1>2. [Field(<<>>, 0) EXCEPT !.sent = sent].sent = sent
    BY DEF Field
<1> QED BY <1>1, <1>2 DEF sent

\* Enter on a draft that begins with a slash: the row, or the draft, is taken.
LEMMA EnterOnMenu ==
    ASSUME NEW commands, NEW draft, IsPrefix(Slash, draft), NEW c, c.draft = draft,
           NEW filtered, filtered = FilterEntries(commands, draft)
    PROVE  Press(c, "Enter", commands)
             = IF filtered # <<>> /\ ~ ExactSingleMatch(filtered, draft)
               THEN Field(filtered[c.active] \o <<Blank>>, Len(filtered[c.active] \o <<Blank>>))
               ELSE HandleSend(c, commands)
<1>1. Press(c, "Enter", commands) = SlashKey(c, "Enter", commands)
    BY DEF Press, ComposerKey
<1> DEFINE picks == filtered # <<>> /\ ~ ExactSingleMatch(filtered, draft)
<1>2. CASE picks
    <2>1. SlashKey(c, "Enter", commands)
            = Field(filtered[c.active] \o <<Blank>>, Len(filtered[c.active] \o <<Blank>>))
        BY <1>2 DEF SlashKey
    <2> QED BY <1>1, <1>2, <2>1
<1>3. CASE ~ picks
    <2>1. SlashKey(c, "Enter", commands) = HandleSend(c, commands)
        BY <1>3 DEF SlashKey
    <2> QED BY <1>1, <1>3, <2>1
<1> QED BY <1>2, <1>3

(***************************************************************************)
(* Enter on a command half typed picks the row that the ArrowDowns have    *)
(* reached, and the next Enter sends the command picked.  A command typed  *)
(* in full is the first row; what no command matches, and the only command *)
(* matched, is sent as it stands (SlashMenu.tsx, SessionView.tsx).         *)
(***************************************************************************)
THEOREM EnterSends ==
    ASSUME NEW commands \in SUBSET Command, IsFiniteSet(commands), CaseApart(commands),
           NEW draft \in Seq(Alphabet), IsPrefix(Slash, draft), NEW downs \in Nat
    PROVE  SentWell(commands, draft, downs)
<1> DEFINE filtered == FilterEntries(commands, draft)
           n == Len(filtered)
           c == PressDown(Field(draft, Len(draft)), commands, downs)
           once == Press(c, "Enter", commands)
           t == Trim(draft)
<1>1. filtered \in Seq(commands) /\ n \in Nat
    <2>1. commands \in SUBSET Seq(Alphabet)
        BY CommandIs
    <2>2. filtered \in Seq(commands)
        BY <2>1, MenuLists
    <2> HIDE DEF filtered
    <2> QED BY <2>2
<1>2. draft \in commands => filtered[1] = draft
    BY TypedIsFirst
<1>3. PICK nth \in Nat \ {0} : c = Chosen(draft, nth) /\ (filtered # <<>> /\ n # 0 => nth = 1 + (downs % n))
    <2>1. n = 0 \/ n # 0
        OBVIOUS
    <2>2. \A a \in Nat \ {0} : Chosen(draft, a).active = a
        BY DEF Chosen
    <2>3. /\ \E a \in Nat \ {0} : c = Chosen(draft, a)
          /\ filtered # <<>> /\ n # 0 => c = Chosen(draft, 1 + (downs % n))
        BY <1>1, DownsReach
    <2> HIDE DEF c, filtered
    <2>4. n # 0 => 1 + (downs % n) \in Nat \ {0}
        <3> SUFFICES ASSUME n # 0 PROVE 1 + (downs % n) \in Nat \ {0}
            OBVIOUS
        <3> HIDE DEF n
        <3>1. downs % n \in 0 .. (n - 1)
            BY <1>1, WrapsAround
        <3> QED BY <1>1, <3>1
    <2> QED BY <2>2, <2>3, <2>4
<1>4. c.draft = draft /\ c.active = nth
    BY <1>3 DEF Chosen
<1>5. draft # <<>> /\ draft[1] = "/"
    <2>1. "/" \in Alphabet
        BY RanksAre
    <2> QED BY <2>1, PrefixOne DEF Slash
<1>6. t \in Seq(Alphabet) /\ t # <<>> /\ t[1] = "/" /\ FirstWord(t) = FirstWord(draft)
    <2>1. draft[1] # Blank
        BY <1>5 DEF Blank
    <2> QED BY <1>5, <2>1, TrimKeepsWord
<1>7. IsPrefix(Slash, t)
    <2>1. "/" \in Alphabet
        BY RanksAre
    <2> QED BY <1>6, <2>1, PrefixOne DEF Slash
<1> HIDE DEF c, t, filtered
<1>8. once = IF filtered # <<>> /\ ~ ExactSingleMatch(filtered, draft)
             THEN Field(filtered[nth] \o <<Blank>>, Len(filtered[nth] \o <<Blank>>))
             ELSE HandleSend(c, commands)
    BY <1>4, EnterOnMenu DEF filtered
<1>9. CASE filtered = <<>> \/ ExactSingleMatch(filtered, draft)
    <2>1. once = HandleSend(c, commands)
        BY <1>8, <1>9
    <2>2. HandleSend(c, commands).sent
            = [kind |-> IF IsSlashSubmit(t, commands) THEN "cli" ELSE "chat", text |-> t]
        BY <1>4, <1>6, SendIs DEF t
    <2>3. IsSlashSubmit(t, commands) <=> FirstWord(draft) \in commands
        BY <1>6, <1>7 DEF IsSlashSubmit
    <2>4. once.sent = [kind |-> IF FirstWord(draft) \in commands THEN "cli" ELSE "chat", text |-> t]
        BY <2>1, <2>2, <2>3
    <2> HIDE DEF once
    <2> QED BY <1>2, <1>9, <2>4 DEF SentWell, filtered, once, c, t
<1>10. CASE filtered # <<>> /\ ~ ExactSingleMatch(filtered, draft)
    <2> DEFINE d == filtered[nth]
    <2>1. n # 0 /\ nth = 1 + (downs % n)
        BY <1>1, <1>3, <1>10
    <2>2. d \in commands
        <3>1. downs % n \in 0 .. (n - 1)
            <4> HIDE DEF n
            <4> QED BY <1>1, <2>1, WrapsAround
        <3>2. nth \in 1 .. n
            <4> HIDE DEF n
            <4> QED BY <1>1, <2>1, <3>1
        <3> QED BY <1>1, <3>2
    <2> HIDE DEF d
    <2>3. once = Field(d \o <<Blank>>, Len(d \o <<Blank>>))
        BY <1>8, <1>10 DEF d
    <2>4. once.sent = Unsent /\ once.draft = d \o <<Blank>>
        BY <2>3 DEF Field
    <2> HIDE DEF once
    <2>5. IsPrefix(Slash, d \o <<Blank>>) /\ Trim(d \o <<Blank>>) = d /\ d # <<>>
          /\ IsPrefix(Slash, d) /\ FirstWord(d) = d
        <3>1. d \in Command
            BY <2>2
        <3> QED BY <3>1, CommandIs
    <2>6. FilterEntries(commands, d \o <<Blank>>) = <<>>
        BY <2>2, NothingBehindBlank
    <2>7. Press(once, "Enter", commands) = HandleSend(once, commands)
        <3> DEFINE e == d \o <<Blank>>
        <3>1. IsPrefix(Slash, e) /\ once.draft = e /\ <<>> = FilterEntries(commands, e)
            BY <2>4, <2>5, <2>6
        <3> HIDE DEF e
        <3>2. Press(once, "Enter", commands)
                = IF <<>> # <<>> /\ ~ ExactSingleMatch(<<>>, e)
                  THEN Field(<<>>[once.active] \o <<Blank>>, Len(<<>>[once.active] \o <<Blank>>))
                  ELSE HandleSend(once, commands)
            BY <3>1, EnterOnMenu
        <3> QED BY <3>2, Zenon
    <2>8. IsSlashSubmit(d, commands)
        BY <2>2, <2>5 DEF IsSlashSubmit
    <2>9. HandleSend(once, commands).sent = [kind |-> "cli", text |-> d]
        <3>1. Trim(once.draft) = d
            BY <2>4, <2>5
        <3>2. HandleSend(once, commands).sent
                = [kind |-> IF IsSlashSubmit(d, commands) THEN "cli" ELSE "chat", text |-> d]
            BY <2>5, <3>1, SendIs
        <3> QED BY <2>8, <3>2
    <2>10. Press(once, "Enter", commands).sent
             = [kind |-> "cli", text |-> filtered[1 + (downs % Len(filtered))]]
        BY <2>1, <2>7, <2>9 DEF d
    <2> QED BY <1>2, <1>10, <2>4, <2>10 DEF SentWell, filtered, once, c
<1> QED BY <1>9, <1>10

-----------------------------------------------------------------------------
(* Composer: the three menus                                               *)

LEMMA LettersAre ==
    Alphabet = {Blank, "-", ".", "/", "@", "~", "a", "A", "b"}
BY DEF Alphabet, ToSet, Collation

\* The bounded texts are texts.
LEMMA BoundedAreSeqs ==
    ASSUME NEW S, NEW n, NEW s \in SeqOf(S, n) PROVE s \in Seq(S)
BY DEF SeqOf

\* The entries of the run are entries as the theorems have them.
LEMMA SomeArePickable == SomeEntries \subseteq Pickable
<1> DEFINE L == Alphabet \ {Blank, "@", "/"}
<1>1. "a" \in L /\ "b" \in L /\ "A" \in L /\ "." \in L
    BY LettersAre DEF Blank
<1> HIDE DEF L
<1>2. \A n \in SomeNames : n \in Seq(L) /\ n # <<>> /\ n # <<".">> /\ n[1] # "~"
    <2>1. <<"a">> \in Seq(L) /\ <<"a">> # <<>> /\ <<"a">> # <<".">> /\ <<"a">>[1] # "~"
        BY <1>1
    <2>2. <<"a", "b">> \in Seq(L) /\ <<"a", "b">> # <<>> /\ <<"a", "b">> # <<".">> /\ <<"a", "b">>[1] # "~"
        BY <1>1
    <2>3. <<"b", "A">> \in Seq(L) /\ <<"b", "A">> # <<>> /\ <<"b", "A">> # <<".">> /\ <<"b", "A">>[1] # "~"
        BY <1>1
    <2>4. <<".", "a">> \in Seq(L) /\ <<".", "a">> # <<>> /\ <<".", "a">> # <<".">> /\ <<".", "a">>[1] # "~"
        BY <1>1
    <2> QED BY <2>1, <2>2, <2>3, <2>4, Zenon DEF SomeNames
<1> QED BY <1>2 DEF SomeEntries, Pickable, L

\* None of the mentions of the run goes wrong.
LEMMA NothingMispicked == MispickedMentions = {}
<1> SUFFICES ASSUME NEW m \in Mentions, m.cursor <= Len(m.text),
                    FilterFsEntries({m.entry}, ResolveMentionPath(m.text, m.cwd).prefix, "all") # <<>>
             PROVE  PickedWell(m)
    BY Zenon DEF MispickedMentions
<1>1. /\ m.before \in {<<>>, <<"b", Blank>>} /\ m.text \in SeqOf({"a", "/", ".", "~"}, 3)
      /\ m.cursor \in 0 .. 3 /\ m.rest \in {<<>>, <<Blank, "b">>}
      /\ m.cwd \in {<<>>, Slash, <<"/", "b">>} /\ m.entry \in SomeEntries
      /\ m = [before |-> m.before, text |-> m.text, cursor |-> m.cursor, rest |-> m.rest,
              cwd |-> m.cwd, entry |-> m.entry]
    BY DEF Mentions
<1>2. /\ Blank \in Alphabet /\ "/" \in Alphabet /\ "b" \in Alphabet
      /\ {"a", "/", ".", "~"} \subseteq Alphabet
    BY LettersAre
<1>3. m.before \in Seq(Alphabet) /\ (m.before = <<>> \/ m.before[1] # "/")
    <2>1. <<"b", Blank>> \in Seq(Alphabet) /\ <<"b", Blank>>[1] # "/" /\ <<>> \in Seq(Alphabet)
        BY <1>2
    <2> QED BY <1>1, <2>1
<1>4. m.rest \in Seq(Alphabet) /\ (m.rest = <<>> \/ m.rest[1] = Blank)
    <2>1. <<Blank, "b">> \in Seq(Alphabet) /\ <<Blank, "b">>[1] = Blank /\ <<>> \in Seq(Alphabet)
        BY <1>2
    <2> QED BY <1>1, <2>1
<1>5. m.cwd \in Seq(Alphabet)
    <2>1. <<>> \in Seq(Alphabet) /\ Slash \in Seq(Alphabet) /\ <<"/", "b">> \in Seq(Alphabet)
        BY <1>2 DEF Slash
    <2> QED BY <1>1, <2>1
<1>6. m.text \in Seq(Alphabet) /\ IsToken(m.text)
    <2> DEFINE S == {"a", "/", ".", "~"}
    <2>1. m.text \in Seq(S)
        BY <1>1, BoundedAreSeqs
    <2>2. \A x \in S : x # Blank /\ x # "@"
        BY DEF Blank
    <2>3. S \subseteq Alphabet
        BY <1>2
    <2> HIDE DEF S
    <2>4. m.text \in Seq(Alphabet)
        BY <2>1, <2>3, SeqMonotonic
    <2>5. \A i \in DOMAIN m.text : m.text[i] \in S
        BY <2>1
    <2> QED BY <2>2, <2>4, <2>5 DEF IsToken
<1>7. m.entry \in Pickable
    BY <1>1, SomeArePickable
<1>8. m.cursor \in 0 .. Len(m.text)
    <2>1. Len(m.text) \in Nat
        BY <1>6
    <2> QED BY <1>1, <2>1
<1> DEFINE b == m.before
           t == m.text
           k == m.cursor
           r == m.rest
           w == m.cwd
           e == m.entry
<1>9. PickedWell([before |-> b, text |-> t, cursor |-> k, rest |-> r, cwd |-> w, entry |-> e])
    <2>1. /\ b \in Seq(Alphabet) /\ (b = <<>> \/ b[1] # "/") /\ t \in Seq(Alphabet) /\ IsToken(t)
          /\ r \in Seq(Alphabet) /\ (r = <<>> \/ r[1] = Blank) /\ k \in 0 .. Len(t)
          /\ w \in Seq(Alphabet) /\ e \in Pickable
          /\ FilterFsEntries({e}, ResolveMentionPath(t, w).prefix, "all") # <<>>
        BY <1>3, <1>4, <1>5, <1>6, <1>7, <1>8
    <2> HIDE DEF b, t, k, r, w, e
    <2> QED BY <2>1, MentionDescends
<1> QED BY <1>1, <1>9

\* None of the paths of the run goes wrong.
LEMMA NoPathMispicked == MispickedPaths = {}
<1> DEFINE S == {"a", "/", ".", "~"}
           All == SeqOf(S, 4) \X SomeEntries
<1>1. S \subseteq Alphabet \ {Blank}
    BY LettersAre DEF Blank
<1>2. ASSUME NEW p \in All, FilterFsEntries({p[2]}, SplitField(p[1]).prefix, "dirs") # <<>>
      PROVE  PickedPathWell(p[1], p[2])
    <2>1. p[1] \in SeqOf(S, 4) /\ p[2] \in SomeEntries
        BY <1>2
    <2>2. p[1] \in Seq(S)
        BY <2>1, BoundedAreSeqs
    <2> HIDE DEF S
    <2>3. p[1] \in Seq(Alphabet \ {Blank})
        BY <1>1, <2>2, SeqMonotonic
    <2>4. p[2] \in Pickable
        BY <2>1, SomeArePickable
    <2> QED BY <1>2, <2>3, <2>4, PathDescends
<1> QED BY <1>2, Zenon DEF MispickedPaths

\* The commands of the run are commands as the theorem has them.
LEMMA SomeAreCommands ==
    /\ SomeCommands \subseteq Command /\ IsFiniteSet(SomeCommands)
    /\ \A c \in SomeCommands : Lower(c) = c
<1>1. /\ "/" \in Alphabet /\ "a" \in Alphabet /\ "b" \in Alphabet /\ "-" \in Alphabet
    BY LettersAre
<1> DEFINE Good(c) == c \in Seq(Alphabet) /\ Len(c) >= 2 /\ c[1] = "/"
                      /\ \A i \in DOMAIN c : c[i] # Blank /\ c[i] # "A"
<1>2. Good(<<"/", "a">>)
    BY <1>1 DEF Blank
<1>3. Good(<<"/", "a", "b">>)
    BY <1>1 DEF Blank
<1>4. Good(<<"/", "b", "-", "a">>)
    BY <1>1 DEF Blank
<1>5. Good(<<"/", "b", "b">>)
    BY <1>1 DEF Blank
<1>6. \A c \in Seq(Alphabet) : (\A i \in DOMAIN c : c[i] # "A") => Lower(c) = c
    <2> SUFFICES ASSUME NEW c \in Seq(Alphabet), \A i \in DOMAIN c : c[i] # "A" PROVE Lower(c) = c
        OBVIOUS
    <2>1. Lower(c) = [i \in DOMAIN c |-> c[i]]
        BY DEF Lower
    <2>2. c = [i \in DOMAIN c |-> c[i]]
        OBVIOUS
    <2> QED BY <2>1, <2>2
<1>7. \A c \in SomeCommands : Good(c)
    <2> HIDE DEF Good
    <2> QED BY <1>2, <1>3, <1>4, <1>5, Zenon DEF SomeCommands
<1>8. IsFiniteSet(SomeCommands)
    <2> DEFINE a == <<"/", "a">>
               b == <<"/", "a", "b">>
               c == <<"/", "b", "-", "a">>
               d == <<"/", "b", "b">>
    <2>1. SomeCommands = {a, b, c, d}
        BY DEF SomeCommands
    <2> HIDE DEF a, b, c, d
    <2>2. IsFiniteSet({}) /\ {a, b, c, d} = ((({} \cup {a}) \cup {b}) \cup {c}) \cup {d}
        BY FS_EmptySet
    <2>3. IsFiniteSet(((({} \cup {a}) \cup {b}) \cup {c}) \cup {d})
        BY <2>2, FS_AddElement
    <2> QED BY <2>1, <2>2, <2>3
<1> QED BY <1>6, <1>7, <1>8 DEF Command

\* None of the drafts of the run goes wrong.
LEMMA NothingMissent == MissentDrafts = {}
<1> DEFINE All == (SUBSET SomeCommands) \X Drafts \X (0 .. 2)
<1>1. ASSUME NEW d \in All PROVE SentWell(d[1], d[2], d[3])
    <2>1. d[1] \in SUBSET SomeCommands /\ d[2] \in Drafts /\ d[3] \in 0 .. 2
        BY <1>1
    <2>2. d[1] \in SUBSET Command /\ IsFiniteSet(d[1]) /\ CaseApart(d[1])
        <3>1. IsFiniteSet(d[1])
            BY <2>1, SomeAreCommands, FS_Subset
        <3>2. CaseApart(d[1])
            BY <2>1, SomeAreCommands DEF CaseApart
        <3> QED BY <2>1, <3>1, <3>2, SomeAreCommands
    <2>3. d[2] \in Seq(Alphabet) /\ IsPrefix(Slash, d[2])
        <3>1. PICK typed \in SeqOf({"a", "b", "-", Blank}, 3) : d[2] = Slash \o typed
            BY <2>1, Zenon DEF Drafts
        <3> DEFINE S == {"a", "b", "-", Blank}
        <3>2. typed \in Seq(S)
            BY BoundedAreSeqs
        <3>3. S \subseteq Alphabet /\ "/" \in Alphabet
            BY LettersAre
        <3> HIDE DEF S
        <3>4. typed \in Seq(Alphabet)
            BY <3>2, <3>3, SeqMonotonic
        <3>5. Slash \in Seq(Alphabet)
            BY <3>3 DEF Slash
        <3>6. IsPrefix(Slash, Slash \o typed)
            BY <3>4, <3>5, PartsStand
        <3> QED BY <3>1, <3>4, <3>5, <3>6
    <2>4. d[3] \in Nat
        BY <2>1
    <2> QED BY <2>2, <2>3, <2>4, EnterSends
<1> HIDE DEF All
<1> QED BY <1>1, Zenon DEF MissentDrafts, All

\* Picking a row in any of the three menus leads one step down or ends:
\* mentions, working directories and commands (MentionAutocomplete.tsx,
\* PathAutocomplete.tsx, SlashMenu.tsx).
THEOREM FieldsCorrect == Spec => []FieldsDescend
<1>1. MispickedMentions = {} /\ MispickedPaths = {} /\ MissentDrafts = {}
    BY NothingMispicked, NoPathMispicked, NothingMissent
<1>2. FieldsDescend
    BY <1>1, Zenon DEF FieldsDescend, MentionPickDescends, PathPickDescends, EnterPicksThenSends
<1> QED BY <1>2, PTL
=============================================================================
