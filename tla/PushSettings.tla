---------------------------- MODULE PushSettings ----------------------------
(***************************************************************************)
(* Who gets which push: sign-in and the devices it makes (ias.ts,          *)
(* devices.ts), the push subscription of a browser (push.ts), the settings *)
(* page with its optimistic changes (usePushTopics.ts, SettingsDrawer.tsx) *)
(* and the hub's choice of targets (push-dispatch.ts).                     *)
(*                                                                         *)
(* One browser, one daemon.  Every HTTP request is a record that goes from *)
(* "sent" to "let_in" (authenticatePwa, before the body is awaited) and    *)
(* from there to an answer; requests overtake each other.                  *)
(***************************************************************************)
EXTENDS Naturals, FiniteSets, FiniteSetsExt

CONSTANTS
    Devices,       \* devices a sign-in can make
    Topics,        \* PUSH_TOPICS
    OnByDefault,   \* the topics with default_enabled
    Bypass,        \* the topics with bypass_dnd
    MaxLogins,     \* bound: sign-ins started
    MaxFails,      \* bound: requests or answers lost, pages reloaded
    MaxEvents,     \* bound: those and the settings changed, together
    Times          \* minutes of the day the model tells apart

Absent == "none"
Evening == "22:00"
Morning == "07:00"
Blank == ""

ASSUME TopicsAssumption == OnByDefault \subseteq Topics /\ Bypass \subseteq Topics
ASSUME DevicesAssumption == Absent \notin Devices
ASSUME PushBoundsAssumption == {MaxLogins, MaxFails, MaxEvents} \subseteq Nat

VARIABLES
    states,    \* pendingStates: the sign-ins whose callback is awaited
    exchange,  \* callbacks that wait for the token endpoint: a bag [Login -> Nat]
    made,      \* of each sign-in: the devices made for it
    status,    \* of each device: "none", "live" or "revoked"
    rows,      \* topic_subscriptions: of each device, key by key
    quiet,     \* dnd_settings
    pushSubs,  \* push_subs: the devices with an endpoint
    bearer,    \* the device the browser is signed in as, or Absent
    page,      \* status of the Resource: "loading", "error", "ready"
    shown,     \* its subscriptions and dnd
    requests,  \* HTTP requests without an answer
    doubtful,  \* history: the keys shown that a request failed on or overtook
    acts, fails

hubState == <<states, exchange, made, status, rows, quiet, pushSubs>>
browser == <<bearer, page, shown>>
pushVars == <<hubState, browser, requests, doubtful, acts, fails>>

Logins == 1 .. MaxLogins
Scopes == {"default", "daemon"}
Keys == Topics \X Scopes
RowValue == {"unset", "on", "off"}
NoRows == [k \in Keys |-> "unset"]
NoDnd == [enabled |-> FALSE, from |-> Absent, to |-> Absent]
Settings(rs, d) == [rows |-> rs, dnd |-> d]
Unset == Settings(NoRows, NoDnd)
Dnd == [enabled : BOOLEAN, from : {Absent, Blank, Evening, Morning}, to : {Absent, Blank, Evening, Morning}]
Everything == Keys \cup {<<"dnd">>}

PushInit ==
    /\ states = {} /\ exchange = [l \in Logins |-> 0] /\ made = [l \in Logins |-> {}]
    /\ status = [d \in Devices |-> "none"]
    /\ rows = [d \in Devices |-> NoRows] /\ quiet = [d \in Devices |-> NoDnd]
    /\ pushSubs = {}
    /\ bearer = Absent /\ page = "loading" /\ shown = Unset
    /\ requests = {} /\ doubtful = {} /\ acts = 0 /\ fails = 0
-----------------------------------------------------------------------------
(* Which devices a push of a topic goes to.                                *)

On(rs, t, scope) == rs[<<t, scope>>] = "on"
ResolveSubscription(rs, t) ==
    IF rs[<<t, "daemon">>] # "unset" THEN On(rs, t, "daemon")
    ELSE IF rs[<<t, "default">>] # "unset" THEN On(rs, t, "default")
    ELSE t \in OnByDefault

\* Mutant: the row of the defaults goes first.
FindActiveSubsDefaultFirst(t) ==
    {d \in pushSubs :
        /\ status[d] = "live"
        /\ IF rows[d][<<t, "default">>] # "unset" THEN On(rows[d], t, "default")
           ELSE ResolveSubscription(rows[d], t)}

FindActiveSubsForTopic(t) ==
    {d \in pushSubs : status[d] = "live" /\ ResolveSubscription(rows[d], t)}

Minute(s) == IF s = Evening THEN 1320 ELSE 420

IsInDndWindow(dnd, now) ==
    /\ dnd.enabled /\ {dnd.from, dnd.to} \cap {Absent, Blank} = {}
    /\ LET start == Minute(dnd.from)
           end == Minute(dnd.to)
       IN CASE start = end -> FALSE
            [] start < end -> start <= now /\ now < end
            [] OTHER -> start <= now \/ now < end

DispatchTopic(t, now) ==
    {d \in FindActiveSubsForTopic(t) : t \in Bypass \/ ~IsInDndWindow(quiet[d], now)}
-----------------------------------------------------------------------------
(* Sign-in: the state of a callback is good once.                          *)

StartLogin ==
    \E l \in Logins :
        /\ l \notin states /\ exchange[l] = 0 /\ made[l] = {}
        /\ states' = states \cup {l}
        /\ UNCHANGED <<exchange, made, status, rows, quiet, pushSubs, browser, requests, doubtful, acts, fails>>

Callback(l) ==
    /\ l \in states /\ exchange[l] < 2
    /\ states' = states \ {l}
    /\ exchange' = [exchange EXCEPT ![l] = @ + 1]
    /\ UNCHANGED <<made, status, rows, quiet, pushSubs, browser, requests, doubtful, acts, fails>>

\* The token endpoint refuses the code, or the subject is not allowed.
ExchangeFails(l) ==
    /\ exchange[l] > 0
    /\ exchange' = [exchange EXCEPT ![l] = @ - 1]
    /\ UNCHANGED <<states, made, status, rows, quiet, pushSubs, browser, requests, doubtful, acts, fails>>

Asks(kind, d, ks, v) == [kind |-> kind, of |-> d, at |-> "sent", keys |-> ks, value |-> v, n |-> acts]
Get(d) == Asks("get", d, Everything, Unset)
Subscribe(d) == Asks("subscribe", d, {}, Unset)

\* A page that mounts with a bearer: load() and registerPushSubscription.  The
\* browser forgets the answers of the page before.
Mounts(d, rs) ==
    /\ bearer' = d /\ page' = "loading" /\ doubtful' = {}
    /\ shown' = Unset
    /\ requests' = {[r EXCEPT !.kind = IF @ = "put" \/ @ = "delete" THEN "old" ELSE @]
                        : r \in {q \in rs : q.kind # "get" /\ q.at # "done"}}
                   \cup {Get(d), Subscribe(d)}

\* The hub makes a device and redirects the browser to the PWA with its bearer.
CreateDevice(l) ==
    /\ exchange[l] > 0
    /\ exchange' = [exchange EXCEPT ![l] = @ - 1]
    /\ \E d \in Devices :
           /\ status[d] = "none"
           /\ status' = [status EXCEPT ![d] = "live"]
           /\ made' = [made EXCEPT ![l] = @ \cup {d}]
           /\ Mounts(d, requests)
    /\ UNCHANGED <<states, rows, quiet, pushSubs, acts, fails>>

SignOut ==
    /\ bearer # Absent
    /\ bearer' = Absent
    /\ UNCHANGED <<hubState, page, shown, requests, doubtful, acts, fails>>

Reload ==
    /\ bearer # Absent /\ fails < MaxFails /\ acts + fails < MaxEvents
    /\ fails' = fails + 1
    /\ Mounts(bearer, requests)
    /\ UNCHANGED <<hubState, acts>>
-----------------------------------------------------------------------------
(* The settings page: a change is shown at once and then asked for.        *)

CanAct == bearer # Absent /\ page = "ready" /\ acts + fails < MaxEvents

\* Two requests about one key may arrive in either order.
Overtaken(ks) == {k \in ks : \E r \in requests : r.of = bearer /\ k \in r.keys /\ r.kind # "get"}

Shows(rs, d, new) ==
    /\ acts' = acts + 1
    /\ shown' = Settings(rs, d)
    /\ requests' = requests \cup new
    /\ UNCHANGED <<hubState, bearer, page, fails>>

SetSub(t, scope) ==
    LET on == IF scope = "daemon" THEN ResolveSubscription(shown.rows, t)
              ELSE ResolveSubscription([shown.rows EXCEPT ![<<t, "daemon">>] = "unset"], t)
        v == IF on THEN "off" ELSE "on"
    IN /\ CanAct
       /\ Shows([shown.rows EXCEPT ![<<t, scope>>] = v], shown.dnd,
                {Asks("put", bearer, {<<t, scope>>}, Settings([NoRows EXCEPT ![<<t, scope>>] = v], NoDnd))})
       /\ doubtful' = doubtful \cup Overtaken({<<t, scope>>})

\* setState's updater may run after the loop has read overrides: then nothing
\* is asked of the hub.
ResetDaemon(lazy) ==
    LET over == {k \in Topics \X {"daemon"} : shown.rows[k] # "unset"}
    IN /\ CanAct
       /\ Shows([k \in Keys |-> IF k \in over THEN "unset" ELSE shown.rows[k]], shown.dnd,
                IF lazy \/ over = {} THEN {} ELSE {Asks("delete", bearer, over, Unset)})
       /\ doubtful' = doubtful \cup (IF lazy THEN over ELSE Overtaken(over))

\* The fields that were never set have their defaults.
Filled(enabled, from, to) ==
    [enabled |-> enabled, from |-> IF from = Absent THEN Evening ELSE from,
     to |-> IF to = Absent THEN Morning ELSE to]

\* DndBlock: the fields may be edited before the switch or "Save DND" is clicked.
SetDnd ==
    \E enabled \in BOOLEAN, from, to \in {Absent, Blank, Evening, Morning} :
        LET edited == shown.dnd.enabled
            next == Filled(enabled, from, to)
        IN /\ CanAct
           /\ ~edited => enabled /\ from = shown.dnd.from /\ to = shown.dnd.to
           /\ edited => /\ from # Absent /\ to # Absent
                        /\ from = shown.dnd.from \/ to = shown.dnd.to
           /\ Shows(shown.rows, next, {Asks("put", bearer, {<<"dnd">>}, Settings(NoRows, next))})
           /\ doubtful' = doubtful \cup Overtaken({<<"dnd">>})

Retry ==
    /\ bearer # Absent /\ page = "error" /\ acts + fails < MaxEvents
    /\ acts' = acts + 1 /\ page' = "loading"
    /\ requests' = requests \cup {Get(bearer)}
    /\ UNCHANGED <<hubState, bearer, shown, doubtful, fails>>
-----------------------------------------------------------------------------
(* The hub.                                                                *)

Becomes(r, q) == requests' = (requests \ {r}) \cup {q}

AuthenticatePwa(r) ==
    /\ r.at = "sent"
    /\ Becomes(r, [r EXCEPT !.at = IF status[r.of] = "live" THEN "let_in" ELSE "refused"])
    /\ UNCHANGED <<hubState, browser, doubtful, acts, fails>>

Valid(r) ==
    r.kind \in {"put", "old"} /\ r.keys = {<<"dnd">>} /\ r.value.dnd.enabled
        => {r.value.dnd.from, r.value.dnd.to} \cap {Absent, Blank} = {}

Stores(r, d, k) ==
    /\ rows' = IF k = <<"dnd">> THEN rows ELSE [rows EXCEPT ![d][k] = r.value.rows[k]]
    /\ quiet' = IF k = <<"dnd">> THEN [quiet EXCEPT ![d] = r.value.dnd] ELSE quiet

\* One row of a request; "Reset to defaults" sends the next delete when the
\* last one is answered.
Store(r) ==
    /\ r.at = "let_in" /\ r.kind \in {"put", "delete", "old"}
    /\ \E k \in r.keys :
           IF Valid(r)
           THEN /\ Stores(r, r.of, k)
                /\ Becomes(r, [r EXCEPT !.at = "done", !.keys = IF r.kind = "put" THEN @ ELSE @ \ {k}])
           ELSE /\ Becomes(r, [r EXCEPT !.at = "refused"])
                /\ UNCHANGED <<rows, quiet>>
    /\ UNCHANGED <<states, exchange, made, status, pushSubs, browser, doubtful, acts, fails>>

AddPushSub(r) ==
    /\ r.at = "let_in" /\ r.kind = "subscribe"
    /\ pushSubs' = pushSubs \cup {r.of}
    /\ requests' = requests \ {r}
    /\ UNCHANGED <<states, exchange, made, status, rows, quiet, browser, doubtful, acts, fails>>

\* What the answer carries; a change that is under way may not be in it.
List(r) ==
    /\ r.at = "let_in" /\ r.kind = "get"
    /\ Becomes(r, [r EXCEPT !.at = "done", !.value = Settings(rows[r.of], quiet[r.of]),
                            !.keys = UNION {q.keys : q \in {x \in requests : x.of = r.of /\ x.kind \in {"old", "put", "delete"}}}])
    /\ UNCHANGED <<hubState, browser, doubtful, acts, fails>>

\* DELETE /devices/:id of another client of the owner.
RevokeDevice(d) ==
    /\ status[d] = "live"
    /\ status' = [status EXCEPT ![d] = "revoked"]
    /\ pushSubs' = pushSubs \ {d}
    /\ UNCHANGED <<states, exchange, made, rows, quiet, browser, requests, doubtful, acts, fails>>
-----------------------------------------------------------------------------
(* The answer reaches the page, or the request fails.                      *)

Answered(r) ==
    /\ r.at = "done"
    /\ \/ /\ r.kind = "get" /\ bearer = r.of
          /\ page' = "ready" /\ shown' = r.value /\ doubtful' = r.keys
          /\ requests' = requests \ {r}
       \/ /\ r.kind = "delete" /\ r.keys # {} /\ bearer = r.of
          /\ Becomes(r, [r EXCEPT !.at = "sent"])
          /\ UNCHANGED <<page, shown, doubtful>>
       \/ /\ \/ r.kind \in {"put", "old"} \/ (r.kind = "delete" /\ r.keys = {})
             \/ r.kind \in {"get", "delete"} /\ bearer # r.of
          /\ requests' = requests \ {r}
          /\ UNCHANGED <<page, shown, doubtful>>
    /\ UNCHANGED <<hubState, bearer, acts, fails>>

Fails(r) ==
    /\ requests' = requests \ {r}
    /\ page' = IF r.kind = "get" /\ bearer = r.of THEN "error" ELSE page
    /\ doubtful' = IF r.kind \in {"put", "delete"} THEN doubtful \cup r.keys ELSE doubtful
    /\ UNCHANGED <<hubState, bearer, shown, acts>>

Refused(r) == r.at = "refused" /\ Fails(r) /\ UNCHANGED fails

\* The network loses a request, or its answer: the page cannot tell which.
Lost(r) == r.at \in {"sent", "done"} /\ fails < MaxFails /\ acts + fails < MaxEvents /\ fails' = fails + 1 /\ Fails(r)

Page ==
    \/ SignOut \/ Reload \/ Retry \/ SetDnd
    \/ \E t \in Topics, scope \in Scopes : SetSub(t, scope)
    \/ \E lazy \in BOOLEAN : ResetDaemon(lazy)

RequestNext(r) ==
    \/ AuthenticatePwa(r) \/ Store(r) \/ AddPushSub(r) \/ List(r)
    \/ Answered(r) \/ Refused(r) \/ Lost(r)

PushNext ==
    \/ StartLogin
    \/ \E l \in Logins : Callback(l) \/ ExchangeFails(l) \/ CreateDevice(l)
    \/ Page
    \/ \E r \in requests : RequestNext(r)
    \/ \E d \in Devices : RevokeDevice(d)

PushSpec == PushInit /\ [][PushNext]_pushVars
-----------------------------------------------------------------------------
(* Correctness.                                                            *)

\* The variables have their types: the rows the hub holds are of the three
\* values, the requests of the four stages.
PushTypeOK ==
    /\ states \subseteq Logins /\ exchange \in [Logins -> 0 .. 2]
    /\ made \in [Logins -> SUBSET Devices]
    /\ status \in [Devices -> {"none", "live", "revoked"}]
    /\ rows \in [Devices -> [Keys -> RowValue]] /\ quiet \in [Devices -> Dnd]
    /\ pushSubs \subseteq Devices /\ bearer \in Devices \cup {Absent}
    /\ page \in {"loading", "error", "ready"}
    /\ shown.rows \in [Keys -> RowValue] /\ shown.dnd \in Dnd
    /\ \A r \in requests : r.at \in {"sent", "let_in", "done", "refused"} /\ status[r.of] # "none"
    /\ doubtful \subseteq Everything /\ acts \in 0 .. MaxEvents /\ fails \in 0 .. MaxFails

\* A sign-in makes one device, whatever becomes of the callback's address: the
\* browser may open it again while the tokens are exchanged (ias.ts deletes the
\* state before it awaits the token endpoint).
OneDevicePerLogin == \A l \in Logins : Cardinality(made[l]) <= 1

\* A device that was revoked gets no push, not even when its own
\* POST /push/subscribe passed authentication before the revocation and wrote
\* its row after it.
RevokedGetsNothing ==
    \A t \in Topics, now \in Times : \A d \in DispatchTopic(t, now) : status[d] = "live"

\* A change still under way.
Moving == UNION {r.keys : r \in {q \in requests : q.of = bearer /\ q.kind # "get"}}

\* What the page shows of a setting is what the hub holds, once the requests
\* about it were answered one by one: the optimistic copy of usePushTopics and
\* the tables agree.  Where a request failed or overtook another the page is
\* never corrected, and the setting stays doubtful until it is loaded again.
ShownIsStored ==
    bearer # Absent /\ page = "ready" =>
        /\ \A k \in Keys \ (doubtful \cup Moving) : shown.rows[k] = rows[bearer][k]
        /\ <<"dnd">> \notin doubtful \cup Moving => shown.dnd = quiet[bearer]

\* A registered browser gets the pushes its page says it gets, minute by minute
\* of the day: the page's resolveSubscription and the hub's SQL with its window
\* come to the same answer.
PushAsShown ==
    bearer # Absent /\ page = "ready" /\ doubtful \cup Moving = {} /\ bearer \in pushSubs
        /\ status[bearer] = "live" =>
        \A t \in Topics, now \in Times :
            bearer \in DispatchTopic(t, now) <=>
                /\ ResolveSubscription(shown.rows, t)
                /\ t \notin Bypass => ~IsInDndWindow(shown.dnd, now)
=============================================================================
