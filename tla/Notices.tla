------------------------------ MODULE Notices ------------------------------
(***************************************************************************)
(* What a push shows on a device: the payload the hub builds               *)
(* (push-topics.ts), its delivery to each subscription (push.ts) and the   *)
(* service worker of the PWA (sw.js), in whose tray a notice replaces the  *)
(* one with its tag.                                                       *)
(*                                                                         *)
(* A device is its tray, a set of notices, and its open windows.  The ids  *)
(* of requests are taken to be unique across daemons.                      *)
(***************************************************************************)
EXTENDS Integers, SequencesExt

Permission(d, s, r) == [kind |-> "permission", daemon |-> d, session |-> s, request |-> r]
IdleOf(d, s) == [kind |-> "idle", daemon |-> d, session |-> s, request |-> "none"]

\* build_payload of the two topics
Tag(ctx) ==
    IF ctx.kind = "permission" THEN <<"permission", ctx.request>> ELSE <<"idle", ctx.daemon, ctx.session>>

BuildPayload(ctx) == [tag |-> Tag(ctx), data |-> ctx, stays |-> ctx.kind = "permission"]

\* The payload of a push without JSON, as the service worker takes it.
Unread == [tag |-> <<"cc-remote">>, data |-> [kind |-> "none"], stays |-> FALSE]

\* The worker's "push" handler: showNotification().
Shown(device, payload) ==
    [device EXCEPT !.tray = {n \in @ : n.tag # payload.tag} \cup {payload}]

\* sendTo(): to each subscription on its own; an error is logged.
SendTo(devices, payload, gone) ==
    [d \in DOMAIN devices |-> IF d \in gone THEN devices[d] ELSE Shown(devices[d], payload)]

\* "notificationclick": focuses a window that is open, or opens one.
Click(device, notice) ==
    [tray |-> device.tray \ {notice}, windows |-> IF device.windows = 0 THEN 1 ELSE device.windows]

-----------------------------------------------------------------------------
(* Small histories of two devices, and what their trays must hold *)

Contexts == {Permission("d1", "s", "r1"), Permission("d1", "s", "r2"),
             IdleOf("d1", "s"), IdleOf("d1", "t"), IdleOf("d2", "s")}
SomeDevices == {"phone", "laptop"}

\* A push that fails on the devices `gone`, and a click on the phone on
\* the notice of a context, when it is there.
Pushes == [act : {"push"}, ctx : Contexts, gone : {{}, {"laptop"}}]
Garbled == [act : {"garbled"}]
Clicks == [act : {"click"}, ctx : Contexts]
TrayHistories == UNION {[1 .. n -> Pushes \cup Garbled \cup Clicks] : n \in 0 .. 3}

NoticesOf(device, ctx) == {n \in device.tray : n.data = ctx}
Step(devices, e) ==
    CASE e.act = "push" -> SendTo(devices, BuildPayload(e.ctx), e.gone)
      [] e.act = "garbled" -> SendTo(devices, Unread, {})
      [] e.act = "click" ->
           IF NoticesOf(devices["phone"], e.ctx) = {} THEN devices
           ELSE [devices EXCEPT !["phone"] = Click(@, CHOOSE n \in NoticesOf(@, e.ctx) : TRUE)]

\* What a device was told of and has not clicked away.
Untended(h, d) ==
    {ctx \in Contexts :
        \E i \in DOMAIN h :
            /\ h[i].act = "push" /\ h[i].ctx = ctx /\ d \notin h[i].gone
            /\ d = "phone" => \A j \in i + 1 .. Len(h) : ~(h[j].act = "click" /\ h[j].ctx = ctx)}

\* TrayHistories after which a tray does not hold exactly one notice of what is untended.
WrongTrays ==
    {h \in TrayHistories :
        LET devices == FoldLeft(Step, [d \in SomeDevices |-> [tray |-> {}, windows |-> 0]], h) IN
        \E d \in SomeDevices :
            \/ \E ctx \in Contexts :
                  Cardinality(NoticesOf(devices[d], ctx)) # IF ctx \in Untended(h, d) THEN 1 ELSE 0
            \/ devices[d].windows > 1}
=============================================================================
