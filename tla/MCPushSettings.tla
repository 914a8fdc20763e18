--------------------------- MODULE MCPushSettings ---------------------------
(***************************************************************************)
(* Instances of PushSettings for TLC, and the property of Notices, a       *)
(* formula without variables: evaluated in the initial states only.        *)
(***************************************************************************)
EXTENDS PushSettings, Notices

CONSTANTS chrome, safari, permission, idle

\* One minute of each part of the day the two boundaries cut, and the boundaries.
Minutes == {0, 419, 420, 1319, 1320}

\* A device holds one notice for each request and for each session that went
\* idle since it was last tapped: repeats replace it, other requests,
\* sessions and daemons and pushes that cannot be read do not, and a device
\* that is gone keeps none from the others (push-topics.ts, push.ts, sw.js).
OneNoticeEach == PushInit => WrongTrays = {}

\* A push is sent exactly to the devices whose owner's settings page says so,
\* to none that is revoked, and leaves one notice for each event.
PushesAreWanted ==
    /\ PushTypeOK /\ OneDevicePerLogin /\ RevokedGetsNothing
    /\ ShownIsStored /\ PushAsShown /\ OneNoticeEach
=============================================================================
