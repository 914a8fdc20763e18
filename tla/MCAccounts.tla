----------------------------- MODULE MCAccounts -----------------------------
(***************************************************************************)
(* Instances of Accounts for TLC, and the properties of Edge and Setup.    *)
(* These are formulas without variables: evaluated in the initial states   *)
(* only.                                                                   *)
(***************************************************************************)
EXTENDS Accounts, Edge, Setup

CONSTANTS m1, m2, d1, d2, c1, c2, u1, u2

\* Two machines of one name, as two laptops fresh from the same image have.
SameName == [m \in Machines |-> d1]

\* An address is in a prefix of HUB_TRUSTED_PROXIES exactly when the two
\* agree in its leading bits, an IPv4 address also as ::ffff:a.b.c.d
\* (inCidr, byte by byte with a mask for the last).
PrefixesMatch == Init => MisplacedAddresses = {}

\* The address the limiter is keyed on and the URL DPoP proofs are made for
\* are, behind a proxy the hub trusts, what the request was when it last came
\* to a proxy that overwrites their header: the client's own if that is the
\* outermost one.  Where every proxy only adds to a header, the first hop is
\* believed, which is the client's own if it sent none, and else whatever the
\* client wrote.  From any other peer no header counts (resolveRequest).
HeadersAreWeighed == Init => Misresolved = {}

\* The limiter refuses a request exactly when its key had its number in the
\* window before it, whatever was trimmed or collected in between.
LimiterIsExact == Init => Misjudged = {}

\* "Periodic GC drops empty buckets so memory stays bounded": two windows
\* after its last request a bucket is gone, at the next one let through.
BucketsAreForgotten == Init => Unforgotten = {}

\* However init, pairing, hand edits and damage to config.json follow each
\* other, pairing keeps every setting of a file that parses and leaves a
\* daemon that loads under the name of its token, and no start of the daemon
\* touches an mcp-config.json that is there.  Excepted: init --force, which
\* is asked to overwrite, and which leaves the name of the host.
EditsSurvive == Init => LostEdits = {}

\* Where nothing runs, an installation whose commands succeed runs the unit
\* it has just written, now and after a reboot, whatever installations that
\* failed half-way, upgrades and removals came before (installer.ts).
InstallRunsWhatItWrote == Init => OldUnits = {}

\* After uninstall nothing of the daemon runs, is enabled or comes back with
\* a reboot, from wherever an installation stopped.
UninstallLeavesNothing == Init => Leftovers = {}

\* init writes a spawn_command with a program a login shell has found, or
\* warns; an alias is not taken for a program (login-shell.ts).
NoSilentMisses == Init => SilentMisses = {}

\* The PATH that launchd reads from the plist is the one captured, whatever
\* letters XML gives a meaning it holds.
PathReadsBack == Init => MisreadPaths = {}

\* In front of the hub, prefixes, headers and limits are taken for what they
\* are, a client's own headers among them.
FrontIsExact == PrefixesMatch /\ HeadersAreWeighed /\ LimiterIsExact /\ BucketsAreForgotten

\* On the machine of the daemon, what is set up is kept, what is installed
\* runs, and what is uninstalled is gone.
SetupIsWhole ==
    /\ EditsSurvive /\ InstallRunsWhatItWrote /\ UninstallLeavesNothing
    /\ NoSilentMisses /\ PathReadsBack
=============================================================================
