------------------------------ MODULE Accounts ------------------------------
(***************************************************************************)
(* How a daemon gets, keeps and loses the right to connect: the hub's      *)
(* tables of pairing codes and daemons, /pair, /pair/refresh and the check *)
(* of a dial, the cc-remote commands init, pair and rotate-token with the  *)
(* files they write, and the daemon that reads those files once, at boot.  *)
(*                                                                         *)
(* A handler that awaits a signature is two steps, and what it read before *)
(* may be stale in the second.  A token stands for its jti; 0 is no token. *)
(* Every machine signs with the key of its own state directory, which no   *)
(* step of the program moves, so the DPoP proof of a request is not        *)
(* modelled.  One cc-remote command runs at a time on a machine.           *)
(***************************************************************************)
EXTENDS Naturals, FiniteSets

CONSTANTS
    Machines,      \* state directories
    Ids,           \* daemon ids
    Hostname,      \* the id a machine has when none is given
    Codes,         \* pairing codes
    Users,         \* subjects signed in on a PWA
    MaxTokens,     \* bound: tokens the hub signs
    MaxFaults,     \* bound: commands killed, answers lost, daemons and links that die
    MaxCommands    \* bound: cc-remote commands and revocations

None == "none"

ASSUME NamesAssumption == Hostname \in [Machines -> Ids] /\ None \notin Machines \cup Ids \cup Codes \cup Users
ASSUME BoundsAssumption == {MaxTokens, MaxFaults, MaxCommands} \subseteq Nat

VARIABLES
    code,      \* of each pairing code: its state and its issuer
    row,       \* of each daemon id: its row in daemons
    issued,    \* tokens signed so far
    sub,       \* of each token: the daemon id it was signed for
    expired,   \* the tokens past their exp
    asks,      \* requests of the commands, the hub at work on them
    cli,       \* of each machine: the command that runs
    disk,      \* of each machine: config.json and state.json
    mem,       \* of each machine: what its daemon read at boot
    dial,      \* of each machine: its daemon's dial
    link,      \* of each id: the connection in DaemonRegistry, and its hello
    lost,      \* tokens given up: their command died, or its machine paired again
    faults, commands

hub == <<code, row, issued, sub>>
machine == <<cli, disk>>
daemon == <<mem, dial>>
spent == <<faults, commands>>
vars == <<hub, expired, asks, machine, daemon, link, lost, spent>>

Tokens == 0..MaxTokens
Idle == [at |-> "idle"]
NoRow == [owner |-> None, by |-> None, jti |-> 0, revoked |-> FALSE]
NoState == [id |-> None, jwt |-> 0]
NoLink == [m |-> None, hello |-> "none"]

Init ==
    /\ code = [c \in Codes |-> [is |-> "new", by |-> None]]
    /\ row = [d \in Ids |-> NoRow]
    /\ issued = 0 /\ expired = {} /\ lost = {} /\ asks = {}
    /\ sub = [t \in 1..MaxTokens |-> None]
    /\ cli = [m \in Machines |-> Idle]
    /\ disk = [m \in Machines |-> NoState]
    /\ mem = [m \in Machines |-> NoState]
    /\ dial = [m \in Machines |-> None]
    /\ link = [d \in Ids |-> NoLink]
    /\ faults = 0 /\ commands = 0

Known(d) == row[d] # NoRow
Accepts(d, t) == Known(d) /\ ~row[d].revoked /\ t # 0 /\ t \notin expired /\ row[d].jti = t

Command == commands < MaxCommands /\ commands' = commands + 1 /\ UNCHANGED faults
Fault == faults < MaxFaults /\ faults' = faults + 1 /\ UNCHANGED commands
-----------------------------------------------------------------------------
(* The PWA: issue a code, revoke a daemon.                                 *)

PairIssue(c, u) ==
    /\ code[c].is = "new"
    /\ code' = [code EXCEPT ![c] = [is |-> "issued", by |-> u]]
    /\ UNCHANGED <<row, issued, sub, expired, asks, machine, daemon, link, lost, spent>>

CodeExpires(c) ==
    /\ code[c].is = "issued"
    /\ code' = [code EXCEPT ![c].is = "expired"]
    /\ UNCHANGED <<row, issued, sub, expired, asks, machine, daemon, link, lost, spent>>

\* The router closes the connections it has a daemon for, and it has one from
\* the hello on: a connection that has yet to say hello is left alone.
CloseDaemonConnection(d) ==
    link' = IF link[d].hello \in {"handled", "late"} THEN [link EXCEPT ![d] = NoLink] ELSE link

Revoke(u, d) ==
    /\ Known(d) /\ row[d].owner = u /\ ~row[d].revoked
    /\ Command
    /\ row' = [row EXCEPT ![d].revoked = TRUE, ![d].jti = 0]
    /\ CloseDaemonConnection(d)
    /\ UNCHANGED <<code, issued, sub, expired, asks, machine, daemon, lost>>

Expire(t) ==
    /\ t \in 1..issued \ expired
    /\ expired' = expired \cup {t}
    /\ UNCHANGED <<hub, asks, machine, daemon, link, lost, spent>>
-----------------------------------------------------------------------------
(* The commands.  init writes a config; pair and rotate-token ask the hub  *)
(* and write the answer.                                                   *)

Configure(m) ==
    /\ cli[m] = Idle /\ Command
    /\ disk' = [disk EXCEPT ![m].id = Hostname[m]]
    /\ UNCHANGED <<hub, expired, asks, cli, daemon, link, lost>>

Pair(m, c, d) ==
    /\ cli[m] = Idle /\ code[c].is # "new" /\ Command
    /\ asks' = asks \cup {[m |-> m, n |-> commands', kind |-> "pair", id |-> d,
                           code |-> c, at |-> "sent", jwt |-> 0]}
    /\ cli' = [cli EXCEPT ![m] = [at |-> "waiting", n |-> commands']]
    /\ UNCHANGED <<hub, expired, disk, daemon, link, lost>>

\* The request shows the token alone: the hub takes the id from its sub,
\* whatever id init has written since.
RotateToken(m) ==
    /\ cli[m] = Idle /\ disk[m].id # None /\ disk[m].jwt # 0 /\ Command
    /\ asks' = asks \cup {[m |-> m, n |-> commands', kind |-> "refresh", id |-> sub[disk[m].jwt],
                           code |-> None, at |-> "sent", jwt |-> disk[m].jwt]}
    /\ cli' = [cli EXCEPT ![m] = [at |-> "waiting", n |-> commands']]
    /\ UNCHANGED <<hub, expired, disk, daemon, link, lost>>

Waits(q) == cli[q.m].at = "waiting" /\ cli[q.m].n = q.n

\* An answer of an error ends the command, if it still waits.
Refuse(q) ==
    /\ asks' = asks \ {q}
    /\ cli' = IF Waits(q) THEN [cli EXCEPT ![q.m] = Idle] ELSE cli

Advance(q, at) == asks' = (asks \ {q}) \cup {[q EXCEPT !.at = at]} /\ UNCHANGED cli

\* Mutant: the row is made and the code is still there.
PairDaemonConsumesLate(q) ==
    /\ q \in asks /\ q.kind = "pair" /\ q.at = "sent"
    /\ \/ /\ Known(q.id) \/ code[q.code].is # "issued"
          /\ Refuse(q) /\ UNCHANGED <<code, row>>
       \/ /\ ~Known(q.id) /\ code[q.code].is = "issued"
          /\ row' = [row EXCEPT ![q.id] = [owner |-> code[q.code].by, by |-> q.code,
                                           jti |-> 0, revoked |-> FALSE]]
          /\ Advance(q, "signing") /\ UNCHANGED code
    /\ UNCHANGED <<issued, sub, expired, disk, daemon, link, lost, spent>>

\* findDaemon, consumeCode and pairDaemon run in one go, before the
\* signature and after the await on the key.
PairDaemon(q) ==
    /\ q \in asks /\ q.kind = "pair" /\ q.at = "sent"
    /\ \/ /\ Known(q.id) \/ code[q.code].is # "issued"
          /\ Refuse(q) /\ UNCHANGED <<code, row>>
       \/ /\ ~Known(q.id) /\ code[q.code].is = "issued"
          /\ code' = [code EXCEPT ![q.code].is = "consumed"]
          /\ row' = [row EXCEPT ![q.id] = [owner |-> code[q.code].by, by |-> q.code,
                                           jti |-> 0, revoked |-> FALSE]]
          /\ Advance(q, "signing")
    /\ UNCHANGED <<issued, sub, expired, disk, daemon, link, lost, spent>>

RefreshVerifies(q) ==
    /\ q \in asks /\ q.kind = "refresh" /\ q.at = "sent"
    /\ IF Accepts(q.id, q.jwt) THEN Advance(q, "verified") ELSE Refuse(q)
    /\ UNCHANGED <<hub, expired, disk, daemon, link, lost, spent>>

RefreshJwt(q) ==
    /\ q \in asks /\ q.kind = "refresh" /\ q.at = "verified"
    /\ IF row[q.id].revoked THEN Refuse(q) ELSE Advance(q, "signing")
    /\ UNCHANGED <<hub, expired, disk, daemon, link, lost, spent>>

\* The signature is there: setJwtId, and the answer leaves.
SetJwtId(q) ==
    /\ q \in asks /\ q.at = "signing" /\ issued < MaxTokens
    /\ issued' = issued + 1
    /\ row' = [row EXCEPT ![q.id].jti = issued']
    /\ sub' = [sub EXCEPT ![issued'] = q.id]
    /\ asks' = asks \ {q}
    /\ IF Waits(q)
       THEN /\ cli' = [cli EXCEPT ![q.m] =
                  [at |-> "answered", kind |-> q.kind, id |-> q.id, jwt |-> issued']]
            /\ UNCHANGED lost
       ELSE lost' = lost \cup {issued'} /\ UNCHANGED cli
    /\ UNCHANGED <<code, expired, disk, daemon, link, spent>>

\* pair writes config.json, by a rename, before state.json.
SaveConfig(m) ==
    /\ cli[m].at = "answered" /\ cli[m].kind = "pair"
    /\ disk' = [disk EXCEPT ![m].id = cli[m].id]
    /\ cli' = [cli EXCEPT ![m].kind = "save"]
    /\ UNCHANGED <<hub, expired, asks, daemon, link, lost, spent>>

\* state.json is truncated, then written.  A machine that pairs again gives
\* up the token it had.
OpenState(m) ==
    /\ cli[m].at = "answered" /\ cli[m].kind # "pair"
    /\ disk' = [disk EXCEPT ![m].jwt = 0]
    /\ cli' = [cli EXCEPT ![m].at = "writing"]
    /\ lost' = IF cli[m].kind = "save" THEN lost \cup ({disk[m].jwt} \ {0}) ELSE lost
    /\ UNCHANGED <<hub, expired, asks, daemon, link, spent>>

WriteState(m) ==
    /\ cli[m].at = "writing"
    /\ disk' = [disk EXCEPT ![m].jwt = cli[m].jwt]
    /\ cli' = [cli EXCEPT ![m] = Idle]
    /\ UNCHANGED <<hub, expired, asks, daemon, link, lost, spent>>

\* The command is killed, or its answer lost on the way.
CommandDies(m) ==
    /\ cli[m] # Idle /\ Fault
    /\ lost' = IF cli[m].at \in {"answered", "writing"} THEN lost \cup {cli[m].jwt} ELSE lost
    /\ cli' = [cli EXCEPT ![m] = Idle]
    /\ UNCHANGED <<hub, expired, asks, disk, daemon, link>>
-----------------------------------------------------------------------------
(* The daemon reads its files once and dials until it is let in.           *)

Boot(m) ==
    /\ mem[m] = NoState /\ disk[m].id # None
    /\ mem' = [mem EXCEPT ![m] = disk[m]]
    /\ UNCHANGED <<hub, expired, asks, machine, dial, link, lost, spent>>

Linked(m) == mem[m] # NoState /\ link[mem[m].id].m = m

Unlink(m) == [d \in Ids |-> IF link[d].m = m THEN NoLink ELSE link[d]]

DaemonDies(m) ==
    /\ mem[m] # NoState /\ Fault
    /\ mem' = [mem EXCEPT ![m] = NoState]
    /\ dial' = [dial EXCEPT ![m] = None]
    /\ link' = Unlink(m)
    /\ UNCHANGED <<hub, expired, asks, machine, lost>>

Dial(m) ==
    /\ mem[m] # NoState /\ ~Linked(m) /\ dial[m] = None
    /\ dial' = [dial EXCEPT ![m] = "sent"]
    /\ UNCHANGED <<hub, expired, asks, machine, mem, link, lost, spent>>

\* verifyDaemonAuth looks the row up; a refused dial is tried again.
VerifyDaemonAuth(m) ==
    /\ dial[m] = "sent"
    /\ dial' = [dial EXCEPT ![m] = IF Accepts(mem[m].id, mem[m].jwt) THEN "verified" ELSE None]
    /\ UNCHANGED <<hub, expired, asks, machine, mem, link, lost, spent>>

\* After the awaits on the proof the socket is upgraded and registered; the
\* connection that was there is closed as replaced, and its close handler
\* has the router forget its daemon.
Accept(m) ==
    /\ dial[m] = "verified"
    /\ dial' = [dial EXCEPT ![m] = None]
    /\ link' = [link EXCEPT ![mem[m].id] = [m |-> m, hello |-> "awaited"]]
    /\ UNCHANGED <<hub, expired, asks, machine, mem, lost, spent>>

\* The daemon's first frame puts it online: the router makes its entry and
\* does not look at the row's revoked_at.  "late" is a hello handled after
\* the revocation.
Hello(d) ==
    /\ link[d].hello = "awaited"
    /\ link' = [link EXCEPT ![d].hello = IF row[d].revoked THEN "late" ELSE "handled"]
    /\ UNCHANGED <<hub, expired, asks, machine, daemon, lost, spent>>

\* Mutant: a daemon that loses its connection does not dial again.
LinkDropsForGood(d) ==
    /\ link[d] # NoLink /\ Fault
    /\ link' = [link EXCEPT ![d] = NoLink]
    /\ dial' = [dial EXCEPT ![link[d].m] = "stopped"]
    /\ UNCHANGED <<hub, expired, asks, machine, mem, lost>>

LinkDrops(d) ==
    /\ link[d] # NoLink /\ Fault
    /\ link' = [link EXCEPT ![d] = NoLink]
    /\ UNCHANGED <<hub, expired, asks, machine, daemon, lost>>
-----------------------------------------------------------------------------
HubNext == \E q \in asks : PairDaemon(q) \/ RefreshVerifies(q) \/ RefreshJwt(q) \/ SetJwtId(q)

MachineNext(m) ==
    \/ SaveConfig(m) \/ OpenState(m) \/ WriteState(m) \/ CommandDies(m)
    \/ Configure(m) \/ RotateToken(m) \/ \E c \in Codes, d \in Ids : Pair(m, c, d)
    \/ Boot(m) \/ DaemonDies(m) \/ Dial(m) \/ VerifyDaemonAuth(m) \/ Accept(m)

Next ==
    \/ HubNext
    \/ \E m \in Machines : MachineNext(m)
    \/ \E c \in Codes : CodeExpires(c) \/ \E u \in Users : PairIssue(c, u)
    \/ \E d \in Ids : Hello(d) \/ LinkDrops(d) \/ \E u \in Users : Revoke(u, d)
    \/ \E t \in Tokens : Expire(t)

Spec == Init /\ [][Next]_vars

\* The backoff timer dials again and the hub answers every dial.
FairSpec ==
    /\ Spec
    /\ \A m \in Machines : WF_vars(Dial(m)) /\ WF_vars(VerifyDaemonAuth(m)) /\ WF_vars(Accept(m))
-----------------------------------------------------------------------------
Hellos == {"none", "awaited", "handled", "late"}
Row == [owner : Users, by : Codes, jti : Tokens, revoked : BOOLEAN]

(* Every table, file and connection holds what its code can put there. *)
TypeOK ==
    /\ code \in [Codes -> [is : {"new", "issued", "consumed", "expired"}, by : Users \cup {None}]]
    /\ row \in [Ids -> Row \cup {NoRow}]
    /\ sub \in [1..MaxTokens -> Ids \cup {None}] /\ \A t \in 1..issued : sub[t] \in Ids
    /\ issued \in Tokens /\ expired \subseteq 1..issued /\ lost \subseteq 1..issued
    /\ disk \in [Machines -> [id : Ids \cup {None}, jwt : 0..issued]]
    /\ mem \in [Machines -> [id : Ids \cup {None}, jwt : 0..issued]]
    /\ dial \in [Machines -> {None, "sent", "verified", "stopped"}]
    /\ link \in [Ids -> [m : Machines \cup {None}, hello : Hellos]]
    /\ \A q \in asks : q.at \in {"sent", "verified", "signing"} /\ (q.at = "signing" => Known(q.id))

(***************************************************************************)
(* A code pairs one daemon at most, and for the user it was issued to,     *)
(* however many pair commands carry it at once (handlePair, consumeCode).  *)
(***************************************************************************)
CodePairsOnce ==
    \A c \in Codes :
        /\ Cardinality({d \in Ids : Known(d) /\ row[d].by = c}) <= 1
        /\ \A d \in Ids : Known(d) /\ row[d].by = c => row[d].owner = code[c].by

(***************************************************************************)
(* The token the hub accepts is never one that nobody has: it is on a      *)
(* disk, in the hands of a command that has yet to write it, or was given  *)
(* up with a command that died or by a machine that paired again.  So a    *)
(* lost answer, an expiry or a revocation locks a machine out, never the   *)
(* order in which the hub and the commands take their steps (refreshJwt,   *)
(* cmdDaemonRotateToken).                                                  *)
(***************************************************************************)
CurrentIsHeld ==
    \A d \in Ids : Known(d) /\ row[d].jti # 0 =>
        \/ row[d].jti \in lost
        \/ \E m \in Machines :
              \/ disk[m].jwt = row[d].jti
              \/ cli[m].at \in {"answered", "writing"} /\ cli[m].jwt = row[d].jti

(***************************************************************************)
(* No connection whose hello was handled before the revocation is open     *)
(* after it, however dials, evictions and drops of several machines of one *)
(* id mix with it.  What a revoked daemon may still have was checked before*)
(* the revocation and said no hello before it: it was between the check    *)
(* and the upgrade, or between the upgrade and its hello, and goes online  *)
(* by that hello (DELETE /daemons, closeDaemonConnection, /ws/daemon).     *)
(***************************************************************************)
RevokedIsClosed ==
    \A d \in Ids : Known(d) /\ row[d].revoked => link[d].hello # "handled"

(***************************************************************************)
(* A daemon that runs with a token the hub accepts gets its connection,    *)
(* through drops and refused dials, unless the token ceases to be accepted *)
(* or the daemon dies (hub-client's backoff, verifyDaemonAuth).            *)
(***************************************************************************)
LetInAtLast ==
    \A m \in Machines :
        (mem[m] # NoState /\ Accepts(mem[m].id, mem[m].jwt))
            ~> (mem[m] = NoState \/ ~Accepts(mem[m].id, mem[m].jwt) \/ Linked(m))

\* Access is exact: a code pairs one machine, the token a machine holds is
\* the current one as far as no answer was lost, and who was online when it
\* was revoked is cut off.
AccessIsExact == TypeOK /\ CodePairsOnce /\ CurrentIsHeld /\ RevokedIsClosed
=============================================================================
