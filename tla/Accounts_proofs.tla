-------------------------- MODULE Accounts_proofs --------------------------
(***************************************************************************)
(* Proofs about what the hub keeps of its users and their devices: that    *)
(* access is exact for any machines, ids, codes, users and limits          *)
(* (Accounts); that a push is sent to whom the settings page says, for any *)
(* users, devices and topics (PushSettings, Notices); what its front makes *)
(* of a request (Edge); and what the command line leaves on the machine of *)
(* a daemon (Setup).  The histories of the last three are of any length.   *)
(***************************************************************************)
EXTENDS MCAccounts, MCPushSettings, Folding, FiniteSetTheorems, TLAPS

(* The inductive invariant, in parts by what they speak of.                *)

Ask == [m : Machines, n : Nat, kind : {"pair", "refresh"}, id : Ids,
        code : Codes \cup {None}, at : {"sent", "verified", "signing"}, jwt : Nat]

Waiting == [at : {"waiting"}, n : Nat]
Holding == [at : {"answered"}, kind : {"pair", "save", "refresh"}, id : Ids, jwt : Nat]
Writing == [at : {"writing"}, kind : {"save", "refresh"}, id : Ids, jwt : Nat]

CommandsInv ==
    /\ asks \subseteq Ask
    /\ cli \in [Machines -> {Idle} \cup Waiting \cup Holding \cup Writing]
    /\ commands \in Nat
    /\ \A q \in asks : q.n <= commands

\* A code was issued by a user before anybody pairs with it.
CodesInv ==
    /\ \A c \in Codes : code[c].is # "new" => code[c].by \in Users
    /\ \A q \in asks : q.kind = "pair" => q.code \in Codes

\* A row was made with a code that is consumed since, and no other row was.
RowsInv ==
    /\ \A d \in Ids : Known(d) =>
          /\ code[row[d].by].is = "consumed"
          /\ row[d].owner = code[row[d].by].by
    /\ \A d \in Ids, e \in Ids : Known(d) /\ Known(e) /\ row[d].by = row[e].by => d = e
    /\ \A q \in asks : q.at # "sent" => Known(q.id)

\* A token is of one row.
TokensInv ==
    /\ \A d \in Ids : row[d].jti \in 0..issued
    /\ \A d \in Ids, e \in Ids : row[d].jti = row[e].jti /\ row[d].jti # 0 => d = e

\* What a command that rotates is about to overwrite is not the token of a
\* row any more: it was this row's when it was verified, and is no other's.
HeldInv ==
    /\ CurrentIsHeld
    /\ \A m \in Machines : cli[m].at \in {"answered", "writing"} => cli[m].jwt \in 1..issued
    /\ \A m \in Machines : cli[m].at = "writing" => disk[m].jwt = 0
    /\ \A m \in Machines : cli[m].at = "answered" /\ cli[m].kind = "refresh" =>
          \A d \in Ids : row[d].jti = disk[m].jwt => row[d].jti = 0
    /\ \A q \in asks : q.kind = "refresh" /\ Waits(q) =>
          /\ disk[q.m].jwt = q.jwt
          /\ q.at # "sent" => \A d \in Ids : row[d].jti = q.jwt /\ q.jwt # 0 => d = q.id

AccountsInv ==
    TypeOK /\ CommandsInv /\ CodesInv /\ RowsInv /\ TokensInv /\ HeldInv /\ RevokedIsClosed

(* AccountsInv gives what the runs check.                                  *)
LEMMA InvIsExact == AccountsInv => AccessIsExact
<1> SUFFICES ASSUME AccountsInv PROVE CodePairsOnce
    BY DEF AccountsInv, HeldInv, AccessIsExact
<1> SUFFICES ASSUME NEW c \in Codes
             PROVE Cardinality({d \in Ids : Known(d) /\ row[d].by = c}) <= 1
    BY DEF CodePairsOnce, AccountsInv, RowsInv
<1> DEFINE paired == {d \in Ids : Known(d) /\ row[d].by = c}
<1>1. CASE paired = {}
  <2>1. Cardinality({}) = 0
      BY FS_EmptySet
  <2> QED BY <1>1, <2>1
<1>2. CASE paired # {}
  <2>1. PICK d \in paired : TRUE
      BY <1>2
  <2>2. paired = {d}
      BY <2>1 DEF AccountsInv, RowsInv
  <2>3. Cardinality({d}) = 1
      BY FS_Singleton
  <2> QED BY <2>2, <2>3
<1> QED BY <1>1, <1>2

(* The first state.                                                        *)
LEMMA InitInv == Init => AccountsInv
<1> SUFFICES ASSUME Init PROVE AccountsInv
    OBVIOUS
<1> USE NamesAssumption, BoundsAssumption
<1>1. \A d \in Ids : ~Known(d) /\ row[d].jti = 0
    BY DEF Init, Known, NoRow
<1>2. TypeOK
  <2>1. /\ code \in [Codes -> [is : {"new", "issued", "consumed", "expired"}, by : Users \cup {None}]]
        /\ row \in [Ids -> Row \cup {NoRow}]
        /\ issued \in Tokens /\ expired \subseteq 1..issued /\ lost \subseteq 1..issued
        /\ sub \in [1..MaxTokens -> Ids \cup {None}] /\ \A t \in 1..issued : sub[t] \in Ids
        /\ disk \in [Machines -> [id : Ids \cup {None}, jwt : 0..issued]]
        /\ mem \in [Machines -> [id : Ids \cup {None}, jwt : 0..issued]]
        /\ dial \in [Machines -> {None, "sent", "verified", "stopped"}]
      BY DEF Init, Tokens, NoState
  <2>2. link \in [Ids -> [m : Machines \cup {None}, hello : Hellos]]
      BY DEF Init, NoLink, Hellos
  <2> QED BY <2>1, <2>2 DEF TypeOK, Init
<1>3. CommandsInv
    BY DEF Init, CommandsInv, Idle
<1>4. CodesInv /\ RowsInv /\ TokensInv
    BY <1>1 DEF Init, CodesInv, RowsInv, TokensInv
<1>5. HeldInv
    BY <1>1 DEF Init, HeldInv, CurrentIsHeld, Idle
<1>6. RevokedIsClosed
    BY <1>1 DEF RevokedIsClosed, Known
<1> QED BY <1>2, <1>3, <1>4, <1>5, <1>6 DEF AccountsInv

-----------------------------------------------------------------------------
(* What a step leaves alone.                                               *)

LEMMA TypesStand ==
    ASSUME TypeOK, UNCHANGED vars PROVE TypeOK'
BY DEF TypeOK, Known, vars, hub, machine, daemon

LEMMA TablesStand ==
    ASSUME UNCHANGED <<code, row, issued, asks>>
    PROVE  (CodesInv => CodesInv') /\ (RowsInv => RowsInv') /\ (TokensInv => TokensInv')
BY DEF CodesInv, RowsInv, TokensInv, Known

LEMMA CommandsStand ==
    ASSUME UNCHANGED <<asks, cli>>, commands' \in Nat, commands' >= commands
    PROVE  CommandsInv => CommandsInv'
BY DEF CommandsInv, Ask

LEMMA HeldStands ==
    ASSUME UNCHANGED <<row, issued, asks, cli, disk, lost>>
    PROVE  HeldInv => HeldInv'
<1> SUFFICES ASSUME HeldInv PROVE HeldInv'
    OBVIOUS
<1>1. CurrentIsHeld'
    BY DEF HeldInv, CurrentIsHeld, Known
<1> QED BY <1>1 DEF HeldInv, Waits

LEMMA ClosedStands ==
    ASSUME UNCHANGED <<row, link>> PROVE RevokedIsClosed => RevokedIsClosed'
BY DEF RevokedIsClosed, Known

LEMMA Spending ==
    ASSUME CommandsInv, Command \/ Fault \/ UNCHANGED spent
    PROVE  commands' \in Nat /\ commands' >= commands
BY DEF CommandsInv, Command, Fault, spent

-----------------------------------------------------------------------------
(* The daemon and its connection: HeldInv and the tables stay.             *)

LEMMA DaemonSteps ==
    ASSUME AccountsInv, NEW m \in Machines,
           Boot(m) \/ DaemonDies(m) \/ Dial(m) \/ VerifyDaemonAuth(m)
    PROVE  AccountsInv'
<1>1. UNCHANGED <<code, row, issued, sub, expired, asks, cli, disk, lost>>
    BY DEF Boot, DaemonDies, Dial, VerifyDaemonAuth, hub, machine
<1>2. commands' \in Nat /\ commands' >= commands
    BY Spending DEF AccountsInv, Boot, DaemonDies, Dial, VerifyDaemonAuth
<1>3. mem' \in [Machines -> [id : Ids \cup {None}, jwt : 0..issued]]
  <2>1. CASE Boot(m)
      BY <2>1 DEF AccountsInv, TypeOK, Boot
  <2>2. CASE DaemonDies(m)
      BY <2>2 DEF AccountsInv, TypeOK, DaemonDies, NoState, Tokens
  <2>3. CASE Dial(m) \/ VerifyDaemonAuth(m)
      BY <2>3 DEF AccountsInv, TypeOK, Dial, VerifyDaemonAuth
  <2> QED BY <2>1, <2>2, <2>3
<1>4. dial' \in [Machines -> {None, "sent", "verified", "stopped"}]
    BY DEF AccountsInv, TypeOK, Boot, DaemonDies, Dial, VerifyDaemonAuth
<1>5. link' = link \/ link' = Unlink(m)
    BY DEF Boot, DaemonDies, Dial, VerifyDaemonAuth
<1>6. link' \in [Ids -> [m : Machines \cup {None}, hello : Hellos]]
  <2>1. \A d \in Ids : link'[d] = link[d] \/ link'[d] = NoLink
      BY <1>5 DEF Unlink
  <2>2. NoLink \in [m : Machines \cup {None}, hello : Hellos]
      BY DEF NoLink, Hellos
  <2>3. link' = [d \in Ids |-> link'[d]]
      BY <1>5 DEF Unlink, AccountsInv, TypeOK
  <2> QED BY <2>1, <2>2, <2>3 DEF AccountsInv, TypeOK
<1>7. TypeOK'
    BY <1>1, <1>3, <1>4, <1>6 DEF AccountsInv, TypeOK, Known
<1>8. RevokedIsClosed'
  <2>1. \A d \in Ids : link'[d] = link[d] \/ link'[d] = NoLink
      BY <1>5 DEF Unlink
  <2>2. NoLink.hello = "none"
      BY DEF NoLink
  <2> QED BY <1>1, <2>1, <2>2 DEF AccountsInv, RevokedIsClosed, Known
<1> QED
    BY <1>1, <1>2, <1>7, <1>8, TablesStand, CommandsStand, HeldStands DEF AccountsInv

\* A connection that is let in has yet to say hello, whoever is revoked.
LEMMA AcceptStep ==
    ASSUME AccountsInv, NEW m \in Machines, Accept(m)
    PROVE  AccountsInv'
<1>1. UNCHANGED <<code, row, issued, sub, expired, asks, cli, disk, lost, mem, commands>>
    BY DEF Accept, hub, machine, spent
<1>2. link' = [link EXCEPT ![mem[m].id] = [m |-> m, hello |-> "awaited"]]
    BY DEF Accept
<1>3. link' \in [Ids -> [m : Machines \cup {None}, hello : Hellos]]
    BY <1>2 DEF AccountsInv, TypeOK, Hellos
<1>4. dial' \in [Machines -> {None, "sent", "verified", "stopped"}]
    BY DEF AccountsInv, TypeOK, Accept
<1>5. TypeOK'
    BY <1>1, <1>3, <1>4 DEF AccountsInv, TypeOK, Known
<1>6. \A d \in Ids : link'[d] = link[d] \/ link'[d] = [m |-> m, hello |-> "awaited"]
    BY <1>2 DEF AccountsInv, TypeOK
<1>7. RevokedIsClosed'
    BY <1>1, <1>6 DEF AccountsInv, RevokedIsClosed, Known
<1> QED
    BY <1>1, <1>5, <1>7, TablesStand, CommandsStand, HeldStands
    DEF AccountsInv, CommandsInv

\* A hello that comes after the revocation counts as late.
LEMMA HelloStep ==
    ASSUME AccountsInv, NEW d \in Ids, Hello(d)
    PROVE  AccountsInv'
<1>1. UNCHANGED <<code, row, issued, sub, expired, asks, cli, disk, lost, mem, dial, commands>>
    BY DEF Hello, hub, machine, daemon, spent
<1> DEFINE said == IF row[d].revoked THEN "late" ELSE "handled"
<1>2. link' = [link EXCEPT ![d].hello = said]
    BY DEF Hello
<1>3. link' \in [Ids -> [m : Machines \cup {None}, hello : Hellos]]
    BY <1>2 DEF AccountsInv, TypeOK, Hellos
<1>4. TypeOK'
    BY <1>1, <1>3 DEF AccountsInv, TypeOK, Known
<1>5. \A e \in Ids : link'[e].hello = IF e = d THEN said ELSE link[e].hello
    BY <1>2 DEF AccountsInv, TypeOK
<1>6. RevokedIsClosed'
    BY <1>1, <1>5 DEF AccountsInv, RevokedIsClosed, Known
<1> QED
    BY <1>1, <1>4, <1>6, TablesStand, CommandsStand, HeldStands
    DEF AccountsInv, CommandsInv

LEMMA LinkDropsStep ==
    ASSUME AccountsInv, NEW d \in Ids, LinkDrops(d)
    PROVE  AccountsInv'
<1>1. UNCHANGED <<code, row, issued, sub, expired, asks, cli, disk, lost, mem, dial, commands>>
    BY DEF LinkDrops, Fault, hub, machine, daemon
<1>2. link' = [link EXCEPT ![d] = NoLink]
    BY DEF LinkDrops
<1>3. link' \in [Ids -> [m : Machines \cup {None}, hello : Hellos]]
  <2>1. NoLink \in [m : Machines \cup {None}, hello : Hellos]
      BY DEF NoLink, Hellos
  <2> QED BY <1>2, <2>1 DEF AccountsInv, TypeOK
<1>4. TypeOK'
    BY <1>1, <1>3 DEF AccountsInv, TypeOK, Known
<1>5. RevokedIsClosed'
    BY <1>1, <1>2 DEF AccountsInv, TypeOK, RevokedIsClosed, NoLink, Known
<1> QED
    BY <1>1, <1>4, <1>5, TablesStand, CommandsStand, HeldStands
    DEF AccountsInv, CommandsInv

-----------------------------------------------------------------------------
(* Codes, revocation and expiry.                                           *)

LEMMA CodeSteps ==
    ASSUME AccountsInv, NEW c \in Codes,
           CodeExpires(c) \/ \E u \in Users : PairIssue(c, u)
    PROVE  AccountsInv'
<1>1. UNCHANGED <<row, issued, sub, expired, asks, cli, disk, mem, dial, link, lost, commands>>
    BY DEF PairIssue, CodeExpires, machine, daemon, spent
<1>2. /\ code[c].is \in {"new", "issued"} /\ code'[c].is # "consumed"
      /\ code[c].is = "issued" => code'[c].by = code[c].by
      /\ code'[c].is # "new" => code'[c].by \in Users
      /\ \A b \in Codes \ {c} : code'[b] = code[b]
    BY DEF AccountsInv, TypeOK, CodesInv, PairIssue, CodeExpires
<1>3. code' \in [Codes -> [is : {"new", "issued", "consumed", "expired"}, by : Users \cup {None}]]
  <2>1. code \in [Codes -> [is : {"new", "issued", "consumed", "expired"},
                            by : Users \cup {None}]]
      BY DEF AccountsInv, TypeOK
  <2> QED BY <2>1 DEF PairIssue, CodeExpires
<1>4. TypeOK'
    BY <1>1, <1>3 DEF AccountsInv, TypeOK, Known
<1>5. CodesInv'
    BY <1>1, <1>2 DEF AccountsInv, CodesInv
<1>6. \A d \in Ids : Known(d) => row[d].by \in Codes \ {c}
    BY <1>2 DEF AccountsInv, TypeOK, RowsInv, Known, Row
<1>7. RowsInv'
    BY <1>1, <1>2, <1>6 DEF AccountsInv, RowsInv, Known
<1>8. TokensInv' /\ CommandsInv' /\ HeldInv' /\ RevokedIsClosed'
    BY <1>1, HeldStands, CommandsStand, ClosedStands
    DEF AccountsInv, TokensInv, CommandsInv
<1> QED BY <1>4, <1>5, <1>7, <1>8 DEF AccountsInv

LEMMA ExpireStep ==
    ASSUME AccountsInv, NEW t \in Tokens, Expire(t) PROVE AccountsInv'
<1>1. UNCHANGED <<code, row, issued, sub, asks, cli, disk, mem, dial, link, lost, commands>>
    BY DEF Expire, hub, machine, daemon, spent
<1>2. expired' \subseteq 1..issued
    BY DEF Expire, AccountsInv, TypeOK
<1>3. TypeOK'
    BY <1>1, <1>2 DEF AccountsInv, TypeOK, Known
<1> QED
    BY <1>1, <1>3, TablesStand, CommandsStand, HeldStands, ClosedStands
    DEF AccountsInv, CommandsInv

LEMMA RowChange ==
    ASSUME NEW O, NEW B, NEW J, NEW V, NEW j \in J, NEW v \in V,
           NEW r \in [owner : O, by : B, jti : J, revoked : V]
    PROVE  [r EXCEPT !.revoked = v, !.jti = j] \in [owner : O, by : B, jti : J, revoked : V]
OBVIOUS

LEMMA TokenChange ==
    ASSUME NEW O, NEW B, NEW J, NEW V, NEW j \in J,
           NEW r \in [owner : O, by : B, jti : J, revoked : V]
    PROVE  [r EXCEPT !.jti = j] \in [owner : O, by : B, jti : J, revoked : V]
OBVIOUS

\* A revoked row has no token, and its connection, if the router has its
\* daemon, is closed in the same step.
LEMMA RevokeStep ==
    ASSUME AccountsInv, NEW u \in Users, NEW d \in Ids, Revoke(u, d)
    PROVE  AccountsInv'
<1>1. /\ UNCHANGED <<code, issued, sub, expired, asks, cli, disk, mem, dial, lost>>
      /\ commands' \in Nat /\ commands' >= commands
    BY Spending DEF Revoke, machine, daemon, AccountsInv
<1>2. row[d] \in Row /\ Known(d)
    BY DEF Revoke, Known, AccountsInv, TypeOK
<1>3. row' = [row EXCEPT ![d] = [row[d] EXCEPT !.revoked = TRUE, !.jti = 0]]
    BY DEF Revoke
<1> DEFINE new == [row[d] EXCEPT !.revoked = TRUE, !.jti = 0]
<1>4. /\ new \in Row /\ new # NoRow /\ row' = [row EXCEPT ![d] = new]
      /\ new.owner = row[d].owner /\ new.by = row[d].by /\ new.jti = 0
  <2>1. new.owner = row[d].owner /\ new.by = row[d].by /\ new.jti = 0
      BY <1>2 DEF Row
  <2>2. new \in Row
    <3>1. row[d] \in [owner : Users, by : Codes, jti : Tokens, revoked : BOOLEAN]
        BY <1>2 DEF Row
    <3>2. 0 \in Tokens /\ TRUE \in BOOLEAN
        BY BoundsAssumption DEF Tokens
    <3>3. new \in [owner : Users, by : Codes, jti : Tokens, revoked : BOOLEAN]
        BY <3>1, <3>2, RowChange
    <3> QED BY <3>3 DEF Row
  <2>3. new # NoRow
      BY <1>2, <2>1, NamesAssumption DEF Row, NoRow
  <2> QED BY <1>3, <2>1, <2>2, <2>3
<1>5. \A e \in Ids : /\ e # d => row'[e] = row[e]
                     /\ e = d => row'[e] = new
    BY <1>4 DEF AccountsInv, TypeOK
<1> HIDE DEF new
<1>6. \A e \in Ids : /\ Known(e)' <=> Known(e)
                     /\ row'[e].owner = row[e].owner /\ row'[e].by = row[e].by
                     /\ row'[e].jti \in {row[e].jti, 0}
    BY <1>2, <1>4, <1>5 DEF Known
<1>7. link' \in [Ids -> [m : Machines \cup {None}, hello : Hellos]]
  <2>1. NoLink \in [m : Machines \cup {None}, hello : Hellos]
      BY DEF NoLink, Hellos
  <2> QED BY <2>1 DEF Revoke, CloseDaemonConnection, AccountsInv, TypeOK
<1>8. TypeOK'
  <2>1. row' \in [Ids -> Row \cup {NoRow}]
      BY <1>4 DEF AccountsInv, TypeOK
  <2> QED BY <1>1, <1>6, <1>7, <2>1 DEF AccountsInv, TypeOK, CommandsInv, Ask
<1>9. CommandsInv' /\ CodesInv'
    BY <1>1, CommandsStand DEF AccountsInv, CodesInv
<1>10. RowsInv'
    BY <1>1, <1>6 DEF AccountsInv, RowsInv, CommandsInv, Ask
<1>11. TokensInv'
  <2>0. issued \in Nat
      BY BoundsAssumption DEF AccountsInv, TypeOK, Tokens
  <2>1. \A e \in Ids : row'[e].jti \in 0..issued
      BY <1>6, <2>0 DEF AccountsInv, TokensInv
  <2>2. \A e \in Ids, f \in Ids : row'[e].jti = row'[f].jti /\ row'[e].jti # 0 => e = f
      BY <1>6 DEF AccountsInv, TokensInv
  <2> QED BY <1>1, <2>1, <2>2 DEF TokensInv
<1>12. CurrentIsHeld'
    BY <1>1, <1>6 DEF AccountsInv, HeldInv, CurrentIsHeld
<1>13. HeldInv'
    BY <1>1, <1>6, <1>12 DEF AccountsInv, HeldInv, Waits
<1>14. RevokedIsClosed'
  <2>1. link'[d].hello # "handled"
      BY DEF Revoke, CloseDaemonConnection, NoLink, AccountsInv, TypeOK
  <2>2. \A e \in Ids \ {d} : link'[e] = link[e]
      BY DEF Revoke, CloseDaemonConnection, AccountsInv, TypeOK
  <2> QED BY <1>5, <1>6, <2>1, <2>2 DEF AccountsInv, RevokedIsClosed
<1> QED BY <1>8, <1>9, <1>10, <1>11, <1>13, <1>14 DEF AccountsInv

-----------------------------------------------------------------------------
(* The commands and the files they write.                                  *)

\* A command that starts is the only one of its machine, and no request of
\* an earlier one has its number.
LEMMA Starting ==
    ASSUME AccountsInv, NEW m \in Machines, NEW q \in Ask, q.m = m, q.n = commands',
           Command, asks' = asks \cup {q}, q.at = "sent",
           q.kind = "pair" => q.code \in Codes,
           q.kind = "refresh" => q.jwt = disk[m].jwt,
           cli[m] = Idle, cli' = [cli EXCEPT ![m] = [at |-> "waiting", n |-> commands']],
           UNCHANGED <<code, row, issued, sub, expired, disk, mem, dial, link, lost>>
    PROVE  AccountsInv'
<1>1. commands \in Nat /\ commands' = commands + 1
    BY DEF AccountsInv, CommandsInv, Command
<1>2. /\ cli'[m].at = "waiting" /\ cli'[m].n = commands' /\ cli[m].at = "idle"
      /\ \A o \in Machines \ {m} : cli'[o] = cli[o]
    BY DEF AccountsInv, CommandsInv, Idle
<1>3. TypeOK'
    BY DEF AccountsInv, TypeOK, Known
<1>4. CommandsInv'
  <2>1. [at |-> "waiting", n |-> commands'] \in Waiting
      BY <1>1 DEF Waiting
  <2>2. cli' \in [Machines -> {Idle} \cup Waiting \cup Holding \cup Writing]
      BY <2>1 DEF AccountsInv, CommandsInv
  <2>3. \A o \in asks' : o \in Ask /\ o.n <= commands'
      BY <1>1 DEF AccountsInv, CommandsInv, Ask
  <2> QED BY <1>1, <2>2, <2>3 DEF CommandsInv
<1>5. CodesInv' /\ RowsInv' /\ TokensInv'
    BY DEF AccountsInv, CodesInv, RowsInv, TokensInv, Known
<1>6. CurrentIsHeld'
    BY <1>2 DEF AccountsInv, HeldInv, CurrentIsHeld, Known
<1>7. \A o \in asks : Waits(o)' => Waits(o)
    BY <1>1, <1>2 DEF AccountsInv, CommandsInv, Ask, Waits
<1>8. HeldInv'
  <2>1. \A o \in Machines : cli'[o].at \in {"answered", "writing"} => cli'[o] = cli[o]
      BY <1>2
  <2>2. \A o \in asks' : o.kind = "refresh" /\ Waits(o)' =>
          /\ disk'[o.m].jwt = o.jwt
          /\ o.at # "sent" => \A d \in Ids : row'[d].jti = o.jwt /\ o.jwt # 0 => d = o.id
      BY <1>7 DEF AccountsInv, HeldInv
  <2> QED BY <1>2, <1>6, <2>1, <2>2 DEF AccountsInv, HeldInv
<1>9. RevokedIsClosed'
    BY ClosedStands DEF AccountsInv
<1> QED BY <1>3, <1>4, <1>5, <1>8, <1>9 DEF AccountsInv

LEMMA StartSteps ==
    ASSUME AccountsInv, NEW m \in Machines,
           RotateToken(m) \/ \E c \in Codes, d \in Ids : Pair(m, c, d)
    PROVE  AccountsInv'
<1>1. commands' \in Nat
    BY Spending DEF AccountsInv, Pair, RotateToken
<1>2. CASE \E c \in Codes, d \in Ids : Pair(m, c, d)
  <2>0. PICK c \in Codes, d \in Ids : Pair(m, c, d)
      BY <1>2
  <2> DEFINE q == [m |-> m, n |-> commands', kind |-> "pair", id |-> d,
                   code |-> c, at |-> "sent", jwt |-> 0]
  <2>1. q \in Ask
      BY <1>1 DEF Ask
  <2> QED BY <2>0, <2>1, Starting DEF Pair, hub, daemon
<1>3. CASE RotateToken(m)
  <2> DEFINE q == [m |-> m, n |-> commands', kind |-> "refresh", id |-> sub[disk[m].jwt],
                   code |-> None, at |-> "sent", jwt |-> disk[m].jwt]
  <2>1. disk[m].jwt \in 1..issued /\ sub[disk[m].jwt] \in Ids
      BY <1>3, BoundsAssumption DEF AccountsInv, TypeOK, RotateToken, Tokens
  <2>2. q \in Ask
      BY <1>1, <2>1 DEF Ask
  <2> QED BY <1>3, <2>2, Starting DEF RotateToken, hub, daemon
<1> QED BY <1>2, <1>3

\* A step of a command on its own files.  Every token that the machine held
\* and the hub accepts is held afterwards, or given up.
OnFiles(m, entry, saved) ==
    /\ UNCHANGED <<code, row, issued, sub, expired, asks, mem, dial, link>>
    /\ commands' \in Nat /\ commands' >= commands
    /\ entry \in {Idle} \cup Holding \cup Writing /\ cli' = [cli EXCEPT ![m] = entry]
    /\ saved \in [id : Ids \cup {None}, jwt : 0..issued] /\ disk' = [disk EXCEPT ![m] = saved]
    /\ lost' \subseteq 1..issued /\ lost \subseteq lost'
    /\ entry.at \in {"answered", "writing"} => entry.jwt \in 1..issued
    /\ entry.at = "writing" => saved.jwt = 0
    /\ entry.at = "answered" /\ entry.kind = "refresh" =>
          \A d \in Ids : row[d].jti = saved.jwt => row[d].jti = 0
    /\ \A d \in Ids : row[d].jti # 0 =>
          /\ disk[m].jwt = row[d].jti =>
                saved.jwt = row[d].jti \/ row[d].jti \in lost'
          /\ cli[m].at \in {"answered", "writing"} /\ cli[m].jwt = row[d].jti =>
                \/ entry.at \in {"answered", "writing"} /\ entry.jwt = row[d].jti
                \/ saved.jwt = row[d].jti \/ row[d].jti \in lost'

LEMMA FileStep ==
    ASSUME AccountsInv, NEW m \in Machines, NEW entry, NEW saved, OnFiles(m, entry, saved)
    PROVE  AccountsInv'
<1> USE DEF OnFiles
<1>1. /\ cli'[m] = entry /\ disk'[m] = saved
      /\ \A o \in Machines \ {m} : cli'[o] = cli[o] /\ disk'[o] = disk[o]
    BY DEF AccountsInv, CommandsInv, TypeOK
<1>2. TypeOK'
    BY DEF AccountsInv, TypeOK, Known
<1>3. CommandsInv'
  <2>1. cli' \in [Machines -> {Idle} \cup Waiting \cup Holding \cup Writing]
      BY DEF AccountsInv, CommandsInv
  <2> QED BY <2>1 DEF AccountsInv, CommandsInv, Ask
<1>4. CodesInv' /\ RowsInv' /\ TokensInv' /\ RevokedIsClosed'
    BY TablesStand, ClosedStands DEF AccountsInv
<1>5. CurrentIsHeld'
  <2> SUFFICES ASSUME NEW d \in Ids, Known(d), row[d].jti # 0, row[d].jti \notin lost'
               PROVE  \E o \in Machines :
                        \/ disk'[o].jwt = row[d].jti
                        \/ cli'[o].at \in {"answered", "writing"} /\ cli'[o].jwt = row[d].jti
      BY DEF CurrentIsHeld, Known
  <2>1. PICK o \in Machines :
            \/ disk[o].jwt = row[d].jti
            \/ cli[o].at \in {"answered", "writing"} /\ cli[o].jwt = row[d].jti
      BY DEF AccountsInv, HeldInv, CurrentIsHeld
  <2>2. CASE o # m
      BY <1>1, <2>1, <2>2
  <2>3. CASE o = m
      BY <1>1, <2>1, <2>3
  <2> QED BY <2>2, <2>3
<1>6. \A q \in asks : Waits(q)' => q.m # m /\ Waits(q) /\ disk'[q.m] = disk[q.m]
  <2>1. entry.at # "waiting"
      BY DEF Idle, Holding, Writing
  <2> QED BY <1>1, <2>1 DEF Waits, AccountsInv, CommandsInv, Ask
<1>7. HeldInv'
  <2>1. \A o \in Machines :
          /\ cli'[o].at \in {"answered", "writing"} => cli'[o].jwt \in 1..issued
          /\ cli'[o].at = "writing" => disk'[o].jwt = 0
          /\ cli'[o].at = "answered" /\ cli'[o].kind = "refresh" =>
                \A d \in Ids : row[d].jti = disk'[o].jwt => row[d].jti = 0
    <3> SUFFICES ASSUME NEW o \in Machines
                 PROVE  /\ cli'[o].at \in {"answered", "writing"} => cli'[o].jwt \in 1..issued
                        /\ cli'[o].at = "writing" => disk'[o].jwt = 0
                        /\ cli'[o].at = "answered" /\ cli'[o].kind = "refresh" =>
                              \A d \in Ids : row[d].jti = disk'[o].jwt => row[d].jti = 0
        OBVIOUS
    <3>1. CASE o = m
        BY <1>1, <3>1
    <3>2. CASE o # m
        BY <1>1, <3>2 DEF AccountsInv, HeldInv
    <3> QED BY <3>1, <3>2
  <2>2. \A q \in asks : q.kind = "refresh" /\ Waits(q)' =>
          /\ disk'[q.m].jwt = q.jwt
          /\ q.at # "sent" => \A d \in Ids : row[d].jti = q.jwt /\ q.jwt # 0 => d = q.id
      BY <1>6 DEF AccountsInv, HeldInv
  <2> QED BY <1>5, <2>1, <2>2 DEF HeldInv
<1> QED BY <1>2, <1>3, <1>4, <1>7 DEF AccountsInv

LEMMA FileSteps ==
    ASSUME AccountsInv, NEW m \in Machines,
           \/ Configure(m) \/ SaveConfig(m) \/ OpenState(m) \/ WriteState(m) \/ CommandDies(m)
    PROVE  AccountsInv'
<1>1. /\ UNCHANGED <<code, row, issued, sub, expired, asks, mem, dial, link>>
      /\ commands' \in Nat /\ commands' >= commands
    BY Spending DEF AccountsInv, Configure, SaveConfig, OpenState, WriteState, CommandDies,
                    hub, daemon
<1>2. /\ disk[m] \in [id : Ids \cup {None}, jwt : 0..issued] /\ Hostname[m] \in Ids
      /\ lost \subseteq 1..issued /\ issued \in Nat
      /\ cli[m] \in {Idle} \cup Waiting \cup Holding \cup Writing
    BY NamesAssumption, BoundsAssumption DEF AccountsInv, TypeOK, CommandsInv, Tokens
<1>3. /\ cli[m].at \in {"answered", "writing"} => cli[m].jwt \in 1..issued
      /\ cli[m].at = "writing" => cli[m] \in Writing /\ disk[m].jwt = 0
      /\ cli[m].at = "answered" => cli[m] \in Holding
    BY <1>2 DEF AccountsInv, HeldInv, Idle, Waiting, Holding, Writing
<1>4. disk = [disk EXCEPT ![m] = disk[m]] /\ cli = [cli EXCEPT ![m] = cli[m]]
    BY DEF AccountsInv, TypeOK, CommandsInv
<1>5. CASE Configure(m)
  <2>1. [disk[m] EXCEPT !.id = Hostname[m]] \in [id : Ids \cup {None}, jwt : 0..issued]
      BY <1>2
  <2>2. /\ cli' = [cli EXCEPT ![m] = Idle] /\ lost' = lost
        /\ disk' = [disk EXCEPT ![m] = [disk[m] EXCEPT !.id = Hostname[m]]]
        /\ [disk[m] EXCEPT !.id = Hostname[m]].jwt = disk[m].jwt
      BY <1>2, <1>4, <1>5 DEF Configure
  <2>3. cli[m] = Idle /\ Idle.at = "idle"
      BY <1>5 DEF Configure, Idle
  <2>9. OnFiles(m, Idle, [disk[m] EXCEPT !.id = Hostname[m]])
      BY <1>1, <1>2, <2>1, <2>2, <2>3 DEF OnFiles
  <2> QED BY <2>9, FileStep
<1>6. CASE SaveConfig(m)
  <2> DEFINE saved == [disk[m] EXCEPT !.id = cli[m].id]
             entry == [cli[m] EXCEPT !.kind = "save"]
  <2>1. cli[m] \in Holding /\ cli[m].jwt \in 1..issued /\ cli[m].at = "answered"
      BY <1>3, <1>6 DEF SaveConfig
  <2>2. /\ saved \in [id : Ids \cup {None}, jwt : 0..issued] /\ saved.jwt = disk[m].jwt
        /\ entry \in Holding /\ entry.jwt = cli[m].jwt
        /\ entry.at = "answered" /\ entry.kind = "save"
      BY <1>2, <2>1 DEF Holding
  <2>3. /\ cli' = [cli EXCEPT ![m] = entry] /\ lost' = lost
        /\ disk' = [disk EXCEPT ![m] = saved]
      BY <1>6 DEF SaveConfig
  <2> HIDE DEF saved, entry
  <2>9. OnFiles(m, entry, saved)
      BY <1>1, <1>2, <2>1, <2>2, <2>3 DEF OnFiles
  <2> QED BY <2>9, FileStep
<1>7. CASE OpenState(m)
  <2> DEFINE saved == [disk[m] EXCEPT !.jwt = 0]
             entry == [cli[m] EXCEPT !.at = "writing"]
  <2>1. cli[m] \in Holding /\ cli[m].jwt \in 1..issued /\ cli[m].kind \in {"save", "refresh"}
      BY <1>3, <1>7 DEF OpenState, Holding
  <2>2. /\ saved \in [id : Ids \cup {None}, jwt : 0..issued] /\ saved.jwt = 0
        /\ entry \in Writing /\ entry.jwt = cli[m].jwt /\ entry.at = "writing"
      BY <1>2, <2>1 DEF Holding, Writing
  <2>3. cli' = [cli EXCEPT ![m] = entry] /\ disk' = [disk EXCEPT ![m] = saved]
      BY <1>7 DEF OpenState
  <2>4. lost' \subseteq 1..issued /\ lost \subseteq lost'
      BY <1>2, <1>7 DEF OpenState
  <2>5. \A d \in Ids : row[d].jti # 0 /\ disk[m].jwt = row[d].jti => row[d].jti \in lost'
    <3>1. CASE cli[m].kind = "save"
        BY <1>7, <3>1 DEF OpenState
    <3>2. CASE cli[m].kind = "refresh"
        BY <1>7, <3>2 DEF OpenState, AccountsInv, HeldInv
    <3> QED BY <2>1, <3>1, <3>2
  <2> HIDE DEF saved, entry
  <2>9. OnFiles(m, entry, saved)
      BY <1>1, <1>2, <2>1, <2>2, <2>3, <2>4, <2>5 DEF OnFiles
  <2> QED BY <2>9, FileStep
<1>8. CASE WriteState(m)
  <2> DEFINE saved == [disk[m] EXCEPT !.jwt = cli[m].jwt]
  <2>1. cli[m].jwt \in 1..issued /\ disk[m].jwt = 0
      BY <1>3, <1>8 DEF WriteState
  <2>2. saved \in [id : Ids \cup {None}, jwt : 0..issued] /\ saved.jwt = cli[m].jwt
      BY <1>2, <2>1
  <2>3. /\ cli' = [cli EXCEPT ![m] = Idle] /\ lost' = lost
        /\ disk' = [disk EXCEPT ![m] = saved]
      BY <1>8 DEF WriteState
  <2>4. Idle.at = "idle"
      BY DEF Idle
  <2> HIDE DEF saved
  <2>9. OnFiles(m, Idle, saved)
      BY <1>1, <1>2, <2>1, <2>2, <2>3, <2>4 DEF OnFiles
  <2> QED BY <2>9, FileStep
<1>9. CASE CommandDies(m)
  <2>1. /\ cli' = [cli EXCEPT ![m] = Idle]
        /\ disk' = [disk EXCEPT ![m] = disk[m]]
      BY <1>4, <1>9 DEF CommandDies
  <2>2. /\ lost' \subseteq 1..issued /\ lost \subseteq lost'
        /\ cli[m].at \in {"answered", "writing"} => cli[m].jwt \in lost'
      BY <1>2, <1>3, <1>9 DEF CommandDies
  <2>3. Idle.at = "idle"
      BY DEF Idle
  <2>9. OnFiles(m, Idle, disk[m])
      BY <1>1, <1>2, <2>1, <2>2, <2>3 DEF OnFiles
  <2> QED BY <2>9, FileStep
<1> QED BY <1>5, <1>6, <1>7, <1>8, <1>9

-----------------------------------------------------------------------------
(* The hub at work on the requests.                                        *)

LEMMA AskTypes ==
    ASSUME AccountsInv, NEW q \in asks
    PROVE  /\ q \in Ask /\ q.m \in Machines /\ q.id \in Ids
           /\ q.kind \in {"pair", "refresh"} /\ (q.kind = "pair" => q.code \in Codes)
           /\ cli[q.m] \in {Idle} \cup Waiting \cup Holding \cup Writing
           /\ Waits(q) => cli[q.m].at = "waiting"
           /\ q.at # "sent" => Known(q.id) /\ row[q.id] \in Row
BY DEF AccountsInv, CommandsInv, CodesInv, RowsInv, TypeOK, Ask, Waits, Known

\* An answer of an error changes nothing but the command that waits for it.
LEMMA RefuseStep ==
    ASSUME AccountsInv, NEW q \in asks, Refuse(q),
           UNCHANGED <<code, row, issued, sub, expired, disk, mem, dial, link, lost, commands>>
    PROVE  AccountsInv'
<1>1. asks' \subseteq asks
    BY DEF Refuse
<1>2. \A m \in Machines : /\ cli'[m] = cli[m] \/ (cli'[m] = Idle /\ cli[m].at = "waiting")
                          /\ Idle.at = "idle"
    BY AskTypes DEF Refuse, AccountsInv, CommandsInv, Idle
<1>3. TypeOK'
    BY <1>1 DEF AccountsInv, TypeOK, Known
<1>4. CommandsInv'
  <2>1. cli' \in [Machines -> {Idle} \cup Waiting \cup Holding \cup Writing]
      BY AskTypes DEF Refuse, AccountsInv, CommandsInv
  <2> QED BY <1>1, <2>1 DEF AccountsInv, CommandsInv
<1>5. CodesInv' /\ RowsInv' /\ TokensInv' /\ RevokedIsClosed'
    BY <1>1 DEF AccountsInv, CodesInv, RowsInv, TokensInv, RevokedIsClosed, Known
<1>6. CurrentIsHeld'
    BY <1>2 DEF AccountsInv, HeldInv, CurrentIsHeld, Known
<1>7. \A o \in asks' : Waits(o)' => Waits(o)
    BY <1>1, <1>2, AskTypes DEF Waits
<1>8. HeldInv'
  <2>1. \A o \in asks' : o.kind = "refresh" /\ Waits(o)' =>
          /\ disk'[o.m].jwt = o.jwt
          /\ o.at # "sent" => \A d \in Ids : row'[d].jti = o.jwt /\ o.jwt # 0 => d = o.id
      BY <1>1, <1>7 DEF AccountsInv, HeldInv
  <2> QED BY <1>2, <1>6, <2>1 DEF AccountsInv, HeldInv
<1> QED BY <1>3, <1>4, <1>5, <1>8 DEF AccountsInv

\* A request that goes on keeps who asked for what.
LEMMA Advancing ==
    ASSUME AccountsInv, NEW q \in asks, NEW at \in {"verified", "signing"}, Advance(q, at)
    PROVE  \E next \in Ask :
              /\ asks' = (asks \ {q}) \cup {next} /\ next.at = at
              /\ next.m = q.m /\ next.n = q.n /\ next.kind = q.kind /\ next.id = q.id
              /\ next.code = q.code /\ next.jwt = q.jwt
<1>1. q \in Ask
    BY AskTypes
<1>2. [q EXCEPT !.at = at] \in Ask
    BY <1>1 DEF Ask
<1>3. [q EXCEPT !.at = at].at = at
    BY <1>1 DEF Ask
<1> QED BY <1>1, <1>2, <1>3 DEF Advance, Ask

\* The token that a refresh has shown is of its own row when it is verified.
LEMMA RefreshSteps ==
    ASSUME AccountsInv, NEW q \in asks, RefreshVerifies(q) \/ RefreshJwt(q)
    PROVE  AccountsInv'
<1>1. UNCHANGED <<code, row, issued, sub, expired, disk, mem, dial, link, lost, commands>>
    BY DEF RefreshVerifies, RefreshJwt, hub, daemon, spent
<1>2. CASE Refuse(q)
    BY <1>1, <1>2, RefuseStep
<1>3. CASE ~Refuse(q)
  <2>1. PICK at \in {"verified", "signing"} : Advance(q, at)
      BY <1>3 DEF RefreshVerifies, RefreshJwt
  <2>2. PICK next \in Ask :
              /\ asks' = (asks \ {q}) \cup {next} /\ next.at = at
              /\ next.m = q.m /\ next.n = q.n /\ next.kind = q.kind /\ next.id = q.id
              /\ next.code = q.code /\ next.jwt = q.jwt
      BY <2>1, Advancing
  <2>3. cli' = cli
      BY <2>1 DEF Advance
  <2>4. q.kind = "refresh" /\ Known(q.id) /\ (q.at = "sent" => row[q.id].jti = q.jwt)
      BY <1>3, AskTypes DEF RefreshVerifies, RefreshJwt, Accepts
  <2>5. TypeOK'
      BY <1>1, <2>2, <2>4 DEF AccountsInv, TypeOK, Known
  <2>6. CommandsInv'
      BY <1>1, <2>2, <2>3 DEF AccountsInv, CommandsInv
  <2>7. CodesInv' /\ RowsInv' /\ TokensInv' /\ RevokedIsClosed'
      BY <1>1, <2>2, <2>4 DEF AccountsInv, CodesInv, RowsInv, TokensInv, RevokedIsClosed, Known
  <2>8. CurrentIsHeld'
      BY <1>1, <2>3 DEF AccountsInv, HeldInv, CurrentIsHeld, Known
  <2>9. \A d \in Ids : row[d].jti = q.jwt /\ q.jwt # 0 /\ Waits(q) => d = q.id
      BY <2>4, AskTypes DEF AccountsInv, TokensInv, HeldInv
  <2>10. HeldInv'
    <3>1. \A o \in asks' : o.kind = "refresh" /\ Waits(o)' =>
          /\ disk'[o.m].jwt = o.jwt
          /\ o.at # "sent" => \A d \in Ids : row'[d].jti = o.jwt /\ o.jwt # 0 => d = o.id
      <4> SUFFICES ASSUME NEW o \in asks', o.kind = "refresh", Waits(o)'
                   PROVE  /\ disk'[o.m].jwt = o.jwt
                          /\ o.at # "sent" =>
                                \A d \in Ids : row'[d].jti = o.jwt /\ o.jwt # 0 => d = o.id
          OBVIOUS
      <4>1. CASE o \in asks
          BY <1>1, <2>3, <4>1 DEF AccountsInv, HeldInv, Waits
      <4>2. CASE o = next
          BY <1>1, <2>2, <2>3, <2>9, <4>2 DEF AccountsInv, HeldInv, Waits
      <4> QED BY <2>2, <4>1, <4>2
    <3> QED BY <1>1, <2>3, <2>8, <3>1 DEF AccountsInv, HeldInv
  <2> QED BY <2>5, <2>6, <2>7, <2>10 DEF AccountsInv
<1> QED BY <1>2, <1>3

\* The code is consumed in the step that makes the row.
LEMMA PairStep ==
    ASSUME AccountsInv, NEW q \in asks, PairDaemon(q)
    PROVE  AccountsInv'
<1>1. UNCHANGED <<issued, sub, expired, disk, mem, dial, link, lost, commands>>
    BY DEF PairDaemon, daemon, spent
<1>2. CASE Refuse(q) /\ UNCHANGED <<code, row>>
    BY <1>1, <1>2, RefuseStep
<1> DEFINE c == q.code
           new == [owner |-> code[c].by, by |-> c, jti |-> 0, revoked |-> FALSE]
<1>3. CASE /\ ~Known(q.id) /\ code[c].is = "issued"
           /\ code' = [code EXCEPT ![c].is = "consumed"]
           /\ row' = [row EXCEPT ![q.id] = new]
           /\ Advance(q, "signing")
  <2>1. PICK next \in Ask :
              /\ asks' = (asks \ {q}) \cup {next} /\ next.at = "signing"
              /\ next.m = q.m /\ next.n = q.n /\ next.kind = q.kind /\ next.id = q.id
              /\ next.code = q.code /\ next.jwt = q.jwt
      BY <1>3, Advancing
  <2>2. /\ q.kind = "pair" /\ c \in Codes /\ q.id \in Ids /\ code[c].by \in Users
        /\ cli' = cli
      BY <1>3, AskTypes DEF PairDaemon, Advance, AccountsInv, CodesInv
  <2>3. new \in Row /\ new # NoRow
    <3>1. 0 \in Tokens
        BY BoundsAssumption DEF Tokens
    <3>2. new \in Row
        BY <2>2, <3>1, Zenon DEF Row
    <3>3. new.owner # NoRow.owner
        BY <2>2, NamesAssumption DEF NoRow
    <3> QED BY <3>2, <3>3
  <2>4. /\ row'[q.id] = new /\ \A d \in Ids \ {q.id} : row'[d] = row[d]
        /\ row' \in [Ids -> Row \cup {NoRow}]
      BY <1>3, <2>2, <2>3 DEF AccountsInv, TypeOK
  <2>5. new.owner = code[c].by /\ new.by = c /\ new.jti = 0
      OBVIOUS
  <2> HIDE DEF new
  <2>6. /\ Known(q.id)' /\ \A d \in Ids \ {q.id} : Known(d)' <=> Known(d)
      BY <2>3, <2>4 DEF Known
  <2>7. /\ code'[c].is = "consumed" /\ code'[c].by = code[c].by
        /\ \A b \in Codes \ {c} : code'[b] = code[b]
        /\ code' \in [Codes -> [is : {"new", "issued", "consumed", "expired"},
                                by : Users \cup {None}]]
      BY <1>3, <2>2 DEF AccountsInv, TypeOK
  <2>8. \A d \in Ids : Known(d) => row[d].by \in Codes \ {c}
      BY <1>3 DEF AccountsInv, TypeOK, RowsInv, Known, Row
  <2>9. TypeOK'
    <3>1. \A o \in asks' : o.at \in {"sent", "verified", "signing"}
                           /\ (o.at = "signing" => Known(o.id)')
        BY <2>1, <2>6 DEF AccountsInv, TypeOK, CommandsInv, Ask
    <3> QED BY <1>1, <2>4, <2>7, <3>1 DEF AccountsInv, TypeOK
  <2>10. CommandsInv'
      BY <1>1, <2>1, <2>2 DEF AccountsInv, CommandsInv
  <2>11. CodesInv'
      BY <2>1, <2>2, <2>7 DEF AccountsInv, CodesInv
  <2>12. RowsInv'
    <3>1. \A d \in Ids : Known(d)' => /\ code'[row'[d].by].is = "consumed"
                                      /\ row'[d].owner = code'[row'[d].by].by
        BY <2>4, <2>5, <2>6, <2>7, <2>8 DEF AccountsInv, RowsInv
    <3>2. \A d \in Ids, e \in Ids :
              Known(d)' /\ Known(e)' /\ row'[d].by = row'[e].by => d = e
        BY <2>4, <2>5, <2>6, <2>8 DEF AccountsInv, RowsInv
    <3>3. \A o \in asks' : o.at # "sent" => Known(o.id)'
        BY <2>1, <2>6 DEF AccountsInv, RowsInv, CommandsInv, Ask
    <3> QED BY <3>1, <3>2, <3>3 DEF RowsInv
  <2>13. \A d \in Ids : row'[d].jti = 0 \/ (row'[d].jti = row[d].jti /\ (Known(d)' => Known(d)))
      BY <2>4, <2>5, <2>6
  <2>14. TokensInv'
    <3>1. \A d \in Ids : row'[d].jti \in 0..issued
        BY <2>13, BoundsAssumption DEF AccountsInv, TypeOK, TokensInv, Tokens
    <3>2. \A d \in Ids, e \in Ids : row'[d].jti = row'[e].jti /\ row'[d].jti # 0 => d = e
        BY <2>13 DEF AccountsInv, TokensInv
    <3> QED BY <1>1, <3>1, <3>2 DEF TokensInv
  <2>15. CurrentIsHeld'
      BY <1>1, <2>2, <2>13 DEF AccountsInv, HeldInv, CurrentIsHeld
  <2>16. HeldInv'
    <3>1. \A o \in asks' : o.kind = "refresh" /\ Waits(o)' =>
          /\ disk'[o.m].jwt = o.jwt
          /\ o.at # "sent" => \A d \in Ids : row'[d].jti = o.jwt /\ o.jwt # 0 => d = o.id
        BY <1>1, <2>1, <2>2, <2>13 DEF AccountsInv, HeldInv, Waits
    <3>2. \A m \in Machines : cli[m].at = "answered" /\ cli[m].kind = "refresh" =>
             \A d \in Ids : row'[d].jti = disk[m].jwt => row'[d].jti = 0
        BY <2>13 DEF AccountsInv, HeldInv
    <3> QED BY <1>1, <2>2, <2>15, <3>1, <3>2 DEF AccountsInv, HeldInv
  <2>17. RevokedIsClosed'
    <3>1. ~row'[q.id].revoked
        BY <2>4 DEF new
    <3> QED BY <1>1, <2>4, <2>6, <3>1 DEF AccountsInv, RevokedIsClosed
  <2> QED BY <2>9, <2>10, <2>11, <2>12, <2>14, <2>16, <2>17 DEF AccountsInv
<1> QED BY <1>2, <1>3 DEF PairDaemon

\* A new token is of no other row, and whoever waits for it gets it.
LEMMA SetJwtIdStep ==
    ASSUME AccountsInv, NEW q \in asks, SetJwtId(q)
    PROVE  AccountsInv'
<1>1. UNCHANGED <<code, expired, disk, mem, dial, link, commands>>
    BY DEF SetJwtId, daemon, spent
<1>2. /\ q.at = "signing" /\ Known(q.id) /\ row[q.id] \in Row /\ q.id \in Ids
      /\ q.m \in Machines /\ q.kind \in {"pair", "refresh"}
    BY AskTypes DEF SetJwtId
<1>3. issued \in Nat /\ issued' = issued + 1 /\ issued' \in Tokens
    BY BoundsAssumption DEF SetJwtId, AccountsInv, TypeOK, Tokens
<1> DEFINE new == [row[q.id] EXCEPT !.jti = issued']
           answer == [at |-> "answered", kind |-> q.kind, id |-> q.id, jwt |-> issued']
<1>4. row' = [row EXCEPT ![q.id] = new]
    BY DEF SetJwtId
<1>5. /\ new \in Row /\ new # NoRow /\ new.jti = issued'
      /\ new.owner = row[q.id].owner /\ new.by = row[q.id].by
  <2>1. /\ new.jti = issued' /\ new.owner = row[q.id].owner /\ new.by = row[q.id].by
        /\ row[q.id].owner \in Users
      BY <1>2 DEF Row
  <2>2. new \in Row
      BY <1>2, <1>3, TokenChange DEF Row
  <2>3. NoRow.owner = None /\ None \notin Users
      BY NamesAssumption DEF NoRow
  <2> QED BY <2>1, <2>2, <2>3
<1>6. new.revoked = row[q.id].revoked
    BY <1>2 DEF Row
<1>7. /\ row'[q.id] = new /\ \A d \in Ids \ {q.id} : row'[d] = row[d]
      /\ row' \in [Ids -> Row \cup {NoRow}]
    BY <1>2, <1>4, <1>5 DEF AccountsInv, TypeOK
<1> HIDE DEF new
<1>8. \A d \in Ids : /\ Known(d)' <=> Known(d)
                     /\ row'[d].owner = row[d].owner /\ row'[d].by = row[d].by
                     /\ (row'[d].jti = row[d].jti /\ d # q.id)
                          \/ (row'[d].jti = issued' /\ d = q.id)
    BY <1>2, <1>5, <1>7 DEF Known
<1>9. \A d \in Ids : row[d].jti \in 0..issued
    BY DEF AccountsInv, TokensInv
<1>10. /\ answer \in Holding /\ answer.at = "answered" /\ answer.jwt = issued'
       /\ answer.kind = q.kind
    BY <1>2, <1>3 DEF Holding
<1> HIDE DEF answer
<1>11. \/ Waits(q) /\ cli' = [cli EXCEPT ![q.m] = answer] /\ lost' = lost
       \/ ~Waits(q) /\ cli' = cli /\ lost' = lost \cup {issued'}
    BY DEF SetJwtId, answer
<1>12. asks' = asks \ {q}
    BY DEF SetJwtId
<1>13. TypeOK'
  <2>1. /\ lost' \subseteq 1..issued' /\ expired' \subseteq 1..issued'
        /\ 0..issued \subseteq 0..issued'
    <3>1. /\ lost \subseteq 1..issued /\ expired \subseteq 1..issued
          /\ 1..issued \subseteq 1..issued' /\ issued' \in 1..issued'
        BY <1>3 DEF AccountsInv, TypeOK
    <3>2. 0..issued \subseteq 0..issued'
        BY <1>3
    <3> QED BY <1>1, <1>11, <3>1, <3>2
  <2>2. /\ disk' \in [Machines -> [id : Ids \cup {None}, jwt : 0..issued']]
        /\ mem' \in [Machines -> [id : Ids \cup {None}, jwt : 0..issued']]
      BY <1>1, <2>1 DEF AccountsInv, TypeOK
  <2>3. \A o \in asks' : /\ o.at \in {"sent", "verified", "signing"}
                         /\ (o.at = "signing" => Known(o.id)')
      BY <1>8, <1>12 DEF AccountsInv, TypeOK, CommandsInv, Ask
  <2>4. /\ sub' \in [1..MaxTokens -> Ids \cup {None}]
        /\ \A t \in 1..issued' : sub'[t] \in Ids
    <3>1. sub' = [sub EXCEPT ![issued'] = q.id]
        BY DEF SetJwtId
    <3>2. \A t \in 1..issued' : t = issued' \/ t \in 1..issued
        BY <1>3
    <3>3. \A t \in 1..issued' : t \in 1..MaxTokens
        BY <1>3, BoundsAssumption DEF Tokens
    <3> QED BY <1>2, <3>1, <3>2, <3>3 DEF AccountsInv, TypeOK
  <2> QED BY <1>1, <1>3, <1>7, <2>1, <2>2, <2>3, <2>4 DEF AccountsInv, TypeOK
<1>14. CommandsInv'
  <2>1. cli' \in [Machines -> {Idle} \cup Waiting \cup Holding \cup Writing]
      BY <1>10, <1>11 DEF AccountsInv, CommandsInv
  <2> QED BY <1>1, <1>12, <2>1 DEF AccountsInv, CommandsInv
<1>15. CodesInv'
    BY <1>1, <1>12 DEF AccountsInv, CodesInv
<1>16. RowsInv'
    BY <1>1, <1>8, <1>12 DEF AccountsInv, RowsInv, CommandsInv, Ask
<1>17. TokensInv'
  <2>1. \A d \in Ids : row'[d].jti \in 0..issued'
      BY <1>3, <1>8, <1>9
  <2>2. \A d \in Ids, e \in Ids : row'[d].jti = row'[e].jti /\ row'[d].jti # 0 => d = e
    <3> SUFFICES ASSUME NEW d \in Ids, NEW e \in Ids,
                        row'[d].jti = row'[e].jti, row'[d].jti # 0
                 PROVE  d = e
        OBVIOUS
    <3>1. row[d].jti # issued' /\ row[e].jti # issued'
        BY <1>3, <1>9
    <3> QED BY <1>8, <3>1 DEF AccountsInv, TokensInv
  <2> QED BY <2>1, <2>2 DEF TokensInv
<1>18. CurrentIsHeld'
  <2> SUFFICES ASSUME NEW d \in Ids, Known(d)', row'[d].jti # 0, row'[d].jti \notin lost'
               PROVE  \E m \in Machines :
                        \/ disk'[m].jwt = row'[d].jti
                        \/ cli'[m].at \in {"answered", "writing"} /\ cli'[m].jwt = row'[d].jti
      BY DEF CurrentIsHeld
  <2>1. CASE d = q.id
    <3>1. cli' = [cli EXCEPT ![q.m] = answer]
        BY <1>8, <1>11, <2>1
    <3>2. cli'[q.m] = answer
        BY <1>2, <3>1 DEF AccountsInv, CommandsInv
    <3> QED BY <1>2, <1>8, <1>10, <2>1, <3>2
  <2>2. CASE d # q.id
    <3>1. /\ Known(d) /\ row'[d].jti = row[d].jti /\ row[d].jti \notin lost
        BY <1>8, <1>11, <2>2
    <3>2. PICK m \in Machines :
              \/ disk[m].jwt = row[d].jti
              \/ cli[m].at \in {"answered", "writing"} /\ cli[m].jwt = row[d].jti
        BY <3>1 DEF AccountsInv, HeldInv, CurrentIsHeld
    <3>3. cli[m].at \in {"answered", "writing"} => cli'[m] = cli[m]
        BY <1>11, AskTypes DEF AccountsInv, CommandsInv
    <3> QED BY <1>1, <3>1, <3>2, <3>3
  <2> QED BY <2>1, <2>2
<1>19. HeldInv'
  <2>1. \A m \in Machines : \/ cli'[m] = cli[m]
                            \/ m = q.m /\ cli'[m] = answer /\ Waits(q)
      BY <1>11 DEF AccountsInv, CommandsInv
  <2>2. \A m \in Machines : cli'[m].at \in {"answered", "writing"} => cli'[m].jwt \in 1..issued'
      BY <1>3, <1>10, <2>1 DEF AccountsInv, HeldInv
  <2>3. \A m \in Machines : cli'[m].at = "writing" => disk'[m].jwt = 0
      BY <1>1, <1>10, <2>1 DEF AccountsInv, HeldInv
  <2>4. \A m \in Machines : disk[m].jwt # issued'
      BY <1>3 DEF AccountsInv, TypeOK
  <2>5. \A m \in Machines : cli'[m].at = "answered" /\ cli'[m].kind = "refresh" =>
          \A d \in Ids : row'[d].jti = disk'[m].jwt => row'[d].jti = 0
    <3> SUFFICES ASSUME NEW m \in Machines, NEW d \in Ids,
                        cli'[m].at = "answered", cli'[m].kind = "refresh",
                        row'[d].jti = disk[m].jwt
                 PROVE  row'[d].jti = 0
        BY <1>1
    <3>1. d # q.id /\ row'[d].jti = row[d].jti
        BY <1>8, <2>4
    <3>2. CASE cli'[m] = cli[m]
        BY <3>1, <3>2 DEF AccountsInv, HeldInv
    <3>3. CASE m = q.m /\ cli'[m] = answer /\ Waits(q)
        BY <1>2, <1>10, <3>1, <3>3 DEF AccountsInv, HeldInv
    <3> QED BY <2>1, <3>2, <3>3
  <2>6. \A o \in asks' : o.kind = "refresh" /\ Waits(o)' =>
          /\ disk'[o.m].jwt = o.jwt
          /\ o.at # "sent" => \A d \in Ids : row'[d].jti = o.jwt /\ o.jwt # 0 => d = o.id
    <3> SUFFICES ASSUME NEW o \in asks, o.kind = "refresh", Waits(o)'
                 PROVE  /\ disk[o.m].jwt = o.jwt
                        /\ o.at # "sent" =>
                              \A d \in Ids : row'[d].jti = o.jwt /\ o.jwt # 0 => d = o.id
        BY <1>1, <1>12
    <3>1. Waits(o) /\ o.m \in Machines
        BY <1>10, <2>1, AskTypes DEF Waits
    <3> QED BY <1>8, <2>4, <3>1 DEF AccountsInv, HeldInv
  <2> QED BY <1>18, <2>2, <2>3, <2>5, <2>6 DEF HeldInv
<1>20. RevokedIsClosed'
    BY <1>1, <1>6, <1>7, <1>8 DEF AccountsInv, RevokedIsClosed
<1> QED BY <1>13, <1>14, <1>15, <1>16, <1>17, <1>19, <1>20 DEF AccountsInv

-----------------------------------------------------------------------------

LEMMA StepInv == AccountsInv /\ [Next]_vars => AccountsInv'
<1> SUFFICES ASSUME AccountsInv, [Next]_vars PROVE AccountsInv'
    OBVIOUS
<1>1. CASE HubNext
    BY <1>1, PairStep, RefreshSteps, SetJwtIdStep DEF HubNext
<1>2. CASE \E m \in Machines : MachineNext(m)
  <2> SUFFICES ASSUME NEW m \in Machines, MachineNext(m) PROVE AccountsInv'
      BY <1>2
  <2>1. CASE RotateToken(m) \/ \E c \in Codes, d \in Ids : Pair(m, c, d)
      BY <2>1, StartSteps
  <2>2. CASE \/ Configure(m) \/ SaveConfig(m) \/ OpenState(m)
             \/ WriteState(m) \/ CommandDies(m)
      BY <2>2, FileSteps
  <2>3. CASE Boot(m) \/ DaemonDies(m) \/ Dial(m) \/ VerifyDaemonAuth(m)
      BY <2>3, DaemonSteps
  <2>4. CASE Accept(m)
      BY <2>4, AcceptStep
  <2> QED BY <2>1, <2>2, <2>3, <2>4 DEF MachineNext
<1>3. CASE \E c \in Codes : CodeExpires(c) \/ \E u \in Users : PairIssue(c, u)
    BY <1>3, CodeSteps
<1>4. CASE \E d \in Ids : Hello(d) \/ LinkDrops(d) \/ \E u \in Users : Revoke(u, d)
    BY <1>4, HelloStep, LinkDropsStep, RevokeStep
<1>5. CASE \E t \in Tokens : Expire(t)
    BY <1>5, ExpireStep
<1>6. CASE UNCHANGED vars
    BY <1>6, TypesStand, TablesStand, CommandsStand, HeldStands, ClosedStands
    DEF vars, hub, machine, spent, AccountsInv, CommandsInv
<1> QED BY <1>1, <1>2, <1>3, <1>4, <1>5, <1>6 DEF Next

(***************************************************************************)
(* In every behaviour a code pairs one daemon and for its issuer, the      *)
(* token the hub accepts is held by somebody or was given up, and no       *)
(* connection whose hello was handled before its daemon was revoked is     *)
(* open after it (pair.ts, auth, routes.ts, router.ts, cc-remote.ts).      *)
(***************************************************************************)
THEOREM AccessCorrect == Spec => []AccessIsExact
<1>1. Init => AccountsInv
    BY InitInv
<1>2. AccountsInv /\ [Next]_vars => AccountsInv'
    BY StepInv
<1>3. AccountsInv => AccessIsExact
    BY InvIsExact
<1> QED BY <1>1, <1>2, <1>3, PTL DEF Spec

(* PushSettings: the inductive invariant.                                  *)

Value == [rows : [Keys -> RowValue], dnd : Dnd]

PushRequest ==
    [kind : {"get", "subscribe", "put", "delete", "old"}, of : Devices,
     at : {"sent", "let_in", "done", "refused"}, keys : SUBSET Everything, value : Value, n : Nat]

\* A change asks for one key, a reset for the rows of some; a subscription for
\* none.
RequestsInv ==
    /\ requests \subseteq PushRequest /\ shown \in Value
    /\ bearer # Absent => status[bearer] # "none"
    /\ \A r \in requests :
          /\ r.kind = "put" => \E k \in Everything : r.keys = {k}
          /\ r.kind = "delete" => r.keys \subseteq Keys /\ r.value = Unset
          /\ r.kind = "subscribe" => r.keys = {}

\* A sign-in is in one place: its state is awaited, its tokens are, or it has
\* made its device.
LoginInv ==
    \A l \in Logins :
        /\ l \in states => exchange[l] = 0
        /\ l \in states \/ exchange[l] # 0 => made[l] = {}
        /\ exchange[l] \in {0, 1}
        /\ made[l] # {} => \E d \in Devices : made[l] = {d}

\* The requests that change settings on behalf of the browser.
Own(r) == r.of = bearer /\ r.kind # "get"

\* Two settings agree on a key.
SameAt(v, w, k) == IF k = <<"dnd">> THEN v.dnd = w.dnd ELSE v.rows[k] = w.rows[k]
HubHas(d) == Settings(rows[d], quiet[d])

\* The page asks for its settings once, and changes nothing before it has them.
\* What the answer leaves open is what was under way when it was read, and
\* the rest of it is what the hub holds.
LoadingInv ==
    bearer # Absent =>
        /\ \A g \in requests : g.kind = "get" /\ g.of = bearer =>
              /\ page = "loading"
              /\ \A h \in requests : h.kind = "get" /\ h.of = bearer => h = g
              /\ g.at = "done" =>
                    /\ \A r \in requests : Own(r) => r.keys \subseteq g.keys
                    /\ \A k \in Everything \ g.keys : SameAt(g.value, HubHas(bearer), k)
        /\ page # "ready" => \A r \in requests : Own(r) => r.kind \notin {"put", "delete"}

\* A setting that is not in doubt is what the hub holds, or one request is under
\* way that makes it so.
ReadyInv ==
    bearer # Absent /\ page = "ready" =>
        /\ \A k \in Everything \ (doubtful \cup Moving) : SameAt(shown, HubHas(bearer), k)
        /\ \A r \in requests : \A k \in r.keys \ doubtful : Own(r) =>
              /\ r.kind # "old"
              /\ \A q \in requests : Own(q) /\ k \in q.keys => q = r
              /\ SameAt(r.value, shown, k)
              /\ r.kind = "put" /\ r.at = "done" => SameAt(shown, HubHas(bearer), k)

PushInv == PushTypeOK /\ RequestsInv /\ LoginInv /\ LoadingInv /\ ReadyInv

PushCorrect ==
    /\ PushTypeOK /\ OneDevicePerLogin /\ RevokedGetsNothing
    /\ ShownIsStored /\ PushAsShown

\* The switch of the quiet hours is not a row.
LEMMA DndIsNoRow == <<"dnd">> \notin Keys /\ \A k \in Everything : k # <<"dnd">> => k \in Keys
<1>1. \A t \in Topics, s \in Scopes : <<"dnd">> # <<t, s>>
    BY SMT
<1> QED BY <1>1 DEF Keys, Everything

LEMMA SameAtIsEquality ==
    ASSUME NEW a, NEW b, NEW c, NEW k, SameAt(a, b, k), SameAt(b, c, k)
    PROVE  SameAt(b, a, k) /\ SameAt(a, c, k)
BY DEF SameAt

\* PushInv gives what the runs check.
LEMMA PushInvIsCorrect == PushInv => PushCorrect
<1> SUFFICES ASSUME PushInv PROVE PushCorrect
    OBVIOUS
<1>1. OneDevicePerLogin
  <2> SUFFICES ASSUME NEW l \in Logins PROVE Cardinality(made[l]) <= 1
      BY DEF OneDevicePerLogin
  <2>1. made[l] = {} \/ \E d \in Devices : made[l] = {d}
      BY DEF PushInv, LoginInv
  <2>2. CASE made[l] = {}
      BY <2>2, FS_EmptySet
  <2>3. CASE \E d \in Devices : made[l] = {d}
    <3>1. PICK d \in Devices : made[l] = {d}
        BY <2>3
    <3>2. Cardinality({d}) = 1
        BY FS_Singleton
    <3> QED BY <3>1, <3>2
  <2> QED BY <2>1, <2>2, <2>3
<1>2. RevokedGetsNothing
    BY DEF RevokedGetsNothing, DispatchTopic, FindActiveSubsForTopic
<1>3. ShownIsStored
  <2> SUFFICES ASSUME bearer # Absent, page = "ready"
               PROVE  /\ \A k \in Keys \ (doubtful \cup Moving) : shown.rows[k] = rows[bearer][k]
                      /\ <<"dnd">> \notin doubtful \cup Moving => shown.dnd = quiet[bearer]
      BY DEF ShownIsStored
  <2>1. \A k \in Everything \ (doubtful \cup Moving) : SameAt(shown, HubHas(bearer), k)
      BY DEF PushInv, ReadyInv
  <2>2. ASSUME NEW k \in Keys \ (doubtful \cup Moving) PROVE shown.rows[k] = rows[bearer][k]
    <3>1. k \in Everything \ (doubtful \cup Moving) /\ k # <<"dnd">>
        BY DndIsNoRow DEF Everything
    <3>2. SameAt(shown, HubHas(bearer), k)
        BY <2>1, <3>1
    <3> QED BY <3>1, <3>2 DEF SameAt, HubHas, Settings
  <2>3. ASSUME <<"dnd">> \notin doubtful \cup Moving PROVE shown.dnd = quiet[bearer]
    <3>1. SameAt(shown, HubHas(bearer), <<"dnd">>)
        BY <2>1, <2>3 DEF Everything
    <3> QED BY <3>1 DEF SameAt, HubHas, Settings
  <2> QED BY <2>2, <2>3
<1>4. PushAsShown
  <2> SUFFICES ASSUME bearer # Absent, page = "ready", doubtful \cup Moving = {},
                      bearer \in pushSubs, status[bearer] = "live",
                      NEW t \in Topics, NEW now \in Times
               PROVE  bearer \in DispatchTopic(t, now) <=>
                          /\ ResolveSubscription(shown.rows, t)
                          /\ t \notin Bypass => ~IsInDndWindow(shown.dnd, now)
      BY DEF PushAsShown
  <2>1. bearer \in Devices /\ shown.rows \in [Keys -> RowValue] /\ rows[bearer] \in [Keys -> RowValue]
      BY DEF PushInv, PushTypeOK
  <2>2. \A k \in Keys : shown.rows[k] = rows[bearer][k]
      BY <1>3 DEF ShownIsStored
  <2>3. shown.rows = rows[bearer]
      BY <2>1, <2>2
  <2>4. shown.dnd = quiet[bearer]
      BY <1>3 DEF ShownIsStored
  <2> QED BY <2>3, <2>4 DEF DispatchTopic, FindActiveSubsForTopic
<1> QED BY <1>1, <1>2, <1>3, <1>4 DEF PushCorrect, PushInv

LEMMA UnsetType == Unset \in Value /\ NoRows \in [Keys -> RowValue] /\ NoDnd \in Dnd
BY DEF Unset, Value, Settings, NoRows, NoDnd, RowValue, Dnd

LEMMA PushInitInv == PushInit => PushInv
<1> SUFFICES ASSUME PushInit PROVE PushInv
    OBVIOUS
<1>1. PushTypeOK
    BY UnsetType, PushBoundsAssumption DEF PushInit, PushTypeOK, Unset, Settings
<1>2. RequestsInv
    BY UnsetType DEF PushInit, RequestsInv
<1>3. LoginInv
    BY DEF PushInit, LoginInv
<1>4. LoadingInv /\ ReadyInv
    BY DEF PushInit, LoadingInv, ReadyInv
<1> QED BY <1>1, <1>2, <1>3, <1>4 DEF PushInv

-----------------------------------------------------------------------------
(* PushSettings: what a step leaves alone.                                 *)

LEMMA LoginStands ==
    ASSUME UNCHANGED <<states, exchange, made>> PROVE LoginInv => LoginInv'
BY DEF LoginInv

LEMMA PageStands ==
    ASSUME UNCHANGED <<browser, requests, doubtful, rows, quiet>>
    PROVE  (LoadingInv => LoadingInv') /\ (ReadyInv => ReadyInv')
<1>1. /\ \A r : Own(r)' = Own(r)
      /\ HubHas(bearer)' = HubHas(bearer) /\ Moving' = Moving
    BY DEF browser, Own, HubHas, Moving, Settings
<1>2. UNCHANGED <<bearer, page, shown>>
    BY DEF browser
<1>3. LoadingInv => LoadingInv'
    BY <1>1, <1>2 DEF LoadingInv, Own, HubHas, Settings, SameAt
<1>4. ReadyInv => ReadyInv'
    BY <1>1, <1>2 DEF ReadyInv, Own, HubHas, Settings, SameAt
<1> QED BY <1>3, <1>4


-----------------------------------------------------------------------------
(* Signing in, out and again.                                              *)

LEMMA LoginSteps ==
    ASSUME PushInv, StartLogin \/ \E l \in Logins : Callback(l) \/ ExchangeFails(l)
    PROVE  PushInv'
<1>1. UNCHANGED <<made, status, rows, quiet, pushSubs, browser, requests, doubtful, acts, fails>>
    BY DEF StartLogin, Callback, ExchangeFails
<1>2. UNCHANGED <<bearer, page, shown>>
    BY <1>1 DEF browser
<1>3. \/ /\ exchange' = exchange
         /\ \E l \in Logins : l \notin states /\ exchange[l] = 0 /\ made[l] = {} /\ states' = states \cup {l}
      \/ \E l \in Logins : /\ l \in states /\ exchange[l] < 2 /\ states' = states \ {l}
                           /\ exchange' = [exchange EXCEPT ![l] = exchange[l] + 1]
      \/ \E l \in Logins : /\ exchange[l] > 0 /\ states' = states
                           /\ exchange' = [exchange EXCEPT ![l] = exchange[l] - 1]
    BY DEF StartLogin, Callback, ExchangeFails
<1>4. PushTypeOK'
  <2>1. states' \subseteq Logins /\ exchange' \in [Logins -> 0 .. 2]
      BY <1>3 DEF PushInv, PushTypeOK
  <2> QED BY <1>1, <1>2, <2>1 DEF PushInv, PushTypeOK
<1>5. LoginInv'
    BY <1>1, <1>3 DEF PushInv, PushTypeOK, LoginInv
<1>6. RequestsInv'
    BY <1>1, <1>2 DEF PushInv, RequestsInv
<1> QED BY <1>1, <1>4, <1>5, <1>6, PageStands DEF PushInv

\* A page that mounts owns no change, and knows nothing yet.
LEMMA MountsKeeps ==
    ASSUME PushInv, NEW d \in Devices, Mounts(d, requests)
    PROVE  /\ requests' \subseteq PushRequest /\ shown' = Unset /\ doubtful' = {}
           /\ bearer' = d /\ page' = "loading"
           /\ LoadingInv' /\ ReadyInv'
           /\ \A r \in requests' : r.of = d \/ \E q \in requests : r.of = q.of
           /\ \A r \in requests' : /\ r.kind \notin {"put", "delete"}
                                   /\ r.kind = "subscribe" => r.keys = {}
<1> DEFINE Old(r) == [r EXCEPT !.kind = IF r.kind = "put" \/ r.kind = "delete" THEN "old" ELSE r.kind]
           rs == {q \in requests : q.kind # "get" /\ q.at # "done"}
<1>1. /\ bearer' = d /\ page' = "loading" /\ doubtful' = {} /\ shown' = Unset
      /\ requests' = {Old(r) : r \in rs} \cup {Get(d), Subscribe(d)}
    BY DEF Mounts
<1>2. requests \subseteq PushRequest /\ acts \in Nat
    BY PushBoundsAssumption DEF PushInv, RequestsInv, PushTypeOK
<1>3. Get(d) \in PushRequest /\ Get(d).kind = "get" /\ Get(d).of = d /\ Get(d).at = "sent"
    BY <1>2, UnsetType DEF Get, Asks, PushRequest
<1>4. /\ Subscribe(d) \in PushRequest /\ Subscribe(d).kind = "subscribe" /\ Subscribe(d).of = d
      /\ Subscribe(d).keys = {}
    BY <1>2, UnsetType DEF Subscribe, Asks, PushRequest
<1>5. ASSUME NEW r \in rs
      PROVE  /\ Old(r) \in PushRequest /\ Old(r).of = r.of /\ Old(r).keys = r.keys
             /\ Old(r).kind \in {"subscribe", "old"}
             /\ Old(r).kind = "subscribe" => r.kind = "subscribe"
    BY <1>2 DEF PushRequest
<1> HIDE DEF Old, rs
<1>6. ASSUME NEW r \in requests'
      PROVE  /\ r \in PushRequest /\ r.kind \notin {"put", "delete"}
             /\ r.kind = "get" => r = Get(d)
             /\ r.kind = "subscribe" => r.keys = {}
             /\ r.of = d \/ \E q \in requests : r.of = q.of
  <2>1. CASE r = Get(d) \/ r = Subscribe(d)
      BY <1>3, <1>4, <2>1
  <2>2. CASE \E q \in rs : r = Old(q)
    <3>1. PICK q \in rs : r = Old(q)
        BY <2>2
    <3>2. q \in requests
        BY DEF rs
    <3>3. q.kind = "subscribe" => q.keys = {}
        BY <3>2 DEF PushInv, RequestsInv
    <3> QED BY <1>5, <3>1, <3>2, <3>3
  <2> QED BY <1>1, <2>1, <2>2
<1>7. LoadingInv'
    BY <1>1, <1>3, <1>6 DEF LoadingInv, Own
<1>8. ReadyInv'
    BY <1>1 DEF ReadyInv
<1> QED BY <1>1, <1>6, <1>7, <1>8

LEMMA CreateDeviceStep ==
    ASSUME PushInv, NEW l \in Logins, CreateDevice(l)
    PROVE  PushInv'
<1>1. PICK d \in Devices :
           /\ status[d] = "none" /\ status' = [status EXCEPT ![d] = "live"]
           /\ made' = [made EXCEPT ![l] = made[l] \cup {d}]
           /\ Mounts(d, requests)
    BY DEF CreateDevice
<1>2. /\ exchange[l] > 0 /\ exchange' = [exchange EXCEPT ![l] = exchange[l] - 1]
      /\ UNCHANGED <<states, rows, quiet, pushSubs, acts, fails>>
    BY DEF CreateDevice
<1>3. /\ requests' \subseteq PushRequest /\ shown' = Unset /\ doubtful' = {}
      /\ bearer' = d /\ page' = "loading" /\ LoadingInv' /\ ReadyInv'
      /\ \A r \in requests' : r.of = d \/ \E q \in requests : r.of = q.of
      /\ \A r \in requests' : /\ r.kind \notin {"put", "delete"}
                              /\ r.kind = "subscribe" => r.keys = {}
    BY <1>1, MountsKeeps
<1>4. \A e \in Devices : status'[e] # "none" <=> (e = d \/ status[e] # "none")
    BY <1>1 DEF PushInv, PushTypeOK
<1>5. \A r \in requests' : r.at \in {"sent", "let_in", "done", "refused"} /\ status'[r.of] # "none"
  <2> SUFFICES ASSUME NEW r \in requests' PROVE status'[r.of] # "none"
      BY <1>3 DEF PushRequest
  <2>1. \A q \in requests : q.of \in Devices /\ status[q.of] # "none"
      BY DEF PushInv, PushTypeOK, RequestsInv, PushRequest
  <2> QED BY <1>3, <1>4, <2>1
<1>6. PushTypeOK'
  <2>1. exchange' \in [Logins -> 0 .. 2] /\ made' \in [Logins -> SUBSET Devices]
      BY <1>1, <1>2 DEF PushInv, PushTypeOK
  <2>2. status' \in [Devices -> {"none", "live", "revoked"}]
      BY <1>1 DEF PushInv, PushTypeOK
  <2>3. shown'.rows \in [Keys -> RowValue] /\ shown'.dnd \in Dnd
      BY <1>3, UnsetType DEF Value
  <2> QED BY <1>2, <1>3, <1>5, <2>1, <2>2, <2>3 DEF PushInv, PushTypeOK
<1>7. RequestsInv'
    BY <1>3, <1>4, UnsetType DEF RequestsInv
<1>8. LoginInv'
  <2>1. l \notin states /\ exchange[l] = 1 /\ made[l] = {}
      BY <1>2 DEF PushInv, LoginInv
  <2>2. exchange'[l] = 0 /\ made'[l] = {d}
      BY <1>1, <1>2, <2>1 DEF PushInv, PushTypeOK
  <2>3. \A k \in Logins \ {l} : exchange'[k] = exchange[k] /\ made'[k] = made[k]
      BY <1>1, <1>2 DEF PushInv, PushTypeOK
  <2> QED BY <1>2, <2>1, <2>2, <2>3 DEF PushInv, LoginInv
<1> QED BY <1>3, <1>6, <1>7, <1>8 DEF PushInv

LEMMA PageReloadStep ==
    ASSUME PushInv, Reload
    PROVE  PushInv'
<1>1. /\ bearer \in Devices /\ fails' = fails + 1 /\ fails < MaxFails /\ Mounts(bearer, requests)
      /\ UNCHANGED <<states, exchange, made, status, rows, quiet, pushSubs, acts>>
    BY DEF Reload, hubState, PushInv, PushTypeOK
<1>2. /\ requests' \subseteq PushRequest /\ shown' = Unset /\ doubtful' = {}
      /\ bearer' = bearer /\ page' = "loading" /\ LoadingInv' /\ ReadyInv'
      /\ \A r \in requests' : r.of = bearer \/ \E q \in requests : r.of = q.of
      /\ \A r \in requests' : /\ r.kind \notin {"put", "delete"}
                              /\ r.kind = "subscribe" => r.keys = {}
    BY <1>1, MountsKeeps
<1>3. status[bearer] # "none"
    BY <1>1, DevicesAssumption DEF PushInv, RequestsInv
<1>4. \A r \in requests' : r.at \in {"sent", "let_in", "done", "refused"} /\ status'[r.of] # "none"
    BY <1>1, <1>2, <1>3 DEF PushInv, PushTypeOK, PushRequest
<1>5. PushTypeOK'
  <2>1. shown'.rows \in [Keys -> RowValue] /\ shown'.dnd \in Dnd
      BY <1>2, UnsetType DEF Value
  <2>2. fails' \in 0 .. MaxFails
      BY <1>1, PushBoundsAssumption DEF PushInv, PushTypeOK
  <2> QED BY <1>1, <1>2, <1>4, <2>1, <2>2 DEF PushInv, PushTypeOK
<1>6. RequestsInv'
    BY <1>1, <1>2, <1>3, UnsetType DEF RequestsInv
<1> QED BY <1>1, <1>2, <1>5, <1>6, LoginStands DEF PushInv

LEMMA SignOutStep ==
    ASSUME PushInv, SignOut
    PROVE  PushInv'
<1>1. bearer' = Absent /\ UNCHANGED <<page, shown, requests, doubtful, acts, fails>>
    BY DEF SignOut
<1>2. UNCHANGED <<states, exchange, made, status, rows, quiet, pushSubs>>
    BY DEF SignOut, hubState
<1>3. PushTypeOK' /\ RequestsInv'
    BY <1>1, <1>2 DEF PushInv, PushTypeOK, RequestsInv
<1>4. LoadingInv' /\ ReadyInv'
    BY <1>1 DEF LoadingInv, ReadyInv
<1> QED BY <1>2, <1>3, <1>4, LoginStands DEF PushInv

LEMMA RevokeDeviceStep ==
    ASSUME PushInv, NEW d \in Devices, RevokeDevice(d)
    PROVE  PushInv'
<1>1. /\ status[d] = "live" /\ status' = [status EXCEPT ![d] = "revoked"] /\ pushSubs' = pushSubs \ {d}
      /\ UNCHANGED <<states, exchange, made, rows, quiet, browser, requests, doubtful, acts, fails>>
    BY DEF RevokeDevice
<1>2. UNCHANGED <<bearer, page, shown>>
    BY <1>1 DEF browser
<1>3. \A e \in Devices : status'[e] # "none" <=> status[e] # "none"
    BY <1>1 DEF PushInv, PushTypeOK
<1>4. PushTypeOK'
  <2>1. status' \in [Devices -> {"none", "live", "revoked"}] /\ pushSubs' \subseteq Devices
      BY <1>1 DEF PushInv, PushTypeOK
  <2>2. \A r \in requests : status'[r.of] # "none"
      BY <1>3 DEF PushInv, PushTypeOK, RequestsInv, PushRequest
  <2> QED BY <1>1, <1>2, <2>1, <2>2 DEF PushInv, PushTypeOK
<1>5. RequestsInv'
    BY <1>1, <1>2, <1>3 DEF PushInv, PushTypeOK, RequestsInv
<1> QED BY <1>1, <1>4, <1>5, LoginStands, PageStands DEF PushInv


-----------------------------------------------------------------------------
(* The settings page.                                                      *)

\* A change of some keys is shown, and asked for in a request of its own unless
\* it is forgotten: what of it is not in doubt afterwards, that request makes
\* so.
LEMMA ChangeKeeps ==
    ASSUME PushInv, CanAct, NEW v \in Value, NEW ks \in SUBSET Everything, NEW new,
           shown' = v, requests' = requests \cup new,
           acts' = acts + 1, UNCHANGED <<hubState, bearer, page, fails>>,
           \A k \in Everything \ ks : SameAt(shown, v, k),
           \/ ks = {} /\ new = {} /\ doubtful' = doubtful
           \/ new = {} /\ doubtful' = doubtful \cup ks
           \/ /\ doubtful' = doubtful \cup Overtaken(ks)
              /\ \E q \in PushRequest :
                    /\ new = {q} /\ q.of = bearer /\ q.at = "sent" /\ q.keys = ks
                    /\ \/ q.kind = "put" /\ \E k \in Everything : ks = {k}
                       \/ q.kind = "delete" /\ ks \subseteq Keys /\ q.value = Unset
                    /\ \A k \in ks : SameAt(q.value, v, k)
    PROVE  PushInv'
<1>1. /\ bearer \in Devices /\ bearer # Absent /\ page = "ready" /\ status[bearer] # "none"
      /\ acts + fails < MaxEvents
    BY DevicesAssumption DEF CanAct, PushInv, PushTypeOK, RequestsInv
<1>2. UNCHANGED <<states, exchange, made, status, rows, quiet, pushSubs, bearer, page, fails>>
    BY DEF hubState
<1>3. /\ new \subseteq PushRequest
      /\ \A q \in new :
            /\ q.of = bearer /\ q.at = "sent" /\ q.keys = ks /\ q.kind \in {"put", "delete"}
            /\ q.kind = "put" => \E k \in Everything : ks = {k}
            /\ q.kind = "delete" => ks \subseteq Keys /\ q.value = Unset
            /\ \A k \in ks : SameAt(q.value, v, k)
            /\ doubtful' = doubtful \cup Overtaken(ks) /\ new = {q}
    OBVIOUS
<1>4. Overtaken(ks) \subseteq ks
    BY DEF Overtaken
<1>5. doubtful \subseteq doubtful' /\ doubtful' \subseteq doubtful \cup ks
    BY <1>4
<1>6. PushTypeOK'
  <2>1. shown'.rows \in [Keys -> RowValue] /\ shown'.dnd \in Dnd
      BY DEF Value
  <2>2. acts' \in 0 .. MaxEvents
      BY <1>1, PushBoundsAssumption DEF PushInv, PushTypeOK
  <2>3. \A r \in requests' : r.at \in {"sent", "let_in", "done", "refused"} /\ status'[r.of] # "none"
      BY <1>1, <1>2, <1>3 DEF PushInv, PushTypeOK
  <2>4. doubtful' \subseteq Everything
      BY <1>5 DEF PushInv, PushTypeOK
  <2> QED BY <1>2, <2>1, <2>2, <2>3, <2>4 DEF PushInv, PushTypeOK
<1>7. RequestsInv'
  <2>1. requests' \subseteq PushRequest /\ shown' \in Value
      BY <1>3 DEF PushInv, RequestsInv
  <2>2. \A r \in requests' :
            /\ r.kind = "put" => \E k \in Everything : r.keys = {k}
            /\ r.kind = "delete" => r.keys \subseteq Keys /\ r.value = Unset
            /\ r.kind = "subscribe" => r.keys = {}
      BY <1>3 DEF PushInv, RequestsInv
  <2> QED BY <1>1, <1>2, <2>1, <2>2 DEF RequestsInv
<1>8. \A r : Own(r)' = Own(r)
    BY <1>2 DEF Own
<1>9. LoadingInv'
  <2>1. \A g \in requests : ~(g.kind = "get" /\ g.of = bearer)
      BY <1>1 DEF PushInv, LoadingInv
  <2>2. \A g \in requests' : ~(g.kind = "get" /\ g.of = bearer)
      BY <1>3, <2>1
  <2> QED BY <1>1, <1>2, <2>2 DEF LoadingInv
<1>10. HubHas(bearer)' = HubHas(bearer)
    BY <1>2 DEF HubHas, Settings
<1>11. \A k : k \in Moving' <=> k \in Moving \/ (new # {} /\ k \in ks)
    BY <1>2, <1>3 DEF Moving
<1>12. ASSUME NEW k \in Everything \ (doubtful' \cup Moving')
       PROVE  SameAt(shown', HubHas(bearer)', k)
  <2>1. k \notin ks
    <3>1. CASE new = {}
        BY <3>1
    <3>2. CASE new # {}
        BY <1>11, <3>2
    <3> QED BY <3>1, <3>2
  <2>2. SameAt(shown, HubHas(bearer), k)
      BY <1>1, <1>5, <1>11 DEF PushInv, ReadyInv
  <2>3. SameAt(shown, v, k)
      BY <2>1
  <2> QED BY <1>10, <2>2, <2>3 DEF SameAt
<1>13. ASSUME NEW r \in requests', NEW k \in r.keys \ doubtful', Own(r)
       PROVE  /\ r.kind # "old"
              /\ \A q \in requests' : Own(q) /\ k \in q.keys => q = r
              /\ SameAt(r.value, shown', k)
              /\ r.kind = "put" /\ r.at = "done" => SameAt(shown', HubHas(bearer)', k)
  <2>1. CASE r \in new
    <3>1. k \in ks /\ k \notin Overtaken(ks)
        BY <1>3, <2>1
    <3>2. \A q \in requests : ~(Own(q) /\ k \in q.keys)
        BY <3>1 DEF Overtaken, Own
    <3> QED BY <1>3, <2>1, <3>1, <3>2
  <2>2. CASE r \notin new
    <3>1. r \in requests /\ k \notin doubtful
        BY <1>5, <2>2
    <3>2. /\ r.kind # "old"
          /\ \A q \in requests : Own(q) /\ k \in q.keys => q = r
          /\ SameAt(r.value, shown, k)
          /\ r.kind = "put" /\ r.at = "done" => SameAt(shown, HubHas(bearer), k)
        BY <1>1, <1>13, <3>1 DEF PushInv, ReadyInv
    <3>3. k \notin ks
      <4>1. new = {} => k \notin ks
          BY <1>13
      <4>2. k \in ks => k \in Overtaken(ks)
          BY <1>13, <3>1 DEF Overtaken, Own
      <4> QED BY <1>13, <4>1, <4>2, <1>3
    <3>4. k \in Everything
        BY <3>1 DEF PushInv, RequestsInv, PushRequest
    <3>5. SameAt(shown, v, k)
        BY <3>3, <3>4
    <3>6. \A q \in new : k \notin q.keys
        BY <1>3, <3>3
    <3>7. SameAt(r.value, shown', k) /\ (r.kind = "put" /\ r.at = "done" => SameAt(shown', HubHas(bearer)', k))
        BY <1>10, <3>2, <3>5 DEF SameAt
    <3> QED BY <3>2, <3>6, <3>7
  <2> QED BY <2>1, <2>2
<1>14. ReadyInv'
    BY <1>2, <1>8, <1>12, <1>13 DEF ReadyInv
<1> QED BY <1>2, <1>6, <1>7, <1>9, <1>14, LoginStands DEF PushInv

\* A row of values is one, a switch more or less.
LEMMA RowTypes ==
    ASSUME NEW rs \in [Keys -> RowValue], NEW k \in Keys, NEW x \in RowValue
    PROVE  [rs EXCEPT ![k] = x] \in [Keys -> RowValue]
BY DEF RowValue

LEMMA SetSubStep ==
    ASSUME PushInv, NEW t \in Topics, NEW scope \in Scopes, SetSub(t, scope)
    PROVE  PushInv'
<1> DEFINE k == <<t, scope>>
<1>1. k \in Keys /\ k \in Everything /\ k # <<"dnd">>
    BY DndIsNoRow DEF Keys, Everything
<1> HIDE DEF k
<1>2. PICK x \in {"on", "off"} :
          /\ CanAct
          /\ Shows([shown.rows EXCEPT ![k] = x], shown.dnd,
                   {Asks("put", bearer, {k}, Settings([NoRows EXCEPT ![k] = x], NoDnd))})
          /\ doubtful' = doubtful \cup Overtaken({k})
    BY DEF SetSub, k
<1> DEFINE v == Settings([shown.rows EXCEPT ![k] = x], shown.dnd)
           q == Asks("put", bearer, {k}, Settings([NoRows EXCEPT ![k] = x], NoDnd))
<1>3. x \in RowValue
    BY DEF RowValue
<1>4. shown.rows \in [Keys -> RowValue] /\ shown.dnd \in Dnd /\ acts \in Nat /\ bearer \in Devices
    BY <1>2, PushBoundsAssumption DEF PushInv, PushTypeOK, CanAct
<1>5. v \in Value /\ \A j \in Everything \ {k} : SameAt(shown, v, j)
  <2>1. v.rows \in [Keys -> RowValue] /\ v.dnd = shown.dnd
      BY <1>1, <1>3, <1>4, RowTypes DEF Settings
  <2>2. \A j \in Keys \ {k} : v.rows[j] = shown.rows[j]
      BY <1>4 DEF Settings
  <2> QED BY <1>4, <2>1, <2>2, DndIsNoRow DEF Value, SameAt, Settings
<1>6. q \in PushRequest /\ q.of = bearer /\ q.at = "sent" /\ q.keys = {k} /\ q.kind = "put"
  <2>1. Settings([NoRows EXCEPT ![k] = x], NoDnd) \in Value
      BY <1>1, <1>3, UnsetType, RowTypes DEF Value, Settings
  <2> QED BY <1>1, <1>4, <2>1 DEF PushRequest, Asks
<1>7. SameAt(q.value, v, k)
    BY <1>1, <1>4, UnsetType DEF SameAt, Asks, Settings
<1>8. /\ shown' = v /\ requests' = requests \cup {q} /\ acts' = acts + 1
      /\ UNCHANGED <<hubState, bearer, page, fails>>
    BY <1>2 DEF Shows
<1> HIDE DEF v, q
<1>9. /\ {k} \in SUBSET Everything
      /\ \E r \in PushRequest :
            /\ {q} = {r} /\ r.of = bearer /\ r.at = "sent" /\ r.keys = {k}
            /\ \/ r.kind = "put" /\ \E j \in Everything : {k} = {j}
               \/ r.kind = "delete" /\ {k} \subseteq Keys /\ r.value = Unset
            /\ \A j \in {k} : SameAt(r.value, v, j)
    BY <1>1, <1>6, <1>7
<1> QED BY <1>2, <1>5, <1>8, <1>9, ChangeKeeps

LEMMA ResetDaemonStep ==
    ASSUME PushInv, NEW lazy \in BOOLEAN, ResetDaemon(lazy)
    PROVE  PushInv'
<1> DEFINE over == {k \in Topics \X {"daemon"} : shown.rows[k] # "unset"}
           v == Settings([k \in Keys |-> IF k \in over THEN "unset" ELSE shown.rows[k]], shown.dnd)
           q == Asks("delete", bearer, over, Unset)
           new == IF lazy \/ over = {} THEN {} ELSE {q}
<1>1. /\ CanAct /\ shown' = v /\ requests' = requests \cup new /\ acts' = acts + 1
      /\ UNCHANGED <<hubState, bearer, page, fails>>
      /\ doubtful' = doubtful \cup (IF lazy THEN over ELSE Overtaken(over))
    BY DEF ResetDaemon, Shows
<1>2. over \subseteq Keys
    BY DEF Keys, Scopes
<1> HIDE DEF over
<1>3. over \in SUBSET Everything
    BY <1>2 DEF Everything
<1>4. shown.rows \in [Keys -> RowValue] /\ shown.dnd \in Dnd /\ acts \in Nat /\ bearer \in Devices
    BY <1>1, PushBoundsAssumption DEF PushInv, PushTypeOK, CanAct
<1>5. v \in Value /\ \A j \in Everything \ over : SameAt(shown, v, j)
  <2>1. v.rows \in [Keys -> RowValue] /\ v.dnd = shown.dnd
      BY <1>4 DEF Settings, RowValue
  <2>2. \A j \in Keys \ over : v.rows[j] = shown.rows[j]
      BY <1>4 DEF Settings
  <2> QED BY <1>4, <2>1, <2>2, DndIsNoRow DEF Value, SameAt, Settings
<1>6. /\ q \in PushRequest /\ q.of = bearer /\ q.at = "sent" /\ q.keys = over /\ q.kind = "delete"
      /\ q.value = Unset
    BY <1>3, <1>4, UnsetType DEF PushRequest, Asks
<1>7. \A k \in over : SameAt(q.value, v, k)
  <2>1. \A k \in over : k \in Keys /\ k # <<"dnd">>
      BY <1>2, DndIsNoRow
  <2> QED BY <1>6, <2>1 DEF SameAt, Unset, NoRows, Settings
<1> HIDE DEF v, q
<1>8. Overtaken({}) = {}
    BY DEF Overtaken
<1>9. \/ over = {} /\ new = {} /\ doubtful' = doubtful
      \/ new = {} /\ doubtful' = doubtful \cup over
      \/ /\ doubtful' = doubtful \cup Overtaken(over)
         /\ \E r \in PushRequest :
               /\ new = {r} /\ r.of = bearer /\ r.at = "sent" /\ r.keys = over
               /\ \/ r.kind = "put" /\ \E k \in Everything : over = {k}
                  \/ r.kind = "delete" /\ over \subseteq Keys /\ r.value = Unset
               /\ \A k \in over : SameAt(r.value, v, k)
  <2>1. CASE lazy
      BY <1>1, <2>1
  <2>2. CASE ~lazy /\ over = {}
      BY <1>1, <1>8, <2>2
  <2>3. CASE ~lazy /\ over # {}
      BY <1>1, <1>2, <1>6, <1>7, <2>3
  <2> QED BY <2>1, <2>2, <2>3
<1> HIDE DEF new
<1> QED BY <1>1, <1>3, <1>5, <1>9, ChangeKeeps

LEMMA SetDndStep ==
    ASSUME PushInv, SetDnd
    PROVE  PushInv'
<1>1. PICK next \in Dnd :
          /\ CanAct
          /\ Shows(shown.rows, next, {Asks("put", bearer, {<<"dnd">>}, Settings(NoRows, next))})
          /\ doubtful' = doubtful \cup Overtaken({<<"dnd">>})
  <2>1. \A e \in BOOLEAN, f, t \in {Absent, Blank, Evening, Morning} : Filled(e, f, t) \in Dnd
      BY DEF Filled, Dnd
  <2> QED BY <2>1 DEF SetDnd
<1> DEFINE k == <<"dnd">>
           v == Settings(shown.rows, next)
           q == Asks("put", bearer, {k}, Settings(NoRows, next))
<1>2. k \in Everything
    BY DEF Everything
<1>3. shown.rows \in [Keys -> RowValue] /\ acts \in Nat /\ bearer \in Devices
    BY <1>1, PushBoundsAssumption DEF PushInv, PushTypeOK, CanAct
<1>4. v \in Value /\ \A j \in Everything \ {k} : SameAt(shown, v, j)
    BY <1>3 DEF Value, SameAt, Settings
<1>5. q \in PushRequest /\ q.of = bearer /\ q.at = "sent" /\ q.keys = {k} /\ q.kind = "put"
  <2>1. Settings(NoRows, next) \in Value
      BY UnsetType DEF Value, Settings
  <2> QED BY <1>2, <1>3, <2>1 DEF PushRequest, Asks
<1>6. SameAt(q.value, v, k)
    BY DEF SameAt, Asks, Settings
<1>7. /\ shown' = v /\ requests' = requests \cup {q} /\ acts' = acts + 1
      /\ UNCHANGED <<hubState, bearer, page, fails>>
    BY <1>1 DEF Shows
<1> HIDE DEF v, q, k
<1>8. doubtful' = doubtful \cup Overtaken({k})
    BY <1>1 DEF k
<1>9. /\ {k} \in SUBSET Everything
      /\ \E r \in PushRequest :
            /\ {q} = {r} /\ r.of = bearer /\ r.at = "sent" /\ r.keys = {k}
            /\ \/ r.kind = "put" /\ \E j \in Everything : {k} = {j}
               \/ r.kind = "delete" /\ {k} \subseteq Keys /\ r.value = Unset
            /\ \A j \in {k} : SameAt(r.value, v, j)
    BY <1>2, <1>5, <1>6
<1> QED BY <1>1, <1>4, <1>7, <1>8, <1>9, ChangeKeeps

LEMMA PageRetryStep ==
    ASSUME PushInv, Retry
    PROVE  PushInv'
<1>1. /\ bearer \in Devices /\ bearer # Absent /\ page = "error" /\ page' = "loading"
      /\ status[bearer] # "none" /\ acts' = acts + 1 /\ acts + fails < MaxEvents
      /\ requests' = requests \cup {Get(bearer)}
      /\ UNCHANGED <<states, exchange, made, status, rows, quiet, pushSubs, bearer, shown, doubtful, fails>>
    BY DEF Retry, hubState, PushInv, PushTypeOK, RequestsInv
<1>2. acts \in Nat
    BY PushBoundsAssumption DEF PushInv, PushTypeOK
<1>3. Get(bearer) \in PushRequest /\ Get(bearer).kind = "get" /\ Get(bearer).of = bearer /\ Get(bearer).at = "sent"
    BY <1>1, <1>2, UnsetType DEF Get, Asks, PushRequest
<1>4. PushTypeOK'
  <2>1. acts' \in 0 .. MaxEvents
      BY <1>1, PushBoundsAssumption DEF PushInv, PushTypeOK
  <2>2. \A r \in requests' : r.at \in {"sent", "let_in", "done", "refused"} /\ status'[r.of] # "none"
      BY <1>1, <1>3 DEF PushInv, PushTypeOK
  <2> QED BY <1>1, <2>1, <2>2 DEF PushInv, PushTypeOK
<1>5. RequestsInv'
    BY <1>1, <1>3 DEF PushInv, RequestsInv
<1>6. \A g \in requests' : g.kind = "get" /\ g.of = bearer => g = Get(bearer)
    BY <1>1 DEF PushInv, LoadingInv
<1>7. \A r \in requests' : Own(r) => r.kind \notin {"put", "delete"}
    BY <1>1, <1>3 DEF PushInv, LoadingInv, Own
<1>8. LoadingInv'
    BY <1>1, <1>3, <1>6, <1>7 DEF LoadingInv, Own
<1>9. ReadyInv'
    BY <1>1 DEF ReadyInv
<1> QED BY <1>1, <1>4, <1>5, <1>8, <1>9, LoginStands DEF PushInv


-----------------------------------------------------------------------------
(* The requests at the hub, and their answers.                             *)

\* A request goes on: it may lose the keys whose rows it has written, and what
\* it has written is what it asks for.
LEMMA RequestGoesOn ==
    ASSUME PushInv, NEW r \in requests, r.kind # "get", NEW q,
           q.of = r.of, q.kind = r.kind, q.value = r.value, q.keys \subseteq r.keys,
           requests' = (requests \ {r}) \cup {q},
           UNCHANGED <<bearer, page, shown, doubtful>>,
           \A k \in Everything : k \notin r.keys \/ r.of # bearer =>
               SameAt(HubHas(bearer), HubHas(bearer)', k),
           \A k \in r.keys : Own(r) /\ (k \notin q.keys \/ (q.kind = "put" /\ q.at = "done")) =>
               SameAt(r.value, HubHas(bearer)', k)
    PROVE  LoadingInv' /\ ReadyInv'
<1>1. \A x : Own(x)' = Own(x)
    BY DEF Own
<1>2. /\ Own(q) <=> Own(r)
      /\ \A x \in requests' : x = q \/ (x \in requests /\ x # r)
      /\ \A x \in requests' : x.kind = "get" => x \in requests
    BY DEF Own
<1>3. \A x \in requests : x.keys \subseteq Everything
    BY DEF PushInv, RequestsInv, PushRequest
<1>4. LoadingInv'
  <2> SUFFICES ASSUME bearer # Absent PROVE LoadingInv'
      BY DEF LoadingInv
  <2>1. ASSUME NEW g \in requests', g.kind = "get", g.of = bearer
        PROVE  /\ page = "loading"
               /\ \A h \in requests' : h.kind = "get" /\ h.of = bearer => h = g
               /\ g.at = "done" =>
                     /\ \A x \in requests' : Own(x) => x.keys \subseteq g.keys
                     /\ \A k \in Everything \ g.keys : SameAt(g.value, HubHas(bearer)', k)
    <3>1. /\ g \in requests /\ page = "loading"
          /\ \A h \in requests : h.kind = "get" /\ h.of = bearer => h = g
          /\ g.at = "done" =>
                /\ \A x \in requests : Own(x) => x.keys \subseteq g.keys
                /\ \A k \in Everything \ g.keys : SameAt(g.value, HubHas(bearer), k)
        BY <1>2, <2>1 DEF PushInv, LoadingInv
    <3>2. ASSUME g.at = "done", NEW x \in requests', Own(x) PROVE x.keys \subseteq g.keys
      <4>1. CASE x = q
          BY <1>2, <3>1, <3>2, <4>1
      <4> QED BY <1>2, <3>1, <3>2, <4>1
    <3>3. ASSUME g.at = "done", NEW k \in Everything \ g.keys
          PROVE  SameAt(g.value, HubHas(bearer)', k)
      <4>1. k \notin r.keys \/ r.of # bearer
          BY <3>1, <3>3 DEF Own
      <4>2. SameAt(HubHas(bearer), HubHas(bearer)', k) /\ SameAt(g.value, HubHas(bearer), k)
          BY <3>1, <3>3, <4>1
      <4> QED BY <4>2 DEF SameAt
    <3> QED BY <1>2, <3>1, <3>2, <3>3
  <2>2. page # "ready" => \A x \in requests' : Own(x) => x.kind \notin {"put", "delete"}
      BY <1>2 DEF PushInv, LoadingInv
  <2> QED BY <1>1, <2>1, <2>2 DEF LoadingInv
<1>5. ReadyInv'
  <2> SUFFICES ASSUME bearer # Absent, page = "ready" PROVE ReadyInv'
      BY DEF ReadyInv
  <2>1. /\ \A k \in Everything \ (doubtful \cup Moving) : SameAt(shown, HubHas(bearer), k)
        /\ \A x \in requests : \A k \in x.keys \ doubtful : Own(x) =>
              /\ x.kind # "old"
              /\ \A y \in requests : Own(y) /\ k \in y.keys => y = x
              /\ SameAt(x.value, shown, k)
              /\ x.kind = "put" /\ x.at = "done" => SameAt(shown, HubHas(bearer), k)
      BY DEF PushInv, ReadyInv
  <2>2. ASSUME NEW k \in Everything \ (doubtful \cup Moving')
        PROVE  SameAt(shown, HubHas(bearer)', k)
    <3>1. \A x \in requests : Own(x) /\ k \in x.keys => x = r
        BY <1>1, <2>2 DEF Moving, Own
    <3>2. Own(r) => k \notin q.keys
        BY <1>1, <1>2, <2>2 DEF Moving, Own
    <3>3. CASE Own(r) /\ k \in r.keys
      <4>1. SameAt(r.value, shown, k) /\ SameAt(r.value, HubHas(bearer)', k)
          BY <2>1, <2>2, <3>2, <3>3
      <4> QED BY <4>1 DEF SameAt
    <3>4. CASE ~(Own(r) /\ k \in r.keys)
      <4>1. k \notin Moving
          BY <3>1, <3>4 DEF Moving, Own
      <4>2. k \notin r.keys \/ r.of # bearer
          BY <3>4 DEF Own
      <4>3. SameAt(shown, HubHas(bearer), k) /\ SameAt(HubHas(bearer), HubHas(bearer)', k)
          BY <2>1, <2>2, <4>1, <4>2
      <4> QED BY <4>3 DEF SameAt
    <3> QED BY <3>3, <3>4
  <2>3. ASSUME NEW x \in requests', NEW k \in x.keys \ doubtful, Own(x)
        PROVE  /\ x.kind # "old"
               /\ \A y \in requests' : Own(y) /\ k \in y.keys => y = x
               /\ SameAt(x.value, shown, k)
               /\ x.kind = "put" /\ x.at = "done" => SameAt(shown, HubHas(bearer)', k)
    <3>1. CASE x = q
      <4>1. k \in r.keys /\ Own(r)
          BY <1>2, <2>3, <3>1
      <4>2. /\ r.kind # "old"
            /\ \A y \in requests : Own(y) /\ k \in y.keys => y = r
            /\ SameAt(r.value, shown, k)
          BY <2>1, <2>3, <4>1
      <4>3. x.kind = "put" /\ x.at = "done" => SameAt(r.value, HubHas(bearer)', k)
          BY <3>1, <4>1
      <4>4. x.kind = "put" /\ x.at = "done" => SameAt(shown, HubHas(bearer)', k)
          BY <4>2, <4>3 DEF SameAt
      <4> QED BY <1>2, <3>1, <4>2, <4>4
    <3>2. CASE x # q
      <4>1. x \in requests /\ x # r
          BY <1>2, <3>2
      <4>2. /\ x.kind # "old"
            /\ \A y \in requests : Own(y) /\ k \in y.keys => y = x
            /\ SameAt(x.value, shown, k)
            /\ x.kind = "put" /\ x.at = "done" => SameAt(shown, HubHas(bearer), k)
          BY <2>1, <2>3, <4>1
      <4>3. k \notin r.keys \/ r.of # bearer
          BY <4>1, <4>2 DEF Own
      <4>4. ~(Own(q) /\ k \in q.keys)
          BY <1>2, <4>3 DEF Own
      <4>5. SameAt(HubHas(bearer), HubHas(bearer)', k)
          BY <1>3, <4>1, <4>3
      <4>6. x.kind = "put" /\ x.at = "done" => SameAt(shown, HubHas(bearer)', k)
          BY <4>2, <4>5 DEF SameAt
      <4> QED BY <1>2, <4>2, <4>4, <4>6
    <3> QED BY <3>1, <3>2
  <2> QED BY <1>1, <2>2, <2>3 DEF ReadyInv
<1> QED BY <1>4, <1>5

\* A request is over: its keys are settled, or in doubt.
LEMMA RequestIsOver ==
    ASSUME PushInv, NEW r \in requests, ~(r.kind = "get" /\ r.of = bearer),
           requests' = requests \ {r}, UNCHANGED <<bearer, page, shown, rows, quiet>>,
           doubtful \subseteq doubtful',
           \A k \in r.keys \ doubtful' :
              r.kind \in {"put", "delete"} => r.kind = "put" /\ r.at = "done"
    PROVE  LoadingInv' /\ ReadyInv'
<1>1. /\ \A x : Own(x)' = Own(x)
      /\ HubHas(bearer)' = HubHas(bearer)
    BY DEF Own, HubHas, Settings
<1>2. LoadingInv'
    BY <1>1 DEF PushInv, LoadingInv, SameAt
<1>3. ReadyInv'
  <2> SUFFICES ASSUME bearer # Absent, page = "ready" PROVE ReadyInv'
      BY DEF ReadyInv
  <2>1. /\ \A k \in Everything \ (doubtful \cup Moving) : SameAt(shown, HubHas(bearer), k)
        /\ \A x \in requests : \A k \in x.keys \ doubtful : Own(x) =>
              /\ x.kind # "old"
              /\ \A y \in requests : Own(y) /\ k \in y.keys => y = x
              /\ SameAt(x.value, shown, k)
              /\ x.kind = "put" /\ x.at = "done" => SameAt(shown, HubHas(bearer), k)
      BY DEF PushInv, ReadyInv
  <2>2. ASSUME NEW k \in Everything \ (doubtful' \cup Moving')
        PROVE  SameAt(shown, HubHas(bearer), k)
    <3>1. \A x \in requests : Own(x) /\ k \in x.keys => x = r
        BY <1>1, <2>2 DEF Moving, Own
    <3>2. CASE Own(r) /\ k \in r.keys
      <4>1. r.kind # "old" /\ (r.kind = "put" /\ r.at = "done" => SameAt(shown, HubHas(bearer), k))
          BY <2>1, <2>2, <3>2
      <4>2. r.kind \in {"put", "delete"}
        <5>1. r.kind \in {"get", "subscribe", "put", "delete", "old"} /\ r.kind # "subscribe"
            BY <3>2 DEF PushInv, RequestsInv, PushRequest
        <5> QED BY <3>2, <4>1, <5>1 DEF Own
      <4> QED BY <2>2, <3>2, <4>1, <4>2
    <3>3. CASE ~(Own(r) /\ k \in r.keys)
      <4>1. k \notin Moving
          BY <3>1, <3>3 DEF Moving, Own
      <4> QED BY <2>1, <2>2, <4>1
    <3> QED BY <3>2, <3>3
  <2>3. ASSUME NEW x \in requests', NEW k \in x.keys \ doubtful', Own(x)
        PROVE  /\ x.kind # "old"
               /\ \A y \in requests' : Own(y) /\ k \in y.keys => y = x
               /\ SameAt(x.value, shown, k)
               /\ x.kind = "put" /\ x.at = "done" => SameAt(shown, HubHas(bearer), k)
      BY <2>1, <2>3
  <2> QED BY <1>1, <2>2, <2>3 DEF ReadyInv
<1> QED BY <1>2, <1>3

\* The types, when one request is replaced by one of its device or leaves.
LEMMA RequestTypes ==
    ASSUME PushInv, NEW r \in requests, NEW q \in PushRequest, q.of = r.of,
           requests' \subseteq (requests \ {r}) \cup {q},
           q.kind = "put" => \E k \in Everything : q.keys = {k},
           q.kind = "delete" => q.keys \subseteq Keys /\ q.value = Unset,
           q.kind = "subscribe" => q.keys = {},
           UNCHANGED <<states, exchange, made, status, bearer, acts>>,
           rows' \in [Devices -> [Keys -> RowValue]], quiet' \in [Devices -> Dnd],
           pushSubs' \subseteq Devices, page' \in {"loading", "error", "ready"},
           shown' \in Value, doubtful' \subseteq Everything, fails' \in 0 .. MaxFails
    PROVE  PushTypeOK' /\ RequestsInv' /\ LoginInv'
<1>1. \A x \in requests' : x = q \/ x \in requests
    OBVIOUS
<1>2. status[q.of] # "none" /\ q.at \in {"sent", "let_in", "done", "refused"}
    BY DEF PushInv, PushTypeOK, PushRequest
<1>3. shown'.rows \in [Keys -> RowValue] /\ shown'.dnd \in Dnd
    BY DEF Value
<1>4. PushTypeOK'
  <2>1. \A x \in requests' : x.at \in {"sent", "let_in", "done", "refused"} /\ status'[x.of] # "none"
      BY <1>1, <1>2 DEF PushInv, PushTypeOK
  <2> QED BY <1>3, <2>1 DEF PushInv, PushTypeOK
<1>5. RequestsInv'
    BY <1>1 DEF PushInv, RequestsInv
<1> QED BY <1>4, <1>5, LoginStands DEF PushInv

LEMMA PushTypes ==
    ASSUME PushInv
    PROVE  /\ requests \subseteq PushRequest /\ shown \in Value
           /\ rows \in [Devices -> [Keys -> RowValue]] /\ quiet \in [Devices -> Dnd]
           /\ pushSubs \subseteq Devices /\ page \in {"loading", "error", "ready"}
           /\ doubtful \subseteq Everything /\ fails \in 0 .. MaxFails
           /\ \A r \in requests :
                 /\ r.kind = "put" => \E k \in Everything : r.keys = {k}
                 /\ r.kind = "delete" => r.keys \subseteq Keys /\ r.value = Unset
                 /\ r.kind = "subscribe" => r.keys = {}
BY DEF PushInv, PushTypeOK, RequestsInv

LEMMA PageAuthenticateStep ==
    ASSUME PushInv, NEW r \in requests, AuthenticatePwa(r)
    PROVE  PushInv'
<1> DEFINE q == [r EXCEPT !.at = IF status[r.of] = "live" THEN "let_in" ELSE "refused"]
<1>1. /\ r.at = "sent" /\ requests' = (requests \ {r}) \cup {q}
      /\ UNCHANGED <<states, exchange, made, status, rows, quiet, pushSubs, bearer, page, shown, doubtful, acts, fails>>
    BY DEF AuthenticatePwa, Becomes, hubState, browser
<1>2. q \in PushRequest /\ q.of = r.of /\ q.kind = r.kind /\ q.value = r.value /\ q.keys = r.keys /\ q.at # "done"
    BY PushTypes DEF PushRequest
<1> HIDE DEF q
<1>3. PushTypeOK' /\ RequestsInv' /\ LoginInv'
    BY <1>1, <1>2, PushTypes, RequestTypes
<1>4. HubHas(bearer)' = HubHas(bearer)
    BY <1>1 DEF HubHas, Settings
<1>5. CASE r.kind # "get"
  <2>1. \A k \in Everything : SameAt(HubHas(bearer), HubHas(bearer)', k)
      BY <1>4 DEF SameAt
  <2>2. LoadingInv' /\ ReadyInv'
      BY <1>1, <1>2, <1>5, <2>1, RequestGoesOn
  <2> QED BY <1>3, <2>2 DEF PushInv
<1>6. CASE r.kind = "get"
  <2>1. \A x : Own(x)' = Own(x)
      BY <1>1 DEF Own
  <2>2. \A x \in requests' : Own(x) => x \in requests
      BY <1>1, <1>2, <1>6 DEF Own
  <2>3. Moving' = Moving
      BY <1>1, <1>2, <1>6 DEF Moving
  <2>4. \A g, h \in requests' : g.kind = "get" /\ g.of = bearer /\ h.kind = "get" /\ h.of = bearer /\ bearer # Absent
            => g = h /\ page = "loading" /\ (g.at = "done" => g \in requests)
      BY <1>1, <1>2, <1>6 DEF PushInv, LoadingInv
  <2>5. LoadingInv'
      BY <1>1, <1>4, <2>1, <2>2, <2>4 DEF PushInv, LoadingInv
  <2>6. ReadyInv'
      BY <1>1, <1>4, <2>1, <2>2, <2>3 DEF PushInv, ReadyInv
  <2> QED BY <1>3, <2>5, <2>6 DEF PushInv
<1> QED BY <1>5, <1>6


\* What one row, or the quiet hours, of a device become.
LEMMA StoreEffect ==
    ASSUME PushInv, NEW r \in requests, NEW k \in r.keys, Stores(r, r.of, k)
    PROVE  /\ rows' \in [Devices -> [Keys -> RowValue]] /\ quiet' \in [Devices -> Dnd]
           /\ SameAt(r.value, HubHas(r.of)', k)
           /\ \A d \in Devices, j \in Everything : d # r.of \/ j # k =>
                 SameAt(HubHas(d), HubHas(d)', j)
<1>1. /\ r \in PushRequest /\ r.of \in Devices /\ k \in Everything
      /\ r.value.rows \in [Keys -> RowValue] /\ r.value.dnd \in Dnd
    BY PushTypes DEF PushRequest, Value
<1>2. rows \in [Devices -> [Keys -> RowValue]] /\ quiet \in [Devices -> Dnd]
    BY PushTypes
<1>3. CASE k = <<"dnd">>
  <2>1. rows' = rows /\ quiet' = [quiet EXCEPT ![r.of] = r.value.dnd]
      BY <1>3 DEF Stores
  <2>2. \A d \in Devices : quiet'[d] = IF d = r.of THEN r.value.dnd ELSE quiet[d]
      BY <1>2, <2>1
  <2>3. quiet' \in [Devices -> Dnd]
      BY <1>1, <1>2, <2>1
  <2> QED BY <1>1, <1>2, <1>3, <2>1, <2>2, <2>3 DEF SameAt, HubHas, Settings
<1>4. CASE k # <<"dnd">>
  <2>1. k \in Keys
      BY <1>1, <1>4, DndIsNoRow
  <2>2. quiet' = quiet /\ rows' = [rows EXCEPT ![r.of] = [rows[r.of] EXCEPT ![k] = r.value.rows[k]]]
      BY <1>4 DEF Stores
  <2>3. r.value.rows[k] \in RowValue /\ rows[r.of] \in [Keys -> RowValue]
      BY <1>1, <1>2, <2>1
  <2>4. [rows[r.of] EXCEPT ![k] = r.value.rows[k]] \in [Keys -> RowValue]
      BY <2>1, <2>3, RowTypes
  <2>5. rows' \in [Devices -> [Keys -> RowValue]]
      BY <1>1, <1>2, <2>2, <2>4
  <2>6. \A d \in Devices : rows'[d] = IF d = r.of THEN [rows[r.of] EXCEPT ![k] = r.value.rows[k]] ELSE rows[d]
      BY <1>2, <2>2
  <2>7. rows'[r.of][k] = r.value.rows[k]
      BY <1>1, <2>1, <2>3, <2>6
  <2>8. \A d \in Devices, j \in Keys : d # r.of \/ j # k => rows'[d][j] = rows[d][j]
      BY <2>3, <2>6
  <2>9. SameAt(r.value, HubHas(r.of)', k)
      BY <1>4, <2>7 DEF SameAt, HubHas, Settings
  <2>10. ASSUME NEW d \in Devices, NEW j \in Everything, d # r.of \/ j # k
         PROVE  SameAt(HubHas(d), HubHas(d)', j)
    <3>1. CASE j = <<"dnd">>
        BY <2>2, <3>1 DEF SameAt, HubHas, Settings
    <3>2. CASE j # <<"dnd">>
        BY <2>8, <2>10, <3>2, DndIsNoRow DEF SameAt, HubHas, Settings
    <3> QED BY <3>1, <3>2
  <2> QED BY <1>2, <2>2, <2>5, <2>9, <2>10
<1> QED BY <1>3, <1>4

LEMMA StoreStep ==
    ASSUME PushInv, NEW r \in requests, Store(r)
    PROVE  PushInv'
<1>1. /\ r.at = "let_in" /\ r.kind \in {"put", "delete", "old"}
      /\ UNCHANGED <<states, exchange, made, status, pushSubs, bearer, page, shown, doubtful, acts, fails>>
    BY DEF Store, browser
<1>2. r \in PushRequest /\ r.of \in Devices /\ r.keys \subseteq Everything
    BY PushTypes DEF PushRequest
<1>3. PICK k \in r.keys :
          IF Valid(r)
          THEN /\ Stores(r, r.of, k)
               /\ Becomes(r, [r EXCEPT !.at = "done", !.keys = IF r.kind = "put" THEN r.keys ELSE r.keys \ {k}])
          ELSE /\ Becomes(r, [r EXCEPT !.at = "refused"])
               /\ UNCHANGED <<rows, quiet>>
    BY DEF Store
<1>4. CASE Valid(r)
  <2> DEFINE q == [r EXCEPT !.at = "done", !.keys = IF r.kind = "put" THEN r.keys ELSE r.keys \ {k}]
  <2>1. Stores(r, r.of, k) /\ requests' = (requests \ {r}) \cup {q}
      BY <1>3, <1>4 DEF Becomes
  <2>2. /\ q \in PushRequest /\ q.of = r.of /\ q.kind = r.kind /\ q.value = r.value
        /\ q.keys = IF r.kind = "put" THEN r.keys ELSE r.keys \ {k}
      BY <1>2 DEF PushRequest
  <2> HIDE DEF q
  <2>3. /\ rows' \in [Devices -> [Keys -> RowValue]] /\ quiet' \in [Devices -> Dnd]
        /\ SameAt(r.value, HubHas(r.of)', k)
        /\ \A d \in Devices, j \in Everything : d # r.of \/ j # k => SameAt(HubHas(d), HubHas(d)', j)
      BY <2>1, StoreEffect
  <2>4. r.kind = "put" => r.keys = {k}
      BY PushTypes
  <2>5. PushTypeOK' /\ RequestsInv' /\ LoginInv'
    <3>1. q.kind = "put" => \E j \in Everything : q.keys = {j}
        BY <2>2, PushTypes
    <3>2. q.kind = "delete" => q.keys \subseteq Keys /\ q.value = Unset
        BY <2>2, PushTypes
    <3>3. q.kind = "subscribe" => q.keys = {}
        BY <1>1, <2>2
    <3> QED BY <1>1, <2>1, <2>2, <2>3, <3>1, <3>2, <3>3, PushTypes, RequestTypes
  <2>6. LoadingInv' /\ ReadyInv'
    <3>1. CASE bearer = Absent
        BY <1>1, <3>1 DEF LoadingInv, ReadyInv
    <3>2. CASE bearer # Absent
      <4>1. bearer \in Devices
          BY <3>2 DEF PushInv, PushTypeOK
      <4>2. HubHas(bearer)' = Settings(rows'[bearer], quiet'[bearer])
          BY <1>1 DEF HubHas
      <4>3. \A j \in Everything : j \notin r.keys \/ r.of # bearer => SameAt(HubHas(bearer), HubHas(bearer)', j)
        <5>1. \A j \in Everything : bearer # r.of \/ j # k =>
                  SameAt(Settings(rows[bearer], quiet[bearer]), Settings(rows'[bearer], quiet'[bearer]), j)
            BY <2>3, <4>1 DEF HubHas
        <5> QED BY <4>2, <5>1 DEF HubHas
      <4>4. \A j \in r.keys : Own(r) /\ (j \notin q.keys \/ (q.kind = "put" /\ q.at = "done")) =>
                SameAt(r.value, HubHas(bearer)', j)
        <5>1. SameAt(r.value, Settings(rows'[r.of], quiet'[r.of]), k)
            BY <2>3 DEF HubHas
        <5>2. \A j \in r.keys : j \notin q.keys \/ q.kind = "put" => j = k
            BY <2>2, <2>4
        <5> QED BY <4>2, <5>1, <5>2 DEF Own
      <4>5. r.kind # "get" /\ q.keys \subseteq r.keys
          BY <1>1, <2>2
      <4> QED BY <1>1, <2>1, <2>2, <4>3, <4>4, <4>5, RequestGoesOn
    <3> QED BY <3>1, <3>2
  <2> QED BY <2>5, <2>6 DEF PushInv
<1>5. CASE ~Valid(r)
  <2> DEFINE q == [r EXCEPT !.at = "refused"]
  <2>1. requests' = (requests \ {r}) \cup {q} /\ UNCHANGED <<rows, quiet>>
      BY <1>3, <1>5 DEF Becomes
  <2>2. /\ q \in PushRequest /\ q.of = r.of /\ q.kind = r.kind /\ q.value = r.value /\ q.keys = r.keys
        /\ q.at = "refused"
      BY <1>2 DEF PushRequest
  <2> HIDE DEF q
  <2>3. PushTypeOK' /\ RequestsInv' /\ LoginInv'
      BY <1>1, <2>1, <2>2, PushTypes, RequestTypes
  <2>4. HubHas(bearer)' = HubHas(bearer)
      BY <1>1, <2>1 DEF HubHas, Settings
  <2>5. \A j \in Everything : SameAt(HubHas(bearer), HubHas(bearer)', j)
      BY <2>4 DEF SameAt
  <2>6. LoadingInv' /\ ReadyInv'
      BY <1>1, <2>1, <2>2, <2>5, RequestGoesOn
  <2> QED BY <2>3, <2>6 DEF PushInv
<1> QED BY <1>4, <1>5

LEMMA AddPushSubStep ==
    ASSUME PushInv, NEW r \in requests, AddPushSub(r)
    PROVE  PushInv'
<1>1. /\ r.kind = "subscribe" /\ pushSubs' = pushSubs \cup {r.of} /\ requests' = requests \ {r}
      /\ UNCHANGED <<states, exchange, made, status, rows, quiet, bearer, page, shown, doubtful, acts, fails>>
    BY DEF AddPushSub, browser
<1>2. r \in PushRequest /\ r.of \in Devices /\ r.keys = {}
    BY <1>1, PushTypes DEF PushRequest
<1>3. PushTypeOK' /\ RequestsInv' /\ LoginInv'
    BY <1>1, <1>2, PushTypes, RequestTypes
<1>4. LoadingInv' /\ ReadyInv'
    BY <1>1, <1>2, RequestIsOver
<1> QED BY <1>3, <1>4 DEF PushInv

LEMMA PageListStep ==
    ASSUME PushInv, NEW r \in requests, List(r)
    PROVE  PushInv'
<1> DEFINE ks == UNION {q.keys : q \in {x \in requests : x.of = r.of /\ x.kind \in {"old", "put", "delete"}}}
           q == [r EXCEPT !.at = "done", !.value = Settings(rows[r.of], quiet[r.of]), !.keys = ks]
<1>1. /\ r.kind = "get" /\ requests' = (requests \ {r}) \cup {q}
      /\ UNCHANGED <<states, exchange, made, status, rows, quiet, pushSubs, bearer, page, shown, doubtful, acts, fails>>
    BY DEF List, Becomes, hubState, browser
<1>2. r \in PushRequest /\ r.of \in Devices
    BY PushTypes DEF PushRequest
<1>3. ks \subseteq Everything
    BY PushTypes DEF PushRequest
<1>4. \A x \in requests : x.of = r.of /\ x.kind \in {"old", "put", "delete"} => x.keys \subseteq ks
    OBVIOUS
<1> HIDE DEF ks
<1>5. Settings(rows[r.of], quiet[r.of]) \in Value
    BY <1>2, PushTypes DEF Settings, Value
<1>6. /\ q \in PushRequest /\ q.of = r.of /\ q.kind = "get" /\ q.keys = ks
      /\ q.value = HubHas(r.of)
    BY <1>1, <1>2, <1>3, <1>5 DEF PushRequest, HubHas
<1> HIDE DEF q
<1>7. PushTypeOK' /\ RequestsInv' /\ LoginInv'
    BY <1>1, <1>6, PushTypes, RequestTypes
<1>8. /\ \A x : Own(x)' = Own(x)
      /\ HubHas(bearer)' = HubHas(bearer) /\ Moving' = Moving
    BY <1>1, <1>6 DEF Own, HubHas, Settings, Moving
<1>9. \A x \in requests' : Own(x) => x \in requests
    BY <1>1, <1>6 DEF Own
<1>10. ReadyInv'
    BY <1>1, <1>8, <1>9 DEF PushInv, ReadyInv
<1>11. LoadingInv'
  <2>0. CASE bearer = Absent
      BY <1>1, <2>0 DEF LoadingInv
  <2>1. CASE bearer # Absent /\ r.of = bearer
    <3>1. \A g \in requests : g.kind = "get" /\ g.of = bearer => g = r
        BY <1>1, <2>1 DEF PushInv, LoadingInv
    <3>2. \A g \in requests' : g.kind = "get" /\ g.of = bearer => g = q
        BY <1>1, <3>1
    <3>3. page = "loading"
        BY <1>1, <2>1 DEF PushInv, LoadingInv
    <3>4. \A x \in requests' : Own(x) => x.keys \subseteq q.keys
      <4> SUFFICES ASSUME NEW x \in requests', Own(x) PROVE x.keys \subseteq q.keys
          OBVIOUS
      <4>1. x \in requests /\ x.of = r.of /\ x.kind # "get"
          BY <1>9, <2>1 DEF Own
      <4>2. x.kind \in {"get", "subscribe", "put", "delete", "old"} /\ (x.kind = "subscribe" => x.keys = {})
          BY <4>1, PushTypes DEF PushRequest
      <4> QED BY <1>4, <1>6, <4>1, <4>2
    <3>5. \A k : SameAt(q.value, HubHas(bearer), k)
        BY <1>6, <2>1 DEF SameAt
    <3>6. page # "ready" => \A x \in requests' : Own(x) => x.kind \notin {"put", "delete"}
        BY <1>9, <2>1 DEF PushInv, LoadingInv
    <3> QED BY <1>1, <1>8, <3>2, <3>3, <3>4, <3>5, <3>6 DEF LoadingInv
  <2>2. CASE bearer # Absent /\ r.of # bearer
    <3>1. \A g \in requests' : g.kind = "get" /\ g.of = bearer => g \in requests
        BY <1>1, <1>6, <2>2
    <3> QED BY <1>1, <1>8, <1>9, <3>1 DEF PushInv, LoadingInv
  <2> QED BY <2>0, <2>1, <2>2
<1> QED BY <1>7, <1>10, <1>11 DEF PushInv

LEMMA PageAnsweredStep ==
    ASSUME PushInv, NEW r \in requests, Answered(r)
    PROVE  PushInv'
<1>1. /\ r.at = "done"
      /\ UNCHANGED <<states, exchange, made, status, rows, quiet, pushSubs, bearer, acts, fails>>
    BY DEF Answered, hubState
<1>2. r \in PushRequest /\ r.of \in Devices /\ r.keys \subseteq Everything /\ r.value \in Value
    BY PushTypes DEF PushRequest
<1>3. CASE /\ r.kind = "get" /\ bearer = r.of
           /\ page' = "ready" /\ shown' = r.value /\ doubtful' = r.keys
           /\ requests' = requests \ {r}
  <2>1. PushTypeOK' /\ RequestsInv' /\ LoginInv'
      BY <1>1, <1>2, <1>3, PushTypes, RequestTypes
  <2>2. /\ \A x : Own(x)' = Own(x)
        /\ HubHas(bearer)' = HubHas(bearer)
      BY <1>1 DEF Own, HubHas, Settings
  <2>3. bearer # Absent
      BY <1>2, <1>3, DevicesAssumption
  <2>4. /\ \A g \in requests : g.kind = "get" /\ g.of = bearer => g = r
        /\ \A x \in requests : Own(x) => x.keys \subseteq r.keys
        /\ \A k \in Everything \ r.keys : SameAt(r.value, HubHas(bearer), k)
      BY <1>1, <1>3, <2>3 DEF PushInv, LoadingInv
  <2>5. LoadingInv'
      BY <1>1, <1>3, <2>4 DEF LoadingInv
  <2>6. ReadyInv'
      BY <1>1, <1>3, <2>2, <2>4 DEF ReadyInv
  <2> QED BY <2>1, <2>5, <2>6 DEF PushInv
<1>4. CASE /\ r.kind = "delete" /\ r.keys # {} /\ bearer = r.of
           /\ Becomes(r, [r EXCEPT !.at = "sent"])
           /\ UNCHANGED <<page, shown, doubtful>>
  <2> DEFINE q == [r EXCEPT !.at = "sent"]
  <2>1. requests' = (requests \ {r}) \cup {q}
      BY <1>4 DEF Becomes
  <2>2. /\ q \in PushRequest /\ q.of = r.of /\ q.kind = r.kind /\ q.value = r.value /\ q.keys = r.keys
        /\ q.at = "sent"
      BY <1>2 DEF PushRequest
  <2> HIDE DEF q
  <2>3. PushTypeOK' /\ RequestsInv' /\ LoginInv'
      BY <1>1, <1>4, <2>1, <2>2, PushTypes, RequestTypes
  <2>4. HubHas(bearer)' = HubHas(bearer)
      BY <1>1 DEF HubHas, Settings
  <2>5. \A j \in Everything : SameAt(HubHas(bearer), HubHas(bearer)', j)
      BY <2>4 DEF SameAt
  <2>6. LoadingInv' /\ ReadyInv'
      BY <1>1, <1>4, <2>1, <2>2, <2>5, RequestGoesOn
  <2> QED BY <2>3, <2>6 DEF PushInv
<1>5. CASE /\ \/ r.kind \in {"put", "old"} \/ (r.kind = "delete" /\ r.keys = {})
              \/ r.kind \in {"get", "delete"} /\ bearer # r.of
           /\ requests' = requests \ {r}
           /\ UNCHANGED <<page, shown, doubtful>>
  <2>1. PushTypeOK' /\ RequestsInv' /\ LoginInv'
      BY <1>1, <1>2, <1>5, PushTypes, RequestTypes
  <2>2. CASE r.kind = "delete" /\ bearer # r.of
    <3>1. /\ \A x : Own(x)' = Own(x)
          /\ HubHas(bearer)' = HubHas(bearer) /\ ~Own(r)
        BY <1>1, <2>2 DEF Own, HubHas, Settings
    <3>2. \A x \in requests : Own(x) => x \in requests'
        BY <1>5, <3>1
    <3>3. Moving' = Moving
        BY <1>1, <1>5, <2>2 DEF Moving
    <3>4. LoadingInv' /\ ReadyInv'
        BY <1>1, <1>5, <3>1, <3>3 DEF PushInv, LoadingInv, ReadyInv
    <3> QED BY <2>1, <3>4 DEF PushInv
  <2>3. CASE ~(r.kind = "delete" /\ bearer # r.of)
    <3>1. ~(r.kind = "get" /\ r.of = bearer)
        BY <1>5
    <3>2. \A k \in r.keys \ doubtful' : r.kind \in {"put", "delete"} => r.kind = "put" /\ r.at = "done"
        BY <1>1, <1>5, <2>3
    <3>3. LoadingInv' /\ ReadyInv'
        BY <1>1, <1>5, <3>1, <3>2, RequestIsOver
    <3> QED BY <2>1, <3>3 DEF PushInv
  <2> QED BY <2>2, <2>3
<1> QED BY <1>3, <1>4, <1>5 DEF Answered

LEMMA PageFailsStep ==
    ASSUME PushInv, NEW r \in requests, Refused(r) \/ Lost(r)
    PROVE  PushInv'
<1>1. /\ requests' = requests \ {r}
      /\ page' = IF r.kind = "get" /\ bearer = r.of THEN "error" ELSE page
      /\ doubtful' = IF r.kind \in {"put", "delete"} THEN doubtful \cup r.keys ELSE doubtful
      /\ UNCHANGED <<states, exchange, made, status, rows, quiet, pushSubs, bearer, shown, acts>>
    BY DEF Refused, Lost, Fails, hubState
<1>2. fails' \in 0 .. MaxFails
    BY PushBoundsAssumption DEF Refused, Lost, PushInv, PushTypeOK
<1>3. r \in PushRequest /\ r.keys \subseteq Everything
    BY PushTypes DEF PushRequest
<1>4. PushTypeOK' /\ RequestsInv' /\ LoginInv'
  <2>1. page' \in {"loading", "error", "ready"} /\ doubtful' \subseteq Everything
      BY <1>1, <1>3, PushTypes
  <2> QED BY <1>1, <1>2, <1>3, <2>1, PushTypes, RequestTypes
<1>5. CASE r.kind = "get" /\ bearer = r.of
  <2>1. bearer # Absent
      BY <1>3, <1>5, DevicesAssumption DEF PushRequest
  <2>2. /\ \A g \in requests : g.kind = "get" /\ g.of = bearer => g = r
        /\ page = "loading"
        /\ \A x \in requests : Own(x) => x.kind \notin {"put", "delete"}
      BY <1>5, <2>1 DEF PushInv, LoadingInv
  <2>3. LoadingInv' /\ ReadyInv'
      BY <1>1, <1>5, <2>2 DEF LoadingInv, ReadyInv, Own
  <2> QED BY <1>4, <2>3 DEF PushInv
<1>6. CASE ~(r.kind = "get" /\ bearer = r.of)
  <2>1. LoadingInv' /\ ReadyInv'
      BY <1>1, <1>6, RequestIsOver
  <2> QED BY <1>4, <2>1 DEF PushInv
<1> QED BY <1>5, <1>6

-----------------------------------------------------------------------------
(* PushSettings: every step, and what follows.                             *)

LEMMA PushStutter ==
    ASSUME PushInv, UNCHANGED pushVars
    PROVE  PushInv'
<1>1. UNCHANGED <<states, exchange, made, status, rows, quiet, pushSubs, bearer, page, shown,
                  requests, doubtful, acts, fails, browser>>
    BY DEF pushVars, hubState, browser
<1>2. PushTypeOK' /\ RequestsInv'
    BY <1>1 DEF PushInv, PushTypeOK, RequestsInv
<1> QED BY <1>1, <1>2, LoginStands, PageStands DEF PushInv

LEMMA PushStepInv == PushInv /\ [PushNext]_pushVars => PushInv'
<1> SUFFICES ASSUME PushInv, [PushNext]_pushVars PROVE PushInv'
    OBVIOUS
<1>1. CASE StartLogin \/ \E l \in Logins : Callback(l) \/ ExchangeFails(l)
    BY <1>1, LoginSteps
<1>2. ASSUME NEW l \in Logins, CreateDevice(l) PROVE PushInv'
    BY <1>2, CreateDeviceStep
<1>3. CASE Page
  <2>1. CASE SignOut
      BY <2>1, SignOutStep
  <2>2. CASE Reload
      BY <2>2, PageReloadStep
  <2>3. CASE Retry
      BY <2>3, PageRetryStep
  <2>4. CASE SetDnd
      BY <2>4, SetDndStep
  <2>5. ASSUME NEW t \in Topics, NEW scope \in Scopes, SetSub(t, scope) PROVE PushInv'
      BY <2>5, SetSubStep
  <2>6. ASSUME NEW lazy \in BOOLEAN, ResetDaemon(lazy) PROVE PushInv'
      BY <2>6, ResetDaemonStep
  <2> QED BY <1>3, <2>1, <2>2, <2>3, <2>4, <2>5, <2>6 DEF Page
<1>4. ASSUME NEW r \in requests, RequestNext(r) PROVE PushInv'
    BY <1>4, PageAuthenticateStep, StoreStep, AddPushSubStep, PageListStep, PageAnsweredStep,
        PageFailsStep
    DEF RequestNext
<1>5. ASSUME NEW d \in Devices, RevokeDevice(d) PROVE PushInv'
    BY <1>5, RevokeDeviceStep
<1>6. CASE UNCHANGED pushVars
    BY <1>6, PushStutter
<1> QED BY <1>1, <1>2, <1>3, <1>4, <1>5, <1>6 DEF PushNext

(***************************************************************************)
(* In every behaviour of the settings page, of a second page of the same   *)
(* user and of revocations, the subscriptions the hub pushes to are those  *)
(* of devices that are not revoked whose topics say so, and a page shows   *)
(* what the hub has or what it asked for (SettingsDrawer.tsx, routes.ts).  *)
(***************************************************************************)
THEOREM SettingsCorrect == PushSpec => []PushCorrect
<1>1. PushInit => PushInv
    BY PushInitInv
<1>2. PushInv /\ [PushNext]_pushVars => PushInv'
    BY PushStepInv
<1>3. PushInv => PushCorrect
    BY PushInvIsCorrect
<1> QED BY <1>1, <1>2, <1>3, PTL DEF PushSpec


-----------------------------------------------------------------------------
(* The notices of a device, after any history of pushes and clicks.        *)

TrayEvents == Pushes \cup Garbled \cup Clicks
Notes == {BuildPayload(c) : c \in Contexts} \cup {Unread}
Trays == [SomeDevices -> [tray : SUBSET Notes, windows : {0, 1}]]
NoTrays == [d \in SomeDevices |-> [tray |-> {}, windows |-> 0]]
TrayStep == [p \in Trays \X TrayEvents |-> Step(p[1], p[2])]
Has(v, d, c) == BuildPayload(c) \in v[d].tray
Told(h, d, c, i) ==
    \E k \in 1 .. i :
        /\ h[k].act = "push" /\ h[k].ctx = c /\ d \notin h[k].gone
        /\ d = "phone" => \A j \in k + 1 .. i : ~(h[j].act = "click" /\ h[j].ctx = c)

\* What a payload says of its context, and no other does.
LEMMA PayloadsDiffer ==
    /\ \A a \in Contexts : BuildPayload(a).data = a /\ Unread.data # a
                           /\ BuildPayload(a).tag # Unread.tag
    /\ \A a, b \in Contexts : BuildPayload(a).tag = BuildPayload(b).tag => a = b
BY DEF Contexts, Permission, IdleOf, BuildPayload, Tag, Unread

\* In a tray, the notices of a context are its payload or none.
LEMMA NoticesAre ==
    ASSUME NEW d, d.tray \subseteq Notes, NEW c \in Contexts
    PROVE  NoticesOf(d, c) = IF BuildPayload(c) \in d.tray THEN {BuildPayload(c)} ELSE {}
BY PayloadsDiffer DEF NoticesOf, Notes

\* A device that is shown a notice has it, and what it had of other contexts.
LEMMA ShownEffect ==
    ASSUME NEW d \in [tray : SUBSET Notes, windows : {0, 1}], NEW p \in Notes
    PROVE  /\ Shown(d, p) \in [tray : SUBSET Notes, windows : {0, 1}]
           /\ \A c \in Contexts : BuildPayload(c) \in Shown(d, p).tray <=>
                                      p = BuildPayload(c) \/ BuildPayload(c) \in d.tray
<1> DEFINE new == {n \in d.tray : n.tag # p.tag} \cup {p}
<1>0. Shown(d, p) = [d EXCEPT !.tray = new]
    BY DEF Shown
<1> HIDE DEF new
<1>1. Shown(d, p) = [tray |-> new, windows |-> d.windows]
    BY <1>0
<1> USE DEF new
<1>2. \A n \in Notes : n.tag = p.tag => n = p
    BY PayloadsDiffer DEF Notes
<1>3. \A c \in Contexts : BuildPayload(c) \in Notes
    BY DEF Notes
<1>4. QED
    BY <1>1, <1>2, <1>3

\* A push changes the trays it reaches.
LEMMA SendToEffect ==
    ASSUME NEW v \in Trays, NEW p \in Notes, NEW gone
    PROVE  /\ SendTo(v, p, gone) \in Trays
           /\ \A d \in SomeDevices, c \in Contexts :
                Has(SendTo(v, p, gone), d, c) <=>
                    (p = BuildPayload(c) /\ d \notin gone) \/ Has(v, d, c)
<1>1. \A d \in SomeDevices : v[d] \in [tray : SUBSET Notes, windows : {0, 1}]
    BY DEF Trays
<1>2. SendTo(v, p, gone) = [d \in SomeDevices |-> IF d \in gone THEN v[d] ELSE Shown(v[d], p)]
    BY DEF SendTo, Trays
<1>3. SendTo(v, p, gone) \in Trays
    BY <1>1, <1>2, ShownEffect DEF Trays
<1>4. ASSUME NEW d \in SomeDevices, NEW c \in Contexts
      PROVE  Has(SendTo(v, p, gone), d, c) <=>
                 (p = BuildPayload(c) /\ d \notin gone) \/ Has(v, d, c)
    BY <1>1, <1>2, ShownEffect DEF Has
<1>5. QED
    BY <1>3, <1>4

\* What an event does to the trays.
LEMMA TrayEffect ==
    ASSUME NEW v \in Trays, NEW e \in TrayEvents
    PROVE  /\ Step(v, e) \in Trays
           /\ \A d \in SomeDevices, c \in Contexts :
                Has(Step(v, e), d, c) <=>
                    \/ e.act = "push" /\ e.ctx = c /\ d \notin e.gone
                    \/ Has(v, d, c) /\ ~(e.act = "click" /\ e.ctx = c /\ d = "phone")
<1>1. CASE e \in Pushes
    <2>1. e.act = "push" /\ e.ctx \in Contexts /\ BuildPayload(e.ctx) \in Notes
        BY <1>1 DEF Pushes, Notes
    <2>2. Step(v, e) = SendTo(v, BuildPayload(e.ctx), e.gone)
        BY <2>1 DEF Step
    <2>3. \A c \in Contexts : BuildPayload(e.ctx) = BuildPayload(c) <=> e.ctx = c
        BY <2>1, PayloadsDiffer
    <2>4. QED
        BY <2>1, <2>2, <2>3, SendToEffect
<1>2. CASE e \in Garbled
    <2>1. e.act = "garbled" /\ Unread \in Notes
        BY <1>2 DEF Garbled, Notes
    <2>2. Step(v, e) = SendTo(v, Unread, {})
        BY <2>1 DEF Step
    <2>3. \A c \in Contexts : Unread # BuildPayload(c)
        BY PayloadsDiffer
    <2>4. QED
        BY <2>1, <2>2, <2>3, SendToEffect
<1>3. CASE e \in Clicks
    <2>1. e.act = "click" /\ e.ctx \in Contexts
        BY <1>3 DEF Clicks
    <2> DEFINE p == BuildPayload(e.ctx)
    <2>2. /\ "phone" \in SomeDevices
          /\ \A d \in SomeDevices : v[d] \in [tray : SUBSET Notes, windows : {0, 1}]
        BY DEF SomeDevices, Trays
    <2>3. CASE ~Has(v, "phone", e.ctx)
        <3>1. NoticesOf(v["phone"], e.ctx) = {}
            BY <2>1, <2>2, <2>3, NoticesAre DEF Has
        <3>2. Step(v, e) = v
            BY <2>1, <3>1 DEF Step
        <3>3. QED
            BY <2>1, <2>3, <3>2
    <2>4. CASE Has(v, "phone", e.ctx)
        <3>1. NoticesOf(v["phone"], e.ctx) = {p}
            BY <2>1, <2>2, <2>4, NoticesAre DEF Has
        <3>2. (CHOOSE n \in NoticesOf(v["phone"], e.ctx) : TRUE) = p
            BY <3>1
        <3>3. Step(v, e) = [v EXCEPT !["phone"] = Click(@, p)]
            BY <2>1, <3>1, <3>2 DEF Step
        <3>4. Click(v["phone"], p) \in [tray : SUBSET Notes, windows : {0, 1}]
              /\ Click(v["phone"], p).tray = v["phone"].tray \ {p}
            BY <2>2 DEF Click
        <3>5. Step(v, e) \in Trays
            BY <2>2, <3>3, <3>4 DEF Trays
        <3>6. \A c \in Contexts : p = BuildPayload(c) <=> e.ctx = c
            BY <2>1, PayloadsDiffer
        <3>7. \A d \in SomeDevices :
                Step(v, e)[d] = IF d = "phone" THEN Click(v["phone"], p) ELSE v[d]
            BY <3>3 DEF Trays
        <3> HIDE DEF p
        <3>8. QED
            BY <2>1, <3>4, <3>5, <3>6, <3>7 DEF Has
    <2>5. QED
        BY <2>3, <2>4
<1>4. QED
    BY <1>1, <1>2, <1>3 DEF TrayEvents

\* The step of the loop is a function on these sets.
LEMMA StepSteps ==
    /\ StepOf(TrayStep, Trays, TrayEvents)
    /\ \A v \in Trays, e \in TrayEvents : TrayStep[<<v, e>>] = Step(v, e)
BY TrayEffect DEF TrayStep, StepOf

\* The fold of the code's function is what the loop leaves.
LEMMA StepFolds ==
    ASSUME NEW k \in Trays, NEW c \in Seq(TrayEvents)
    PROVE  FoldLeft(Step, k, c) = Folded(TrayStep, k, c)
<1> DEFINE Fold(f) == f = [s \in SUBSET DOMAIN c |->
                              IF s = {} THEN k
                              ELSE Step(f[s \ {Max(s)}], c[Max(s)])]
           fold == CHOOSE f : Fold(f)
<1>1. StepOf(TrayStep, Trays, TrayEvents)
  BY StepSteps
<1>2. PICK iter \in [SUBSET DOMAIN c -> Trays] :
        CalculatesTyped(TrayStep, Trays, TrayEvents, k, c, iter)
  BY <1>1, LoopExists
<1>3. Fold(iter)
  BY <1>2, StepSteps DEF CalculatesTyped
<1>4. Fold(fold)
  <2> HIDE DEF Fold
  <2>1. QED
    BY <1>3
<1>5. FoldLeft(Step, k, c) = fold[DOMAIN c]
  BY Zenon DEF FoldLeft, MapThenFoldSet
<1> HIDE DEF fold
<1>6. Calculates(TrayStep, Trays, TrayEvents, k, c, fold)
  BY <1>4, StepSteps DEF Calculates
<1> HIDE DEF Fold
<1>7. fold[DOMAIN c] = Folded(TrayStep, k, c)
  BY <1>1, <1>6, LoopIsFolded
<1>8. QED
  BY <1>5, <1>7

\* What is untended is told, and not clicked away, event by event.
LEMMA ToldGoesOn ==
    ASSUME NEW h, NEW d, NEW c, NEW i \in Nat
    PROVE  /\ ~Told(h, d, c, 0)
           /\ Told(h, d, c, i + 1) <=>
                \/ h[i + 1].act = "push" /\ h[i + 1].ctx = c /\ d \notin h[i + 1].gone
                \/ /\ Told(h, d, c, i)
                   /\ ~(h[i + 1].act = "click" /\ h[i + 1].ctx = c /\ d = "phone")
<1> DEFINE P(k) == h[k].act = "push" /\ h[k].ctx = c /\ d \notin h[k].gone
           C(j) == h[j].act = "click" /\ h[j].ctx = c
           T(n) == \E k \in 1 .. n : P(k) /\ (d = "phone" => \A j \in k + 1 .. n : ~C(j))
<1>1. \A k : P(k) => ~C(k)
    OBVIOUS
<1>2. \A n : Told(h, d, c, n) <=> T(n)
    BY DEF Told
<1> HIDE DEF P, C
<1>3. ~T(0)
    OBVIOUS
<1>4. P(i + 1) => T(i + 1)
    <2>1. i + 1 \in 1 .. i + 1 /\ i + 1 + 1 .. i + 1 = {}
        OBVIOUS
    <2>2. QED
        BY <2>1
<1>5. T(i) /\ ~(C(i + 1) /\ d = "phone") => T(i + 1)
    <2>1. \A k \in 1 .. i : k \in 1 .. i + 1
              /\ \A j \in k + 1 .. i + 1 : j \in k + 1 .. i \/ j = i + 1
        OBVIOUS
    <2>2. QED
        BY <2>1
<1>6. T(i + 1) => P(i + 1) \/ (T(i) /\ ~(C(i + 1) /\ d = "phone"))
    <2> SUFFICES ASSUME NEW k \in 1 .. i + 1, P(k),
                        d = "phone" => \A j \in k + 1 .. i + 1 : ~C(j), k # i + 1
                 PROVE  T(i) /\ ~(C(i + 1) /\ d = "phone")
        OBVIOUS
    <2>1. k \in 1 .. i /\ i + 1 \in k + 1 .. i + 1
          /\ \A j \in k + 1 .. i : j \in k + 1 .. i + 1
        OBVIOUS
    <2>2. QED
        BY <2>1
<1> HIDE DEF T
<1>7. QED
    BY <1>2, <1>3, <1>4, <1>5, <1>6 DEF P, C

\* After any history, each device has a notice of what it was told of and has
\* not clicked away, and of nothing else.
LEMMA TraysAreTold ==
    ASSUME NEW h \in Seq(TrayEvents)
    PROVE  LET v == FoldLeft(Step, NoTrays, h) IN
           /\ v \in Trays
           /\ \A d \in SomeDevices, c \in Contexts : Has(v, d, c) <=> Told(h, d, c, Len(h))
<1>1. StepOf(TrayStep, Trays, TrayEvents)
    BY StepSteps
<1>2. NoTrays \in Trays /\ \A d \in SomeDevices, c \in Contexts : ~Has(NoTrays, d, c)
    BY DEF NoTrays, Trays, Has
<1>3. PICK t : Trace(TrayStep, NoTrays, h, t)
    BY <1>1, <1>2, TraceExists
<1> DEFINE Right(i) == /\ t[i] \in Trays
                       /\ \A d \in SomeDevices, c \in Contexts :
                              Has(t[i], d, c) <=> Told(h, d, c, i)
           S == {i \in Nat : i <= Len(h) => Right(i)}
<1>4. 0 \in S
    BY <1>2, <1>3, ToldGoesOn DEF Trace
<1>5. ASSUME NEW i \in S \cap Nat PROVE i + 1 \in S
    <2> SUFFICES ASSUME i + 1 <= Len(h) PROVE Right(i + 1)
        OBVIOUS
    <2>1. i + 1 \in 1 .. Len(h) /\ h[i + 1] \in TrayEvents /\ (i + 1) - 1 = i
        OBVIOUS
    <2>2. Right(i)
        BY <1>5
    <2>3. t[i + 1] = Step(t[i], h[i + 1])
        BY <1>3, <2>1, <2>2, StepSteps DEF Trace
    <2>4. /\ t[i + 1] \in Trays
          /\ \A d \in SomeDevices, c \in Contexts :
               Has(t[i + 1], d, c) <=>
                   \/ h[i + 1].act = "push" /\ h[i + 1].ctx = c /\ d \notin h[i + 1].gone
                   \/ /\ Has(t[i], d, c)
                      /\ ~(h[i + 1].act = "click" /\ h[i + 1].ctx = c /\ d = "phone")
        BY <2>1, <2>2, <2>3, TrayEffect
    <2>5. \A d \in SomeDevices, c \in Contexts :
            Told(h, d, c, i + 1) <=>
                \/ h[i + 1].act = "push" /\ h[i + 1].ctx = c /\ d \notin h[i + 1].gone
                \/ /\ Told(h, d, c, i)
                   /\ ~(h[i + 1].act = "click" /\ h[i + 1].ctx = c /\ d = "phone")
        BY ToldGoesOn
    <2>6. QED
        BY <2>2, <2>4, <2>5
<1>6. Right(Len(h))
    <2> HIDE DEF Right
    <2>1. Len(h) \in Nat
        OBVIOUS
    <2>2. Nat \subseteq S
        <3> HIDE DEF S
        <3>1. QED
            BY <1>4, <1>5, SetInduction
    <2>3. QED
        BY <2>1, <2>2
<1>7. FoldLeft(Step, NoTrays, h) = t[Len(h)]
    <2>1. FoldLeft(Step, NoTrays, h) = Folded(TrayStep, NoTrays, h)
        BY <1>2, StepFolds
    <2>2. QED
        BY <1>3, <2>1, FoldedIsLast
<1>8. QED
    BY <1>6, <1>7

(***************************************************************************)
(* After pushes, taps and lost devices in any order and number, a device   *)
(* holds one notice for each context it was told of since its owner looked *)
(* and none else, and at most one window (push-topics.ts, push.ts, sw.js). *)
(***************************************************************************)
THEOREM TraysAreRight ==
    ASSUME NEW h \in Seq(TrayEvents), NEW d \in SomeDevices
    PROVE  LET v == FoldLeft(Step, NoTrays, h) IN
           /\ v[d].windows <= 1
           /\ \A c \in Contexts :
                Cardinality(NoticesOf(v[d], c)) = IF c \in Untended(h, d) THEN 1 ELSE 0
<1> DEFINE v == FoldLeft(Step, NoTrays, h)
<1>1. v \in Trays /\ \A c \in Contexts : Has(v, d, c) <=> Told(h, d, c, Len(h))
    BY TraysAreTold
<1>2. \A c \in Contexts : c \in Untended(h, d) <=> Told(h, d, c, Len(h))
    BY DEF Untended, Told
<1> HIDE DEF v
<1>3. v[d].windows \in {0, 1} /\ v[d].tray \subseteq Notes
    BY <1>1 DEF Trays
<1>4. ASSUME NEW c \in Contexts
      PROVE  Cardinality(NoticesOf(v[d], c)) = IF c \in Untended(h, d) THEN 1 ELSE 0
    <2>1. NoticesOf(v[d], c) = IF c \in Untended(h, d) THEN {BuildPayload(c)} ELSE {}
        BY <1>1, <1>2, <1>3, NoticesAre DEF Has
    <2>2. Cardinality({BuildPayload(c)}) = 1 /\ Cardinality({}) = 0
        BY FS_Singleton, FS_EmptySet
    <2>3. QED
        BY <2>1, <2>2
<1>5. QED
    BY <1>3, <1>4 DEF v

LEMMA NoWrongTrays == WrongTrays = {}
<1> SUFFICES ASSUME NEW h \in WrongTrays PROVE FALSE
    OBVIOUS
<1>1. h \in TrayHistories
    BY DEF WrongTrays
<1>2. h \in Seq(TrayEvents)
    <2>1. PICK n \in 0 .. 3 : h \in [1 .. n -> TrayEvents]
        BY <1>1 DEF TrayHistories, TrayEvents
    <2>2. QED
        BY <2>1
<1> DEFINE v == FoldLeft(Step, NoTrays, h)
<1>3. \E d \in SomeDevices :
        \/ \E c \in Contexts :
             Cardinality(NoticesOf(v[d], c)) # IF c \in Untended(h, d) THEN 1 ELSE 0
        \/ v[d].windows > 1
    BY Zenon DEF WrongTrays, NoTrays
<1>4. \A d \in SomeDevices : v \in Trays => v[d].windows \in {0, 1}
    BY DEF Trays
<1>5. v \in Trays
    BY <1>2, TraysAreTold
<1>6. \A d \in SomeDevices : ~(v[d].windows > 1)
    BY <1>4, <1>5
<1>7. \A d \in SomeDevices, c \in Contexts :
        Cardinality(NoticesOf(v[d], c)) = IF c \in Untended(h, d) THEN 1 ELSE 0
    BY <1>2, TraysAreRight
<1> HIDE DEF v
<1>8. QED
    BY <1>3, <1>6, <1>7


-----------------------------------------------------------------------------
(* Edge: addresses and prefixes.                                           *)

LEMMA Powers ==
    /\ 2^0 = 1 /\ 2^1 = 2 /\ 2^2 = 4 /\ 2^3 = 8 /\ 2^4 = 16
    /\ 2^5 = 32 /\ 2^6 = 64 /\ 2^7 = 128 /\ 2^8 = 256
OBVIOUS

\* A byte of the model: two bits.
Bytes == 0 .. 3

LEMMA ByteBits == W = 2 /\ Full = 3 /\ 0 .. Full = Bytes
BY Powers DEF W, Full, Bytes

\* What a prefix keeps of a byte.
LEMMA KeepsBits ==
    ASSUME NEW b \in Bytes
    PROVE  Keeps(b, 0) = 0 /\ Keeps(b, 1) = b \div 2 /\ Keeps(b, 2) = b
BY Powers DEF Keeps, W, Bytes

NextDigit == [p \in Nat \X Bytes |-> p[1] * 4 + p[2]]
LEMMA NumberSteps ==
    /\ StepOf(NextDigit, Nat, Bytes)
    /\ \A k \in Nat, f \in Bytes : NextDigit[<<k, f>>] = k * 2^W + f
<1>1. \A k \in Nat, f \in Bytes : k * 4 + f \in Nat
    BY DEF Bytes
<1>2. StepOf(NextDigit, Nat, Bytes)
    BY <1>1 DEF NextDigit, StepOf
<1>3. 2^W = 4
    BY Powers DEF W
<1>4. QED
    BY <1>2, <1>3 DEF NextDigit

\* The fold of the code's function is what the loop leaves.
LEMMA NumberFolds ==
    ASSUME NEW k \in Nat, NEW c \in Seq(Bytes)
    PROVE  FoldLeft(LAMBDA n, byte : n * 2^W + byte, k, c) = Folded(NextDigit, k, c)
<1> DEFINE Fold(f) == f = [s \in SUBSET DOMAIN c |->
                              IF s = {} THEN k
                              ELSE f[s \ {Max(s)}] * 2^W + c[Max(s)]]
           fold == CHOOSE f : Fold(f)
<1>1. StepOf(NextDigit, Nat, Bytes)
  BY NumberSteps
<1>2. PICK iter \in [SUBSET DOMAIN c -> Nat] :
        CalculatesTyped(NextDigit, Nat, Bytes, k, c, iter)
  BY <1>1, LoopExists
<1>3. Fold(iter)
  BY <1>2, NumberSteps DEF CalculatesTyped
<1>4. Fold(fold)
  <2> HIDE DEF Fold
  <2>1. QED
    BY <1>3
<1>5. FoldLeft(LAMBDA n, byte : n * 2^W + byte, k, c) = fold[DOMAIN c]
  BY Zenon DEF FoldLeft, MapThenFoldSet
<1> HIDE DEF fold
<1>6. Calculates(NextDigit, Nat, Bytes, k, c, fold)
  BY <1>4, NumberSteps DEF Calculates
<1> HIDE DEF Fold
<1>7. fold[DOMAIN c] = Folded(NextDigit, k, c)
  BY <1>1, <1>6, LoopIsFolded
<1>8. QED
  BY <1>5, <1>7


LEMMA NumberIs ==
    /\ \A a, b \in Bytes : Number(<<a, b>>) = 4 * a + b
    /\ \A a, b, c, d \in Bytes : Number(<<a, b, c, d>>) = 64 * a + 16 * b + 4 * c + d
<1>1. \A s \in Seq(Bytes) : Number(s) = Folded(NextDigit, 0, s)
    BY NumberFolds DEF Number
<1>2. StepOf(NextDigit, Nat, Bytes) /\ 0 \in Nat
    BY NumberSteps
<1>3. \A n \in Nat, x \in Bytes : NextDigit[<<n, x>>] = 4 * n + x
    BY DEF NextDigit
<1>4. \A s \in Seq(Bytes), x \in Bytes : Number(Append(s, x)) = 4 * Number(s) + x
                                          /\ Number(s) \in Nat
    <2> SUFFICES ASSUME NEW s \in Seq(Bytes), NEW x \in Bytes
                 PROVE  Number(Append(s, x)) = 4 * Number(s) + x /\ Number(s) \in Nat
        OBVIOUS
    <2>1. Append(s, x) \in Seq(Bytes)
        OBVIOUS
    <2>2. Folded(NextDigit, 0, Append(s, x)) = NextDigit[<<Folded(NextDigit, 0, s), x>>]
          /\ Folded(NextDigit, 0, s) \in Nat
        BY <1>2, FoldedAppend, FoldedType
    <2>3. QED
        BY <1>1, <1>3, <2>1, <2>2
<1>5. Number(<<>>) = 0
    <2>1. <<>> \in Seq(Bytes)
        OBVIOUS
    <2>2. Folded(NextDigit, 0, <<>>) = 0
        BY <1>2, FoldedNothing
    <2>3. QED
        BY <1>1, <2>1, <2>2
<1>6. \A a, b \in Bytes : Number(<<a, b>>) = 4 * a + b /\ Number(<<a, b>>) \in Nat
    <2> SUFFICES ASSUME NEW a \in Bytes, NEW b \in Bytes
                 PROVE  Number(<<a, b>>) = 4 * a + b /\ Number(<<a, b>>) \in Nat
        OBVIOUS
    <2>1. <<>> \in Seq(Bytes) /\ <<a>> \in Seq(Bytes) /\ <<a, b>> \in Seq(Bytes)
          /\ <<a>> = Append(<<>>, a) /\ <<a, b>> = Append(<<a>>, b)
        OBVIOUS
    <2>2. Number(Append(<<>>, a)) = 4 * Number(<<>>) + a
        BY <1>4, <2>1
    <2>3. Number(<<a>>) = a
        BY <1>5, <2>1, <2>2 DEF Bytes
    <2>4. Number(Append(<<a>>, b)) = 4 * Number(<<a>>) + b
        BY <1>4, <2>1
    <2>5. Number(<<a, b>>) = 4 * a + b
        BY <2>1, <2>3, <2>4
    <2>6. QED
        BY <2>5 DEF Bytes
<1>7. ASSUME NEW a \in Bytes, NEW b \in Bytes, NEW c \in Bytes, NEW d \in Bytes
      PROVE  Number(<<a, b, c, d>>) = 64 * a + 16 * b + 4 * c + d
    <2>1. /\ <<a, b>> \in Seq(Bytes) /\ <<a, b, c>> \in Seq(Bytes)
          /\ <<a, b, c>> = Append(<<a, b>>, c) /\ <<a, b, c, d>> = Append(<<a, b, c>>, d)
        OBVIOUS
    <2>2. Number(Append(<<a, b>>, c)) = 4 * Number(<<a, b>>) + c
        BY <1>4, <2>1
    <2>3. Number(<<a, b, c>>) = 4 * (4 * a + b) + c
        BY <1>6, <2>1, <2>2
    <2>4. Number(Append(<<a, b, c>>, d)) = 4 * Number(<<a, b, c>>) + d
        BY <1>4, <2>1
    <2>5. Number(<<a, b, c, d>>) = 4 * (4 * (4 * a + b) + c) + d
        BY <2>1, <2>3, <2>4
    <2>6. QED
        BY <2>5 DEF Bytes
<1>8. QED
    BY <1>6, <1>7

\* The bits of a prefix, byte by byte.
LEMMA TakesBits ==
    ASSUME NEW bits \in 0 .. 8
    PROVE  \A i \in 1 .. 4 :
               Take(bits, i) = IF bits <= 2 * (i - 1) THEN 0
                               ELSE IF bits >= 2 * i THEN 2 ELSE bits - 2 * (i - 1)
BY DEF Take, W

\* A number without its low bits.
Above(n, bits) == n \div 2^bits

\* Two addresses of two bytes, or of four, have the same bits under a mask
\* exactly when they are the same number above the low bits.
LEMMA ShortPrefix ==
    ASSUME NEW a \in Bytes, NEW b \in Bytes, NEW c \in Bytes, NEW d \in Bytes,
           NEW bits \in 0 .. 4
    PROVE  (/\ Keeps(a, Take(bits, 1)) = Keeps(c, Take(bits, 1))
            /\ Keeps(b, Take(bits, 2)) = Keeps(d, Take(bits, 2)))
           <=> Above(4 * a + b, 4 - bits) = Above(4 * c + d, 4 - bits)
<1>1. CASE bits = 0
    BY <1>1, KeepsBits, TakesBits, Powers DEF Above, Bytes
<1>2. CASE bits = 1
    BY <1>2, KeepsBits, TakesBits, Powers DEF Above, Bytes
<1>3. CASE bits = 2
    BY <1>3, KeepsBits, TakesBits, Powers DEF Above, Bytes
<1>4. CASE bits = 3
    BY <1>4, KeepsBits, TakesBits, Powers DEF Above, Bytes
<1>5. CASE bits = 4
    BY <1>5, KeepsBits, TakesBits, Powers DEF Above, Bytes
<1>6. QED
    BY <1>1, <1>2, <1>3, <1>4, <1>5

Kept(s, t, bits) == \A i \in 1 .. 4 : Keeps(s[i], Take(bits, i)) = Keeps(t[i], Take(bits, i))
Above8(s, bits) == Above(64 * s[1] + 16 * s[2] + 4 * s[3] + s[4], 8 - bits)

LEMMA LongPrefix ==
    ASSUME NEW s, NEW t, \A i \in 1 .. 4 : s[i] \in Bytes /\ t[i] \in Bytes,
           NEW bits \in 0 .. 8
    PROVE  Kept(s, t, bits) <=> Above8(s, bits) = Above8(t, bits)
<1> DEFINE a == s[1]  b == s[2]  c == s[3]  d == s[4]
           w == t[1]  x == t[2]  y == t[3]  z == t[4]
<1>0. /\ a \in Bytes /\ b \in Bytes /\ c \in Bytes /\ d \in Bytes
      /\ w \in Bytes /\ x \in Bytes /\ y \in Bytes /\ z \in Bytes
      /\ Kept(s, t, bits) <=>
           /\ Keeps(a, Take(bits, 1)) = Keeps(w, Take(bits, 1))
           /\ Keeps(b, Take(bits, 2)) = Keeps(x, Take(bits, 2))
           /\ Keeps(c, Take(bits, 3)) = Keeps(y, Take(bits, 3))
           /\ Keeps(d, Take(bits, 4)) = Keeps(z, Take(bits, 4))
      /\ Above8(s, bits) = Above(64 * a + 16 * b + 4 * c + d, 8 - bits)
      /\ Above8(t, bits) = Above(64 * w + 16 * x + 4 * y + z, 8 - bits)
    <2>1. \A i : i \in 1 .. 4 <=> i \in {1, 2, 3, 4}
        OBVIOUS
    <2>2. QED
        BY <2>1 DEF Kept, Above8
<1> HIDE DEF a, b, c, d, w, x, y, z
<1>1. CASE bits = 0
    BY <1>1, <1>0, TakesBits, KeepsBits, Powers DEF Above, Bytes
<1>2. CASE bits = 1
    BY <1>2, <1>0, TakesBits, KeepsBits, Powers DEF Above, Bytes
<1>3. CASE bits = 2
    BY <1>3, <1>0, TakesBits, KeepsBits, Powers DEF Above, Bytes
<1>4. CASE bits = 3
    BY <1>4, <1>0, TakesBits, KeepsBits, Powers DEF Above, Bytes
<1>5. CASE bits = 4
    BY <1>5, <1>0, TakesBits, KeepsBits, Powers DEF Above, Bytes
<1>6. CASE bits = 5
    BY <1>6, <1>0, TakesBits, KeepsBits, Powers DEF Above, Bytes
<1>7. CASE bits = 6
    BY <1>7, <1>0, TakesBits, KeepsBits, Powers DEF Above, Bytes
<1>8. CASE bits = 7
    BY <1>8, <1>0, TakesBits, KeepsBits, Powers DEF Above, Bytes
<1>9. CASE bits = 8
    BY <1>9, <1>0, TakesBits, KeepsBits, Powers DEF Above, Bytes
<1>10. QED
    BY <1>1, <1>2, <1>3, <1>4, <1>5, <1>6, <1>7, <1>8, <1>9


\* Two pairs of bytes in a row.
LEMMA PairsInARow ==
    ASSUME NEW w, NEW x, NEW y, NEW z
    PROVE  <<w, x>> \o <<y, z>> = <<w, x, y, z>>
<1> DEFINE S == {w, x, y, z}
           p == <<w, x>>
           q == <<y, z>>
           t == <<w, x, y, z>>
<1>1. p \in Seq(S) /\ q \in Seq(S) /\ t \in Seq(S) /\ Len(p) = 2 /\ Len(q) = 2 /\ Len(t) = 4
    OBVIOUS
<1>2. /\ p[1] = w /\ p[2] = x /\ q[1] = y /\ q[2] = z
      /\ t[1] = w /\ t[2] = x /\ t[3] = y /\ t[4] = z
    OBVIOUS
<1> HIDE DEF S, p, q, t
<1>3. /\ p \o q \in Seq(S) /\ Len(p \o q) = 4
      /\ \A i \in 1 .. 4 : (p \o q)[i] = IF i <= 2 THEN p[i] ELSE q[i - 2]
    <2>1. /\ p \o q \in Seq(S) /\ Len(p \o q) = Len(p) + Len(q)
          /\ \A i \in 1 .. Len(p) + Len(q) :
               (p \o q)[i] = IF i <= Len(p) THEN p[i] ELSE q[i - Len(p)]
        BY <1>1, ConcatProperties
    <2>2. QED
        BY <1>1, <2>1
<1>4. \A i \in 1 .. 4 : (p \o q)[i] = t[i]
    BY <1>2, <1>3
<1>5. p \o q = t
    BY <1>1, <1>3, <1>4, SeqEqual
<1>6. QED
    BY <1>5 DEF p, q, t

\* The addresses of the model, by their bytes.
Quads == {<<p[1], p[2], a, b>> : p \in {<<0, Full>>, <<0, 0>>, <<1, Full>>},
                                 a, b \in 0 .. Full}

LEMMA Versions ==
    /\ \A p \in V4Address : p.v6 = FALSE /\ p.bytes \in {<<a, b>> : a, b \in 0 .. Full}
    /\ \A p \in V6Address : p.v6 = TRUE /\ p.bytes \in Quads
<1> DEFINE S == {<<a, b>> : a, b \in 0 .. Full}
<1>0. V4Address = [v6 : {FALSE}, bytes : S]
    BY DEF V4Address
<1>1. V6Address = [v6 : {TRUE}, bytes : Quads]
    BY DEF V6Address, Quads
<1> HIDE DEF S
<1>2. /\ \A p \in V4Address : p.v6 = FALSE /\ p.bytes \in S
      /\ \A p \in V6Address : p.v6 = TRUE /\ p.bytes \in Quads
    BY <1>0, <1>1
<1>3. QED
    BY <1>2 DEF S

LEMMA AddressBytes ==
    ASSUME NEW p \in Address
    PROVE  /\ p.v6 \in BOOLEAN
           /\ ~p.v6 => \E a, b \in Bytes : p.bytes = <<a, b>>
           /\ p.v6 => \E a, b, c, d \in Bytes : p.bytes = <<a, b, c, d>>
<1>1. CASE p \in V4Address
    <2>1. p.v6 = FALSE /\ \E a, b \in Bytes : p.bytes = <<a, b>>
        BY <1>1, Versions, ByteBits
    <2>2. QED
        BY <2>1
<1>2. CASE p \in V6Address
    <2>1. p.bytes \in Quads /\ p.v6 = TRUE
        BY <1>2, Versions
    <2>2. PICK q \in {<<0, Full>>, <<0, 0>>, <<1, Full>>}, a \in 0 .. Full, b \in 0 .. Full :
              p.bytes = <<q[1], q[2], a, b>>
        BY <2>1 DEF Quads
    <2>3. q[1] \in Bytes /\ q[2] \in Bytes /\ a \in Bytes /\ b \in Bytes
        BY <2>2, ByteBits DEF Bytes
    <2>4. QED
        BY <2>1, <2>2, <2>3
<1>3. QED
    BY <1>1, <1>2 DEF Address

LEMMA CidrBytes ==
    ASSUME NEW c \in Cidrs
    PROVE  /\ c.v6 \in BOOLEAN /\ c.bits \in Nat
           /\ ~c.v6 => c.bits \in 0 .. 4 /\ \E a, b \in Bytes : c.bytes = <<a, b>>
           /\ c.v6 => c.bits \in 0 .. 8
                      /\ \E x, y, z, w \in Bytes : c.bytes = <<x, y, z, w>>
<1>1. 2 * W = 4 /\ 4 * W = 8
    BY DEF W
<1>2. CASE \E a \in V4Address, n \in 0 .. 4 : c = Cidr(a, n)
    <2>1. PICK a \in V4Address, n \in 0 .. 4 : c = Cidr(a, n)
        BY <1>2
    <2>2. a \in Address /\ a.v6 = FALSE
        BY Versions DEF Address
    <2>3. c.v6 = a.v6 /\ c.bytes = a.bytes /\ c.bits = n
        BY <2>1 DEF Cidr
    <2>4. QED
        BY <2>1, <2>2, <2>3, AddressBytes
<1>3. CASE \E a \in V6Address, n \in 0 .. 8 : c = Cidr(a, n)
    <2>1. PICK a \in V6Address, n \in 0 .. 8 : c = Cidr(a, n)
        BY <1>3
    <2>2. a \in Address /\ a.v6 = TRUE
        BY Versions DEF Address
    <2>3. c.v6 = a.v6 /\ c.bytes = a.bytes /\ c.bits = n
        BY <2>1 DEF Cidr
    <2>4. QED
        BY <2>1, <2>2, <2>3, AddressBytes
<1>4. QED
    BY <1>1, <1>2, <1>3 DEF Cidrs

\* Of the same length: byte by byte with a mask is as numbers.
LEMMA SameBytesAgree ==
    ASSUME NEW p, NEW c,
           \/ /\ c.bits \in 0 .. 4
              /\ \E a, b \in Bytes : p.bytes = <<a, b>>
              /\ \E a, b \in Bytes : c.bytes = <<a, b>>
           \/ /\ c.bits \in 0 .. 8
              /\ \E w, x, y, z \in Bytes : p.bytes = <<w, x, y, z>>
              /\ \E w, x, y, z \in Bytes : c.bytes = <<w, x, y, z>>
    PROVE  SameBytes(p, c) <=> Agree(p, c)
<1>1. ASSUME c.bits \in 0 .. 4, NEW a \in Bytes, NEW b \in Bytes, p.bytes = <<a, b>>,
             NEW x \in Bytes, NEW y \in Bytes, c.bytes = <<x, y>>
      PROVE  SameBytes(p, c) <=> Agree(p, c)
    <2>1. SameBytes(p, c) <=>
              /\ Keeps(a, Take(c.bits, 1)) = Keeps(x, Take(c.bits, 1))
              /\ Keeps(b, Take(c.bits, 2)) = Keeps(y, Take(c.bits, 2))
        BY <1>1 DEF SameBytes
    <2>2. Number(p.bytes) = 4 * a + b /\ Number(c.bytes) = 4 * x + y
        BY <1>1, NumberIs
    <2>3. W * Len(c.bytes) = 4
        BY <1>1 DEF W
    <2>4. Agree(p, c) <=> Above(Number(p.bytes), 4 - c.bits) = Above(Number(c.bytes), 4 - c.bits)
        BY <2>3 DEF Agree, Above
    <2>5. (/\ Keeps(a, Take(c.bits, 1)) = Keeps(x, Take(c.bits, 1))
           /\ Keeps(b, Take(c.bits, 2)) = Keeps(y, Take(c.bits, 2)))
          <=> Above(4 * a + b, 4 - c.bits) = Above(4 * x + y, 4 - c.bits)
        BY <1>1, ShortPrefix
    <2>6. QED
        BY <2>1, <2>2, <2>4, <2>5
<1>2. ASSUME c.bits \in 0 .. 8,
             NEW a \in Bytes, NEW b \in Bytes, NEW e \in Bytes, NEW f \in Bytes,
             p.bytes = <<a, b, e, f>>,
             NEW w \in Bytes, NEW x \in Bytes, NEW y \in Bytes, NEW z \in Bytes,
             c.bytes = <<w, x, y, z>>
      PROVE  SameBytes(p, c) <=> Agree(p, c)
    <2>1. SameBytes(p, c) <=> Kept(p.bytes, c.bytes, c.bits)
        BY <1>2 DEF SameBytes, Kept
    <2>2. /\ Number(p.bytes) = 64 * a + 16 * b + 4 * e + f
          /\ Number(c.bytes) = 64 * w + 16 * x + 4 * y + z
        BY <1>2, NumberIs
    <2>3. W * Len(c.bytes) = 8
        BY <1>2 DEF W
    <2>4. Agree(p, c) <=> Above(Number(p.bytes), 8 - c.bits) = Above(Number(c.bytes), 8 - c.bits)
        BY <2>3 DEF Agree, Above
    <2>5. Kept(p.bytes, c.bytes, c.bits)
              <=> Above8(p.bytes, c.bits) = Above8(c.bytes, c.bits)
        BY <1>2, LongPrefix
    <2>6. QED
        BY <1>2, <2>1, <2>2, <2>4, <2>5 DEF Above8
<1>3. QED
    BY <1>1, <1>2

\* An IPv4 address as the IPv6 address it stands for.
LEMMA PromotedBytes ==
    ASSUME NEW p, \E a, b \in Bytes : p.bytes = <<a, b>>
    PROVE  \E w, x, y, z \in Bytes : Promoted(p).bytes = <<w, x, y, z>>
<1>1. PICK a \in Bytes, b \in Bytes : p.bytes = <<a, b>>
    OBVIOUS
<1>2. Promoted(p).bytes = <<0, Full>> \o <<a, b>>
    BY <1>1 DEF Promoted
<1>3. 0 \in Bytes /\ Full \in Bytes
    BY ByteBits DEF Bytes
<1>4. <<0, Full>> \o <<a, b>> = <<0, Full, a, b>>
    BY PairsInARow
<1>5. QED
    BY <1>1, <1>2, <1>3, <1>4

LEMMA NoneMisplaced == MisplacedAddresses = {}
<1> SUFFICES ASSUME NEW p \in Address, NEW c \in Cidrs
             PROVE  InCidr(p, c) <=> IF p.v6 = c.v6 THEN Agree(p, c)
                                     ELSE c.v6 /\ Agree(Promoted(p), c)
    <2>1. \A p \in Address, c \in Cidrs :
            /\ InCidr(p, c) \in BOOLEAN
            /\ (IF p.v6 = c.v6 THEN Agree(p, c) ELSE c.v6 /\ Agree(Promoted(p), c)) \in BOOLEAN
        BY AddressBytes, CidrBytes DEF InCidr, Agree
    <2>2. QED
        BY <2>1 DEF MisplacedAddresses
<1>1. p.v6 \in BOOLEAN /\ c.v6 \in BOOLEAN
    BY AddressBytes, CidrBytes
<1>2. CASE p.v6 = c.v6
    <2>1. SameBytes(p, c) <=> Agree(p, c)
        BY <1>2, AddressBytes, CidrBytes, SameBytesAgree
    <2>2. QED
        BY <1>1, <1>2, <2>1 DEF InCidr
<1>3. CASE ~p.v6 /\ c.v6
    <2>1. \E w, x, y, z \in Bytes : Promoted(p).bytes = <<w, x, y, z>>
        BY <1>3, AddressBytes, PromotedBytes
    <2>2. SameBytes(Promoted(p), c) <=> Agree(Promoted(p), c)
        BY <1>3, <2>1, CidrBytes, SameBytesAgree
    <2>3. QED
        BY <1>1, <1>3, <2>2 DEF InCidr
<1>4. CASE p.v6 /\ ~c.v6
    BY <1>1, <1>4 DEF InCidr
<1>5. QED
    BY <1>1, <1>2, <1>3, <1>4


-----------------------------------------------------------------------------
(* Edge: a chain of proxies, of any length, and a client with any headers. *)

Peers == {Client, Claimed} \cup {l.address : l \in Links}
Protos == {"https", "http"}
Hosts == {"public", "inside", "claimed"}
Requests == [peer : Peers, proto : Protos, host : Hosts,
             xff : Seq(Peers), xfp : Seq(Protos), xfh : Seq(Hosts)]

\* The proxies that leave what the header of a field says first.
Adding(field) == {l \in Links : field \notin l.overwrites}

ForwardStep(L) == [p \in Requests \X L |-> Forward(p[1], p[2])]

\* The first of a sequence stays the first.
LEMMA AppendKeepsHead ==
    ASSUME NEW S, NEW s \in Seq(S), NEW x \in S
    PROVE  /\ Append(s, x) \in Seq(S) /\ Append(s, x) # <<>>
           /\ Head(Append(s, x)) = IF s = <<>> THEN x ELSE Head(s)
<1>1. /\ Append(s, x) \in Seq(S) /\ Append(s, x) # <<>> /\ Len(Append(s, x)) = Len(s) + 1
      /\ \A i \in 1 .. Len(s) : Append(s, x)[i] = s[i]
      /\ Append(s, x)[Len(s) + 1] = x
    BY AppendProperties
<1>2. Head(Append(s, x)) = Append(s, x)[1]
    BY <1>1
<1>3. CASE s = <<>>
    BY <1>1, <1>2, <1>3
<1>4. CASE s # <<>>
    <2>1. Len(s) >= 1 /\ Head(s) = s[1]
        BY <1>4
    <2>2. QED
        BY <1>1, <1>2, <1>4, <2>1
<1>5. QED
    BY <1>1, <1>3, <1>4

\* A proxy that adds to a header leaves what it says first, of nothing at all
\* what it was asked; one that overwrites it says what it was asked.
LEMMA Telling ==
    ASSUME NEW S, NEW hops \in Seq(S), NEW own \in S, NEW next, NEW l, NEW field
    PROVE  /\ Tell(l, field, hops, own) \in Seq(S)
           /\ FirstOr(Tell(l, field, hops, own), next)
                  = IF field \in l.overwrites THEN own ELSE FirstOr(hops, own)
<1>1. CASE field \in l.overwrites
    <2>1. <<own>> \in Seq(S) /\ <<own>> # <<>> /\ Head(<<own>>) = own
        OBVIOUS
    <2> QED BY <1>1, <2>1 DEF Tell, FirstOr
<1>2. CASE field \notin l.overwrites
    BY <1>2, AppendKeepsHead DEF Tell, FirstOr
<1> QED BY <1>1, <1>2

\* What the next one believes after one proxy.
LEMMA ForwardSays ==
    ASSUME NEW r \in Requests, NEW l \in Links
    PROVE  /\ Forward(r, l) \in Requests /\ Forward(r, l).peer = l.address
           /\ \A field \in Fields :
                Said(Forward(r, l))[field] =
                    IF field \in l.overwrites THEN Observed(r)[field] ELSE Said(r)[field]
<1>1. /\ r.peer \in Peers /\ r.proto \in Protos /\ r.host \in Hosts
      /\ r.xff \in Seq(Peers) /\ r.xfp \in Seq(Protos) /\ r.xfh \in Seq(Hosts)
    BY DEF Requests
<1>2. l.address \in Peers /\ l.keepsHost \in BOOLEAN
    BY DEF Peers, Links, Proxy
<1> DEFINE xff == Tell(l, "client_ip", r.xff, r.peer)
           xfp == Tell(l, "proto", r.xfp, r.proto)
           host == IF l.keepsHost THEN r.host ELSE "inside"
           xfh == IF l.keepsHost /\ "host" \notin l.overwrites THEN r.xfh
                  ELSE Tell(l, "host", r.xfh, r.host)
<1>3. /\ Forward(r, l).peer = l.address /\ Forward(r, l).proto = "http"
      /\ Forward(r, l).host = host
      /\ Forward(r, l).xff = xff /\ Forward(r, l).xfp = xfp /\ Forward(r, l).xfh = xfh
      /\ Forward(r, l) = Request(l.address, "http", host, xff, xfp, xfh)
    BY DEF Forward, Request
<1>4. /\ xff \in Seq(Peers)
      /\ FirstOr(xff, l.address) = IF "client_ip" \in l.overwrites THEN r.peer
                                   ELSE FirstOr(r.xff, r.peer)
    BY <1>1, Telling
<1>5. /\ xfp \in Seq(Protos)
      /\ FirstOr(xfp, "http") = IF "proto" \in l.overwrites THEN r.proto
                                ELSE FirstOr(r.xfp, r.proto)
    BY <1>1, Telling
<1>6. /\ xfh \in Seq(Hosts) /\ host \in Hosts
      /\ FirstOr(xfh, host) = IF "host" \in l.overwrites THEN r.host
                              ELSE FirstOr(r.xfh, r.host)
    <2>1. host \in Hosts
        BY <1>1 DEF Hosts
    <2>2. CASE l.keepsHost /\ "host" \notin l.overwrites
        BY <1>1, <2>1, <2>2 DEF FirstOr
    <2>3. CASE ~(l.keepsHost /\ "host" \notin l.overwrites)
        BY <1>1, <2>1, <2>3, Telling
    <2> QED BY <2>2, <2>3
<1> HIDE DEF xff, xfp, xfh, host
<1>7. Forward(r, l) \in Requests
    <2>1. "http" \in Protos
        BY DEF Protos
    <2> QED BY <1>2, <1>3, <1>4, <1>5, <1>6, <2>1 DEF Request, Requests
<1>8. ASSUME NEW field \in Fields
      PROVE  Said(Forward(r, l))[field] =
                 IF field \in l.overwrites THEN Observed(r)[field] ELSE Said(r)[field]
    <2>1. CASE field = "client_ip"
        BY <1>3, <1>4, <2>1 DEF Said, Observed
    <2>2. CASE field = "proto"
        BY <1>3, <1>5, <2>2 DEF Said, Observed
    <2>3. CASE field = "host"
        BY <1>3, <1>6, <2>3 DEF Said, Observed
    <2> QED BY <2>1, <2>2, <2>3 DEF Fields
<1> QED BY <1>3, <1>7, <1>8

LEMMA ForwardSteps ==
    ASSUME NEW L \in SUBSET Links
    PROVE  /\ StepOf(ForwardStep(L), Requests, L)
           /\ \A r \in Requests, l \in L : ForwardStep(L)[<<r, l>>] = Forward(r, l)
BY ForwardSays DEF ForwardStep, StepOf

\* The fold of the code's function is what the loop leaves.
LEMMA ForwardFolds ==
    ASSUME NEW L \in SUBSET Links, NEW k \in Requests, NEW c \in Seq(L)
    PROVE  Through(k, c) = Folded(ForwardStep(L), k, c)
<1> DEFINE Fold(f) == f = [s \in SUBSET DOMAIN c |->
                              IF s = {} THEN k
                              ELSE Forward(f[s \ {Max(s)}], c[Max(s)])]
           fold == CHOOSE f : Fold(f)
           next == ForwardStep(L)
<1>1. /\ StepOf(next, Requests, L)
      /\ \A r \in Requests, l \in L : next[<<r, l>>] = Forward(r, l)
    BY ForwardSteps
<1> HIDE DEF next
<1>2. PICK iter \in [SUBSET DOMAIN c -> Requests] :
        CalculatesTyped(next, Requests, L, k, c, iter)
    BY <1>1, LoopExists
<1>3. Fold(iter)
    BY <1>1, <1>2 DEF CalculatesTyped
<1>4. Fold(fold)
    <2> HIDE DEF Fold
    <2> QED BY <1>3
<1>5. Through(k, c) = fold[DOMAIN c]
    BY Zenon DEF Through, FoldLeft, MapThenFoldSet
<1> HIDE DEF fold
<1>6. Calculates(next, Requests, L, k, c, fold)
    BY <1>1, <1>4 DEF Calculates
<1> HIDE DEF Fold
<1>7. fold[DOMAIN c] = Folded(next, k, c)
    BY <1>1, <1>6, LoopIsFolded
<1> QED BY <1>5, <1>7 DEF next

\* A chain is passed through proxy by proxy, or part by part.
LEMMA ThroughSteps ==
    ASSUME NEW r \in Requests, NEW c \in Seq(Links)
    PROVE  /\ Through(r, <<>>) = r /\ Through(r, c) \in Requests
           /\ \A l \in Links : Through(r, Append(c, l)) = Forward(Through(r, c), l)
           /\ \A d \in Seq(Links) : Through(r, c \o d) = Through(Through(r, c), d)
<1> DEFINE next == ForwardStep(Links)
<1>1. /\ StepOf(next, Requests, Links)
      /\ \A k \in Requests, l \in Links : next[<<k, l>>] = Forward(k, l)
      /\ \A k \in Requests, d \in Seq(Links) : Through(k, d) = Folded(next, k, d)
    BY ForwardSteps, ForwardFolds
<1> HIDE DEF next
<1>2. Folded(next, r, <<>>) = r /\ Folded(next, r, c) \in Requests
    BY <1>1, FoldedNothing, FoldedType
<1>3. <<>> \in Seq(Links)
    OBVIOUS
<1>4. ASSUME NEW l \in Links PROVE Through(r, Append(c, l)) = Forward(Through(r, c), l)
    <2>1. Folded(next, r, Append(c, l)) = next[<<Folded(next, r, c), l>>]
        BY <1>1, FoldedAppend
    <2>2. Append(c, l) \in Seq(Links)
        OBVIOUS
    <2> QED BY <1>1, <1>2, <2>1, <2>2
<1>5. ASSUME NEW d \in Seq(Links) PROVE Through(r, c \o d) = Through(Through(r, c), d)
    <2>1. Folded(next, r, c \o d) = Folded(next, Folded(next, r, c), d)
        BY <1>1, FoldedConcat
    <2>2. c \o d \in Seq(Links)
        OBVIOUS
    <2> QED BY <1>1, <1>2, <2>1, <2>2
<1> QED BY <1>1, <1>2, <1>3, <1>4, <1>5

\* Proxies that only add to a header leave what is believed of its field.
LEMMA AddingKeeps ==
    ASSUME NEW field \in Fields, NEW r \in Requests, NEW c \in Seq(Adding(field))
    PROVE  Said(Through(r, c))[field] = Said(r)[field]
<1> DEFINE L == Adding(field)
           next == ForwardStep(L)
           I == {k \in Requests : Said(k)[field] = Said(r)[field]}
<1>1. L \in SUBSET Links
    BY DEF Adding
<1>2. /\ StepOf(next, Requests, L) /\ Through(r, c) = Folded(next, r, c)
      /\ \A k \in Requests, l \in L : next[<<k, l>>] = Forward(k, l)
    BY <1>1, ForwardSteps, ForwardFolds
<1>3. ASSUME NEW k \in I, NEW l \in L PROVE next[<<k, l>>] \in I
    <2>1. k \in Requests /\ l \in Links /\ field \notin l.overwrites
        BY DEF Adding
    <2>2. Forward(k, l) \in Requests /\ Said(Forward(k, l))[field] = Said(k)[field]
        BY <2>1, ForwardSays
    <2>3. next[<<k, l>>] = Forward(k, l)
        BY <1>2
    <2> QED BY <2>2, <2>3
<1>4. I \in SUBSET Requests /\ r \in I
    OBVIOUS
<1> HIDE DEF I, L, next
<1>5. Folded(next, r, c) \in I
    BY <1>2, <1>3, <1>4, FoldedKeeps DEF L
<1> QED BY <1>2, <1>5 DEF I

\* What the last proxy to overwrite a header was asked is believed.
LEMMA LastDecides ==
    ASSUME NEW asked \in Requests, NEW field \in Fields, NEW inner \in Seq(Adding(field)),
           NEW outer \in Seq(Links), NEW last \in Links \ Adding(field)
    PROVE  Said(Through(asked, Append(outer, last) \o inner))[field]
               = Observed(Through(asked, outer))[field]
<1>1. Append(outer, last) \in Seq(Links) /\ inner \in Seq(Links)
    BY DEF Adding
<1> DEFINE here == Through(asked, outer)
           told == Through(asked, Append(outer, last))
<1>2. here \in Requests /\ told = Forward(here, last)
    BY ThroughSteps
<1>3. Through(asked, Append(outer, last) \o inner) = Through(told, inner)
    BY <1>1, ThroughSteps
<1> HIDE DEF here, told
<1>4. told \in Requests /\ Said(told)[field] = Observed(here)[field]
    BY <1>2, ForwardSays DEF Adding
<1>5. Said(Through(told, inner))[field] = Said(told)[field]
    BY <1>4, AddingKeeps
<1> QED BY <1>3, <1>4, <1>5 DEF here

(***************************************************************************)
(* Whatever headers a client sends, and through any chain of proxies: from *)
(* a peer that is not trusted no header counts; from one that is, each of  *)
(* address, scheme and host is what the connection to the last proxy that  *)
(* overwrites its header shows, the client's own if this is the outermost  *)
(* one, and what the client says of itself where none overwrites it: a     *)
(* client behind proxies that append to X-Forwarded-For chooses the address*)
(* it is limited by (proxy.ts resolveRequest).                             *)
(***************************************************************************)
THEOREM ClientIsFound ==
    ASSUME NEW asked \in Requests, NEW field \in Fields, NEW trusted,
           NEW inner \in Seq(Adding(field))
    PROVE  /\ \A c \in Seq(Links) :
                LET req == Through(asked, c)
                IN  ~IsTrustedAddress(req.peer, trusted) =>
                        ResolveRequest(req, trusted) = Observed(req)
           /\ LET req == Through(asked, inner)
              IN  IsTrustedAddress(req.peer, trusted) =>
                      ResolveRequest(req, trusted)[field] = Said(asked)[field]
           /\ \A outer \in Seq(Links), last \in Links \ Adding(field) :
                LET req == Through(asked, Append(outer, last) \o inner)
                IN  IsTrustedAddress(req.peer, trusted) =>
                        /\ ResolveRequest(req, trusted)[field]
                               = Observed(Through(asked, outer))[field]
                        /\ outer = <<>> =>
                               ResolveRequest(req, trusted)[field] = Observed(asked)[field]
<1>1. \A req : IF IsTrustedAddress(req.peer, trusted)
               THEN ResolveRequest(req, trusted) = Said(req)
               ELSE ResolveRequest(req, trusted) = Observed(req)
    BY DEF ResolveRequest
<1>2. ASSUME NEW outer \in Seq(Links), NEW last \in Links \ Adding(field)
      PROVE  /\ Said(Through(asked, Append(outer, last) \o inner))[field]
                    = Observed(Through(asked, outer))[field]
             /\ outer = <<>> => Through(asked, outer) = asked
    BY LastDecides, ThroughSteps
<1>3. Said(Through(asked, inner))[field] = Said(asked)[field]
    BY AddingKeeps
<1> QED BY <1>1, <1>2, <1>3

\* A chain has a last proxy that overwrites a header, or none.
LEMMA LastWriter ==
    ASSUME NEW field \in Fields, NEW c \in Seq(Links)
    PROVE  LET writers == {i \in DOMAIN c : field \in c[i].overwrites}
               last == Max(writers)
           IN  /\ writers = {} => c \in Seq(Adding(field))
               /\ writers # {} =>
                    /\ last \in 1 .. Len(c) /\ c[last] \in Links \ Adding(field)
                    /\ SubSeq(c, 1, last - 1) \in Seq(Links)
                    /\ SubSeq(c, last + 1, Len(c)) \in Seq(Adding(field))
                    /\ c = Append(SubSeq(c, 1, last - 1), c[last]) \o SubSeq(c, last + 1, Len(c))
<1> DEFINE n == Len(c)
           writers == {i \in 1 .. n : field \in c[i].overwrites}
           last == Max(writers)
<1>1. n \in Nat /\ DOMAIN c = 1 .. n /\ \A i \in 1 .. n : c[i] \in Links
    OBVIOUS
<1>2. CASE writers = {}
    <2>1. \A i \in 1 .. n : c[i] \in Adding(field)
        BY <1>1, <1>2 DEF Adding
    <2>2. c \in Seq(Adding(field))
        BY <1>1, <2>1
    <2> QED BY <1>1, <1>2, <2>2
<1>3. CASE writers # {}
    <2>1. last \in writers /\ \A i \in writers : last >= i
        BY <1>1, <1>3, MaxOfNumbers
    <2> HIDE DEF last
    <2>2. last \in 1 .. n /\ c[last] \in Links \ Adding(field)
        BY <1>1, <2>1 DEF Adding
    <2> DEFINE a == SubSeq(c, 1, last - 1)
               b == SubSeq(c, last + 1, n)
    <2>3. /\ a \in Seq(Links) /\ Len(a) = last - 1 /\ \A i \in 1 .. last - 1 : a[i] = c[i]
        <3>1. \A i \in 1 .. last - 1 : c[i] \in Links
            BY <1>1, <2>2
        <3>2. 1 \in Int /\ last - 1 \in Int /\ last >= 1
            BY <2>2
        <3>3. /\ a \in Seq(Links) /\ Len(a) = IF 1 <= last - 1 THEN last - 1 - 1 + 1 ELSE 0
              /\ \A i \in 1 .. last - 1 - 1 + 1 : a[i] = c[1 + i - 1]
            BY <3>1, <3>2, SubSeqProperties
        <3> HIDE DEF a
        <3> QED BY <2>2, <3>3
    <2>4. \A i \in last + 1 .. n : c[i] \in Adding(field)
        BY <1>1, <2>1, <2>2 DEF Adding
    <2>5. n \in Int /\ last + 1 \in Int /\ last <= n
        BY <1>1, <2>2
    <2>6. /\ b \in Seq(Adding(field)) /\ Len(b) = n - last
          /\ \A i \in 1 .. n - last : b[i] = c[last + i]
        <3>1. /\ b \in Seq(Adding(field))
              /\ Len(b) = IF last + 1 <= n THEN n - (last + 1) + 1 ELSE 0
              /\ \A i \in 1 .. n - (last + 1) + 1 : b[i] = c[last + 1 + i - 1]
            BY <2>4, <2>5, SubSeqProperties
        <3> HIDE DEF b
        <3> QED BY <2>2, <2>5, <3>1
    <2> HIDE DEF a, b
    <2>7. /\ Append(a, c[last]) \in Seq(Links) /\ Len(Append(a, c[last])) = last
          /\ \A i \in 1 .. last : Append(a, c[last])[i] = c[i]
        BY <1>1, <2>2, <2>3, AppendProperties
    <2>8. c = Append(a, c[last]) \o b
        <3> DEFINE d == Append(a, c[last])
        <3>1. b \in Seq(Links)
            BY <2>6 DEF Adding
        <3>2. /\ d \o b \in Seq(Links) /\ Len(d \o b) = n
              /\ \A i \in 1 .. n : (d \o b)[i] = IF i <= last THEN d[i] ELSE b[i - last]
            <4>1. d \in Seq(Links) /\ Len(d) = last
                BY <2>7
            <4> HIDE DEF d
            <4>2. /\ d \o b \in Seq(Links) /\ Len(d \o b) = Len(d) + Len(b)
                  /\ \A i \in 1 .. Len(d) + Len(b) :
                        (d \o b)[i] = IF i <= Len(d) THEN d[i] ELSE b[i - Len(d)]
                BY <3>1, <4>1, ConcatProperties
            <4>3. Len(d) + Len(b) = n
                BY <1>1, <2>2, <2>6, <4>1
            <4> QED BY <4>1, <4>2, <4>3
        <3> HIDE DEF d
        <3>3. \A i \in 1 .. n : (d \o b)[i] = c[i]
            BY <1>1, <2>2, <2>6, <2>7, <3>2 DEF d
        <3>4. c = d \o b
            BY <3>2, <3>3, SeqEqual
        <3> QED BY <3>4 DEF d
    <2> QED BY <1>1, <1>3, <2>2, <2>3, <2>6, <2>8 DEF a, b, last
<1> QED BY <1>1, <1>2, <1>3

LEMMA NoneMisresolved == Misresolved = {}
<1> SUFFICES ASSUME NEW asked \in ClientAsks, NEW c \in Chains, NEW trusted \in Trusts,
                    NEW field \in Fields
             PROVE  LET req == Through(asked, c)
                    IN  ResolveRequest(req, trusted)[field] =
                            IF IsTrustedAddress(req.peer, trusted)
                            THEN Believed(asked, c, field) ELSE Observed(req)[field]
    BY DEF Misresolved
<1>1. c \in Seq(Links)
    <2>1. PICK n \in 0 .. 2 : c \in [1 .. n -> Links]
        BY DEF Chains, BoundedSeq, SeqOf
    <2> QED BY <2>1
<1>2. asked \in Requests
    <2>1. {Client, Claimed} \subseteq Peers
        BY DEF Peers
    <2>2. /\ <<>> \in Seq(Peers) /\ <<Claimed>> \in Seq(Peers)
          /\ <<>> \in Seq(Protos) /\ <<"http">> \in Seq(Protos)
          /\ <<>> \in Seq(Hosts) /\ <<"claimed">> \in Seq(Hosts)
        BY <2>1 DEF Protos, Hosts
    <2>3. PICK xff \in {<<>>, <<Claimed>>}, xfp \in {<<>>, <<"http">>},
               xfh \in {<<>>, <<"claimed">>} :
                  asked = Request(Client, "https", "public", xff, xfp, xfh)
        BY DEF ClientAsks
    <2>4. xff \in Seq(Peers) /\ xfp \in Seq(Protos) /\ xfh \in Seq(Hosts)
        BY <2>2
    <2> QED BY <2>1, <2>3, <2>4 DEF Request, Requests, Protos, Hosts
<1> DEFINE req == Through(asked, c)
           writers == {i \in DOMAIN c : field \in c[i].overwrites}
           last == Max(writers)
<1> HIDE DEF req
<1>3. CASE ~IsTrustedAddress(req.peer, trusted)
    BY <1>3 DEF ResolveRequest, req
<1>4. CASE IsTrustedAddress(req.peer, trusted) /\ writers = {}
    <2>1. c \in Seq(Adding(field))
        BY <1>1, <1>4, LastWriter
    <2>2. ResolveRequest(req, trusted)[field] = Said(asked)[field]
        BY <1>2, <1>4, <2>1, ClientIsFound DEF req
    <2> QED BY <1>4, <2>2 DEF Believed, req
<1>5. CASE IsTrustedAddress(req.peer, trusted) /\ writers # {}
    <2> DEFINE outer == SubSeq(c, 1, last - 1)
               inner == SubSeq(c, last + 1, Len(c))
    <2>1. /\ c[last] \in Links \ Adding(field) /\ outer \in Seq(Links)
          /\ inner \in Seq(Adding(field)) /\ c = Append(outer, c[last]) \o inner
        BY <1>1, <1>5, LastWriter
    <2>2. Believed(asked, c, field) = Observed(Through(asked, outer))[field]
        BY <1>5 DEF Believed
    <2> HIDE DEF outer, inner, last
    <2>3. Said(Through(asked, Append(outer, c[last]) \o inner))[field]
              = Observed(Through(asked, outer))[field]
        BY <1>2, <2>1, LastDecides
    <2>4. ResolveRequest(req, trusted) = Said(req)
        BY <1>5 DEF ResolveRequest
    <2>5. ResolveRequest(req, trusted)[field] = Observed(Through(asked, outer))[field]
        BY <2>1, <2>3, <2>4 DEF req
    <2> QED BY <1>5, <2>2, <2>5 DEF req, outer, last
<1> QED BY <1>3, <1>4, <1>5

-----------------------------------------------------------------------------
(* Edge: the limiter, after any trace of requests and for any limit.       *)

Names == {"a", "b"}
Windows == UNION {[K -> Seq(Nat)] : K \in SUBSET Names}
Limiters == [windows : Windows, lastGc : Nat, allowed : Seq(BOOLEAN)]

Bucket(w, k) == IF k \in DOMAIN w THEN w[k] ELSE <<>>
Put(w, k, b) == [j \in DOMAIN w \cup {k} |-> IF j = k THEN b ELSE w[j]]

InOrder(b, n) == /\ b \in Seq(Nat)
                 /\ \A i, j \in 1 .. Len(b) : i <= j => b[i] <= b[j]
                 /\ \A i \in 1 .. Len(b) : b[i] <= n
Recent(b, x) == {i \in 1 .. Len(b) : b[i] >= x}
Count(b, x) == Cardinality(Recent(b, x))

\* The buckets of windows are in order, up to n; none is empty or has only
\* times before x.
Ordered(w, n) == \A k \in DOMAIN w : InOrder(w[k], n)
Fresh(w, x) == \A k \in DOMAIN w : w[k] # <<>> /\ w[k][Len(w[k])] >= x

\* In order, the recent times are the last ones.
LEMMA RecentAreLast ==
    ASSUME NEW n, NEW b, InOrder(b, n), NEW x \in Int
    PROVE  \E q \in 1 .. Len(b) + 1 :
               /\ Recent(b, x) = q .. Len(b)
               /\ Count(b, x) = Len(b) + 1 - q
               /\ Recent(b, x) # {} => q = Min(Recent(b, x))
<1>1. Len(b) \in Nat /\ \A i \in 1 .. Len(b) : b[i] \in Nat
    BY DEF InOrder
<1>2. CASE Recent(b, x) = {}
    <2>1. Recent(b, x) = Len(b) + 1 .. Len(b) /\ Len(b) + 1 \in 1 .. Len(b) + 1
        BY <1>1, <1>2
    <2>2. Count(b, x) = 0
        BY <1>2, FS_EmptySet DEF Count
    <2>3. QED
        BY <1>1, <1>2, <2>1, <2>2
<1>3. CASE Recent(b, x) # {}
    <2> DEFINE q == Min(Recent(b, x))
    <2>1. q \in Recent(b, x) /\ \A y \in Recent(b, x) : q <= y
        <3>1. Recent(b, x) \in SUBSET (1 .. Len(b))
            BY DEF Recent
        <3>2. QED
            BY <1>1, <1>3, <3>1, MinOfNumbers
    <2> HIDE DEF q
    <2>2. Recent(b, x) = q .. Len(b)
        <3>1. \A i \in 1 .. Len(b) : q <= i => b[i] >= x
            BY <1>1, <2>1 DEF Recent, InOrder
        <3>2. QED
            BY <1>1, <2>1, <3>1 DEF Recent
    <2>3. q \in 1 .. Len(b)
        BY <2>1 DEF Recent
    <2>4. Count(b, x) = Len(b) + 1 - q
        BY <1>1, <2>2, <2>3, FS_Interval DEF Count
    <2>5. QED
        BY <1>1, <2>2, <2>3, <2>4 DEF q
<1>4. QED
    BY <1>2, <1>3

\* Trimming keeps what is in the window, and the last time if any.
LEMMA TrimKeeps ==
    ASSUME NEW n \in Nat, NEW b, InOrder(b, n), NEW now \in Nat
    PROVE  LET r == InWindow(b, now) IN
           /\ InOrder(r, n)
           /\ Len(r) = Count(b, now - WindowMs)
           /\ \A x \in Int : x >= now - WindowMs => Count(r, x) = Count(b, x)
           /\ r # <<>> => r[Len(r)] = b[Len(b)] /\ b # <<>> /\ r[Len(r)] >= now - WindowMs
<1> DEFINE x0 == now - WindowMs
           r == InWindow(b, now)
           len == Len(b)
<1>1. len \in Nat /\ (\A i \in 1 .. len : b[i] \in Nat) /\ x0 \in Int /\ DOMAIN b = 1 .. len
    BY DEF InOrder, WindowMs
<1>2. r = IF Recent(b, x0) = {} THEN <<>> ELSE SubSeq(b, Min(Recent(b, x0)), len)
    BY <1>1 DEF InWindow, Recent
<1> HIDE DEF r, x0, len
<1>3. PICK m \in 1 .. len + 1 :
          /\ Recent(b, x0) = m .. len
          /\ Count(b, x0) = len + 1 - m
          /\ Recent(b, x0) # {} => m = Min(Recent(b, x0))
    BY <1>1, RecentAreLast DEF len
<1>4. CASE Recent(b, x0) = {}
    <2>1. r = <<>> /\ m = len + 1
        <3>1. r = <<>>
            BY <1>2, <1>4, Zenon
        <3>2. m .. len = {}
            BY <1>3, <1>4, Zenon
        <3>3. ~ (m <= len)
            <4>1. m <= len => m \in m .. len
                BY <1>1
            <4>2. QED
                BY <3>2, <4>1, Zenon
        <3>4. QED
            BY <1>1, <3>1, <3>3
    <2>2. InOrder(r, n) /\ Len(r) = 0
        BY <2>1 DEF InOrder
    <2>3. \A x \in Int : x >= x0 => Count(r, x) = Count(b, x)
        <3>1. \A x \in Int : x >= x0 => Recent(b, x) = {} /\ Recent(r, x) = {}
            BY <1>1, <1>4, <2>1 DEF Recent, len
        <3>2. QED
            BY <3>1 DEF Count
    <2>4. QED
        BY <1>1, <1>3, <2>1, <2>2, <2>3 DEF r, x0
<1>5. CASE Recent(b, x0) # {}
    <2>0. m <= len
        <3>1. m > len => m .. len = {}
            BY <1>1
        <3>2. QED
            BY <1>1, <1>3, <1>5, <3>1
    <2>1. r = SubSeq(b, m, len) /\ m \in 1 .. len
        <3>1. r = SubSeq(b, Min(Recent(b, x0)), len)
            BY <1>2, <1>5
        <3>2. m = Min(Recent(b, x0))
            BY <1>3, <1>5
        <3>3. QED
            BY <1>1, <2>0, <3>1, <3>2
    <2>2. /\ r \in Seq(Nat) /\ Len(r) = len - m + 1
          /\ \A i \in 1 .. len - m + 1 : r[i] = b[m + i - 1]
        BY <1>1, <2>1, SubSeqProperties
    <2>3. InOrder(r, n)
        <3>1. \A i \in 1 .. Len(r) : r[i] = b[m + i - 1] /\ m + i - 1 \in 1 .. len
            BY <1>1, <2>1, <2>2
        <3>2. \A i, j \in 1 .. Len(r) : i <= j => m + i - 1 <= m + j - 1
            BY <1>1, <2>1, <2>2
        <3>3. \A i, j \in 1 .. len : i <= j => b[i] <= b[j]
            BY DEF InOrder, len
        <3>4. \A i \in 1 .. len : b[i] <= n
            BY DEF InOrder, len
        <3>5. \A i, j \in 1 .. Len(r) : i <= j => r[i] <= r[j]
            BY <3>1, <3>2, <3>3
        <3>6. QED
            BY <2>2, <3>1, <3>4, <3>5 DEF InOrder
    <2>4. ASSUME NEW x \in Int, x >= x0 PROVE Count(r, x) = Count(b, x)
        <3>1. PICK q \in 1 .. len + 1 :
                  Recent(b, x) = q .. len /\ Count(b, x) = len + 1 - q
            BY <1>1, RecentAreLast DEF len
        <3>2. Recent(b, x) \subseteq Recent(b, x0)
            BY <1>1, <2>4 DEF Recent, len
        <3>3. q >= m
            <4>1. q <= len => q \in q .. len
                BY <1>1
            <4>2. q <= len => q \in m .. len
                BY <1>3, <3>1, <3>2, <4>1
            <4>3. QED
                BY <1>1, <2>1, <4>2
        <3>4. \A i \in 1 .. len - m + 1 : r[i] >= x <=> i >= q - m + 1
            <4> SUFFICES ASSUME NEW i \in 1 .. len - m + 1 PROVE r[i] >= x <=> i >= q - m + 1
                OBVIOUS
            <4>1. m + i - 1 \in 1 .. len /\ r[i] = b[m + i - 1]
                BY <1>1, <2>1, <2>2
            <4>2. b[m + i - 1] >= x <=> m + i - 1 \in q .. len
                BY <3>1, <4>1 DEF Recent, len
            <4>3. QED
                BY <1>1, <2>1, <3>1, <4>1, <4>2
        <3>5. Recent(r, x) = q - m + 1 .. len - m + 1
            <4>1. Recent(r, x) = {i \in 1 .. len - m + 1 : r[i] >= x}
                BY <2>2 DEF Recent
            <4>2. \A i \in Int : i \in 1 .. len - m + 1 /\ i >= q - m + 1
                                     <=> i \in q - m + 1 .. len - m + 1
                BY <1>1, <2>1, <3>1, <3>3
            <4>3. QED
                BY <3>4, <4>1, <4>2
        <3>6. Cardinality(q - m + 1 .. len - m + 1) = len + 1 - q
            BY <1>1, <2>1, <3>1, <3>3, FS_Interval
        <3>7. QED
            BY <3>1, <3>5, <3>6 DEF Count
    <2>5. r[Len(r)] = b[len] /\ b[len] >= x0 /\ b # <<>>
        <3>1. Len(r) \in 1 .. len - m + 1 /\ m + Len(r) - 1 = len
            BY <1>1, <2>1, <2>2
        <3>2. len \in Recent(b, x0)
            BY <1>1, <1>3, <2>1
        <3>3. QED
            BY <1>1, <2>1, <2>2, <3>1, <3>2 DEF Recent, len
    <2>6. Len(r) = Count(b, x0)
        BY <1>1, <1>3, <2>1, <2>2
    <2>7. QED
        BY <2>3, <2>4, <2>5, <2>6 DEF r, x0, len
<1>6. QED
    BY <1>4, <1>5

\* What is allowed is counted, last.
LEMMA AppendCounts ==
    ASSUME NEW now \in Nat, NEW b, InOrder(b, now)
    PROVE  LET r == Append(b, now) IN
           /\ InOrder(r, now) /\ r # <<>> /\ r[Len(r)] = now
           /\ \A x \in Int : Count(r, x) = Count(b, x) + IF now >= x THEN 1 ELSE 0
<1> DEFINE r == Append(b, now)
<1>1. /\ b \in Seq(Nat) /\ Len(b) \in Nat /\ r \in Seq(Nat) /\ Len(r) = Len(b) + 1
      /\ \A i \in 1 .. Len(b) : r[i] = b[i] /\ b[i] \in Nat
      /\ r[Len(b) + 1] = now
    BY DEF InOrder
<1> HIDE DEF r
<1>2. InOrder(r, now) /\ r # <<>> /\ r[Len(r)] = now
    <2>1. \A i, j \in 1 .. Len(r) : i <= j => r[i] <= r[j]
        <3>1. \A i, j \in 1 .. Len(b) : i <= j => b[i] <= b[j]
            BY DEF InOrder
        <3>2. \A i \in 1 .. Len(b) : b[i] <= now
            BY DEF InOrder
        <3>3. \A i \in 1 .. Len(r) : i \in 1 .. Len(b) \/ i = Len(b) + 1
            BY <1>1
        <3>4. SUFFICES ASSUME NEW i \in 1 .. Len(r), NEW j \in 1 .. Len(r), i <= j
                       PROVE  r[i] <= r[j]
            OBVIOUS
        <3>5. CASE j = Len(b) + 1
            BY <1>1, <3>2, <3>3, <3>5
        <3>6. CASE j \in 1 .. Len(b)
            <4>1. i \in 1 .. Len(b)
                BY <1>1, <3>4, <3>6
            <4>2. QED
                BY <1>1, <3>1, <3>4, <3>6, <4>1
        <3>7. QED
            BY <3>3, <3>5, <3>6
    <2>2. \A i \in 1 .. Len(r) : r[i] <= now
        BY <1>1 DEF InOrder
    <2>3. QED
        BY <1>1, <2>1, <2>2 DEF InOrder
<1>3. ASSUME NEW x \in Int PROVE Count(r, x) = Count(b, x) + IF now >= x THEN 1 ELSE 0
    <2>1. Recent(r, x) = IF now >= x THEN Recent(b, x) \cup {Len(b) + 1} ELSE Recent(b, x)
        BY <1>1 DEF Recent
    <2>2. IsFiniteSet(Recent(b, x)) /\ Len(b) + 1 \notin Recent(b, x)
        <3>1. Recent(b, x) \in SUBSET (1 .. Len(b)) /\ Len(b) + 1 \notin Recent(b, x)
            BY <1>1 DEF Recent
        <3>2. IsFiniteSet(1 .. Len(b))
            BY <1>1, FS_Interval
        <3>3. QED
            BY <3>1, <3>2, FS_Subset
    <2>3. Count(b, x) \in Nat
        BY <2>2, FS_CardinalityType DEF Count
    <2>4. Cardinality(Recent(b, x) \cup {Len(b) + 1}) = Count(b, x) + 1
        BY <2>2, FS_AddElement DEF Count
    <2>5. QED
        BY <2>1, <2>3, <2>4 DEF Count
<1>4. QED
    BY <1>2, <1>3 DEF r


\* A bucket that is put is the only one that changes.
LEMMA PutEffect ==
    ASSUME NEW w \in Windows, NEW k \in Names, NEW b \in Seq(Nat)
    PROVE  /\ Put(w, k, b) \in Windows
           /\ \A j : Bucket(Put(w, k, b), j) = IF j = k THEN b ELSE Bucket(w, j)
           /\ \A n : Ordered(w, n) /\ InOrder(b, n) => Ordered(Put(w, k, b), n)
           /\ \A x : Fresh(w, x) /\ b # <<>> /\ b[Len(b)] >= x => Fresh(Put(w, k, b), x)
<1>1. PICK K \in SUBSET Names : w \in [K -> Seq(Nat)]
    BY DEF Windows
<1>2. Put(w, k, b) \in [K \cup {k} -> Seq(Nat)] /\ K \cup {k} \in SUBSET Names
    BY <1>1 DEF Put
<1>3. /\ DOMAIN Put(w, k, b) = DOMAIN w \cup {k}
      /\ \A j \in DOMAIN w \cup {k} : Put(w, k, b)[j] = IF j = k THEN b ELSE w[j]
    BY DEF Put
<1>4. Put(w, k, b) \in Windows
    BY <1>2 DEF Windows
<1>5. QED
    BY <1>3, <1>4 DEF Bucket, Ordered, Fresh

LEMMA NothingInWindow == \A now : InWindow(<<>>, now) = <<>>
BY DEF InWindow

\* The collection trims every bucket and drops the empty ones.
LEMMA GcEffect ==
    ASSUME NEW now \in Nat, NEW w \in Windows, Ordered(w, now)
    PROVE  /\ Gc(w, now) \in Windows
           /\ \A j : Bucket(Gc(w, now), j) = InWindow(Bucket(w, j), now)
           /\ Ordered(Gc(w, now), now)
           /\ Fresh(Gc(w, now), now - WindowMs)
<1> DEFINE live == {k \in DOMAIN w : InWindow(w[k], now) # <<>>}
<1>1. PICK K \in SUBSET Names : w \in [K -> Seq(Nat)]
    BY DEF Windows
<1>2. /\ DOMAIN Gc(w, now) = live /\ live \subseteq DOMAIN w
      /\ \A k \in live : Gc(w, now)[k] = InWindow(w[k], now)
    BY DEF Gc
<1>3. \A k \in DOMAIN w :
          /\ InOrder(InWindow(w[k], now), now) /\ InWindow(w[k], now) \in Seq(Nat)
          /\ InWindow(w[k], now) # <<>> =>
                 InWindow(w[k], now)[Len(InWindow(w[k], now))] >= now - WindowMs
    <2> SUFFICES ASSUME NEW k \in DOMAIN w
                 PROVE  /\ InOrder(InWindow(w[k], now), now) /\ InWindow(w[k], now) \in Seq(Nat)
                        /\ InWindow(w[k], now) # <<>> =>
                             InWindow(w[k], now)[Len(InWindow(w[k], now))] >= now - WindowMs
        OBVIOUS
    <2>1. InOrder(w[k], now)
        BY DEF Ordered
    <2>2. InOrder(InWindow(w[k], now), now)
          /\ (InWindow(w[k], now) # <<>> =>
                 InWindow(w[k], now)[Len(InWindow(w[k], now))] >= now - WindowMs)
        BY <2>1, TrimKeeps
    <2>3. QED
        BY <2>2 DEF InOrder
<1>4. Gc(w, now) \in [live -> Seq(Nat)] /\ live \in SUBSET Names
    <2>1. Gc(w, now) = [k \in live |-> InWindow(w[k], now)]
        BY DEF Gc
    <2>2. QED
        BY <1>1, <1>2, <1>3, <2>1
<1>5. Gc(w, now) \in Windows
    BY <1>4 DEF Windows
<1>6. InWindow(<<>>, now) = <<>>
    BY NothingInWindow
<1>7. \A j : Bucket(Gc(w, now), j) = InWindow(Bucket(w, j), now)
    BY <1>2, <1>6 DEF Bucket
<1>8. QED
    BY <1>2, <1>3, <1>5, <1>7 DEF Ordered, Fresh

\* check(), with a limit.
LEMMA CheckEffect ==
    ASSUME NEW l \in Limiters, NEW k, NEW limit \in Nat \ {0}, NEW now
    PROVE  LET b == InWindow(Bucket(l.windows, k), now)
               w == Put(l.windows, k, Append(b, now))
               due == GcDue(l.lastGc, now)
           IN  Check(l, k, limit, now) =
                 IF Len(b) >= limit
                 THEN [windows |-> Put(l.windows, k, b), lastGc |-> l.lastGc,
                       allowed |-> Append(l.allowed, FALSE)]
                 ELSE [windows |-> IF due THEN Gc(w, now) ELSE w,
                       lastGc |-> IF due THEN now ELSE l.lastGc,
                       allowed |-> Append(l.allowed, TRUE)]
<1> DEFINE b == IF k \in DOMAIN l.windows THEN InWindow(l.windows[k], now) ELSE NoBucket
           put(c) == [j \in DOMAIN l.windows \union {k} |-> IF j = k THEN c ELSE l.windows[j]]
           told(ok) == Append(l.allowed, ok)
           due == GcDue(l.lastGc, now)
<1>1. b = InWindow(Bucket(l.windows, k), now)
    BY NothingInWindow DEF Bucket, NoBucket
<1>2. \A c : put(c) = Put(l.windows, k, c)
    BY DEF Put
<1>3. Check(l, k, limit, now) =
        IF Len(b) >= limit
        THEN [windows |-> put(b), lastGc |-> l.lastGc, allowed |-> told(FALSE)]
        ELSE [windows |-> IF due THEN Gc(put(Append(b, now)), now) ELSE put(Append(b, now)),
              lastGc |-> IF due THEN now ELSE l.lastGc,
              allowed |-> told(TRUE)]
    <2>1. ~(limit <= 0)
        OBVIOUS
    <2>2. QED
        BY <2>1, Zenon DEF Check
<1> HIDE DEF b, put, due, told
<1>4. QED
    BY <1>1, <1>2, <1>3 DEF due, told


\* The requests of a key that were let through at x or later, of the first i.
Counted(t, v, k, x, i) == {j \in 1 .. i : t[j][1] = k /\ v[j] /\ t[j][2] >= x}

\* The limiter after i requests, the last of them at n, where v are the answers.
Sound(l, t, v, i, n) ==
    /\ l \in Limiters /\ Ordered(l.windows, n) /\ l.lastGc <= n
    /\ Fresh(l.windows, l.lastGc - WindowMs)
    /\ Len(l.allowed) = i /\ \A j \in 1 .. i : l.allowed[j] = v[j]
    /\ \A k \in Names, x \in Int :
         x >= n - WindowMs =>
             Count(Bucket(l.windows, k), x) = Cardinality(Counted(t, v, k, x, i))

LEMMA CountedGrows ==
    ASSUME NEW i \in Nat, NEW t, NEW v, NEW k, NEW x
    PROVE  Cardinality(Counted(t, v, k, x, i + 1)) =
               Cardinality(Counted(t, v, k, x, i))
                   + IF t[i + 1][1] = k /\ v[i + 1] /\ t[i + 1][2] >= x THEN 1 ELSE 0
<1> DEFINE P(j) == t[j][1] = k /\ v[j] /\ t[j][2] >= x
           S(n) == {j \in 1 .. n : P(j)}
<1>1. \A n : Counted(t, v, k, x, n) = S(n)
    BY DEF Counted
<1> HIDE DEF P
<1>2. S(i) \in SUBSET (1 .. i) /\ i + 1 \notin S(i)
      /\ S(i + 1) = IF P(i + 1) THEN S(i) \cup {i + 1} ELSE S(i)
    BY Z3
<1>3. IsFiniteSet(1 .. i)
    BY FS_Interval
<1> HIDE DEF S
<1>4. IsFiniteSet(S(i)) /\ Cardinality(S(i)) \in Nat
    BY <1>2, <1>3, FS_Subset, FS_CardinalityType
<1>5. Cardinality(S(i) \cup {i + 1}) = Cardinality(S(i)) + 1
    BY <1>2, <1>4, FS_AddElement
<1>6. Cardinality(S(i + 1)) = Cardinality(S(i)) + IF P(i + 1) THEN 1 ELSE 0
    BY <1>2, <1>4, <1>5
<1>7. QED
    BY <1>1, <1>6 DEF P

LEMMA BucketInOrder ==
    ASSUME NEW n \in Nat, NEW w, Ordered(w, n), NEW k
    PROVE  InOrder(Bucket(w, k), n)
BY DEF Ordered, InOrder, Bucket

LEMMA CountType ==
    ASSUME NEW n \in Nat, NEW b, InOrder(b, n), NEW x \in Int
    PROVE  Count(b, x) \in Nat
<1>1. Len(b) \in Nat
    BY DEF InOrder
<1>2. PICK q \in 1 .. Len(b) + 1 : Count(b, x) = Len(b) + 1 - q
    BY RecentAreLast
<1>3. QED
    BY <1>1, <1>2

LEMMA OrderedLater ==
    ASSUME NEW n \in Nat, NEW m \in Nat, n <= m
    PROVE  /\ \A b : InOrder(b, n) => InOrder(b, m)
           /\ \A w : Ordered(w, n) => Ordered(w, m)
<1>1. ASSUME NEW b, InOrder(b, n) PROVE InOrder(b, m)
    <2>1. \A i \in 1 .. Len(b) : b[i] \in Nat /\ b[i] <= n
        BY <1>1 DEF InOrder
    <2>2. \A i \in 1 .. Len(b) : b[i] <= m
        BY <2>1
    <2>3. QED
        BY <1>1, <2>2 DEF InOrder
<1>2. QED
    BY <1>1 DEF Ordered

LEMMA AppendTells ==
    ASSUME NEW S, NEW p \in Seq(S), NEW q \in S
    PROVE  /\ Len(Append(p, q)) = Len(p) + 1 /\ Append(p, q)[Len(p) + 1] = q
           /\ \A j \in 1 .. Len(p) : Append(p, q)[j] = p[j]
    OBVIOUS

\* One more request.
LEMMA CheckKeeps ==
    ASSUME NEW t \in Seq(Names \X Nat), NEW v, NEW i \in Nat, i + 1 <= Len(t),
           NEW n \in Nat, n <= t[i + 1][2], NEW l, Sound(l, t, v, i, n),
           NEW limit \in Nat \ {0},
           v[i + 1] = Check(l, t[i + 1][1], limit, t[i + 1][2]).allowed[i + 1]
    PROVE  LET now == t[i + 1][2]
               next == Check(l, t[i + 1][1], limit, now)
           IN  /\ Sound(next, t, v, i + 1, now)
               /\ v[i + 1] = (Cardinality(Counted(t, v, t[i + 1][1], now - WindowMs, i)) < limit)
               /\ v[i + 1] => Fresh(next.windows, now - 2 * WindowMs)
<1> DEFINE key == t[i + 1][1]
           now == t[i + 1][2]
           next == Check(l, key, limit, now)
           old == Bucket(l.windows, key)
           b == InWindow(old, now)
           ok == Len(b) < limit
           put == Put(l.windows, key, b)
           c == Append(b, now)
           add == Put(l.windows, key, c)
           due == GcDue(l.lastGc, now)
<1>1. key \in Names /\ now \in Nat /\ n <= now /\ WindowMs = 2
    <2>1. t[i + 1] \in Names \X Nat
        OBVIOUS
    <2>2. QED
        BY <2>1 DEF WindowMs
<1>2. /\ l \in Limiters /\ l.windows \in Windows /\ l.lastGc \in Nat /\ l.allowed \in Seq(BOOLEAN)
      /\ Ordered(l.windows, n) /\ l.lastGc <= n /\ Fresh(l.windows, l.lastGc - WindowMs)
      /\ Len(l.allowed) = i /\ \A j \in 1 .. i : l.allowed[j] = v[j]
    BY DEF Sound, Limiters
<1>3. next = IF Len(b) >= limit
             THEN [windows |-> put, lastGc |-> l.lastGc, allowed |-> Append(l.allowed, FALSE)]
             ELSE [windows |-> IF due THEN Gc(add, now) ELSE add,
                   lastGc |-> IF due THEN now ELSE l.lastGc,
                   allowed |-> Append(l.allowed, TRUE)]
    BY <1>2, CheckEffect
<1>4. \A k \in Names, x \in Int :
        x >= now - WindowMs =>
            Count(Bucket(l.windows, k), x) = Cardinality(Counted(t, v, k, x, i))
    BY <1>1 DEF Sound
<1>v. v[i + 1] = next.allowed[i + 1]
    OBVIOUS
<1> HIDE DEF key, now, next
<1>5. InOrder(old, n)
    BY <1>2, BucketInOrder
<1>6. /\ InOrder(b, n)
      /\ Len(b) = Count(old, now - WindowMs)
      /\ \A x \in Int : x >= now - WindowMs => Count(b, x) = Count(old, x)
      /\ b # <<>> => b[Len(b)] = old[Len(old)] /\ old # <<>>
    BY <1>1, <1>5, TrimKeeps
<1> HIDE DEF b, old
<1>7. InOrder(b, now) /\ b \in Seq(Nat) /\ Len(b) \in Nat /\ Ordered(l.windows, now)
    <2>1. InOrder(b, now) /\ Ordered(l.windows, now)
        BY <1>1, <1>2, <1>6, OrderedLater
    <2>2. b \in Seq(Nat)
        BY <1>6 DEF InOrder
    <2>3. QED
        BY <2>1, <2>2
<1>8. /\ InOrder(c, now) /\ c # <<>> /\ c[Len(c)] = now /\ c \in Seq(Nat)
      /\ \A x \in Int : Count(c, x) = Count(b, x) + IF now >= x THEN 1 ELSE 0
    <2>1. /\ InOrder(c, now) /\ c # <<>> /\ c[Len(c)] = now
          /\ \A x \in Int : Count(c, x) = Count(b, x) + IF now >= x THEN 1 ELSE 0
        BY <1>1, <1>7, AppendCounts
    <2>2. QED
        BY <2>1 DEF InOrder
<1> HIDE DEF c
<1>9. /\ put \in Windows /\ Ordered(put, now)
      /\ \A j : Bucket(put, j) = IF j = key THEN b ELSE Bucket(l.windows, j)
      /\ b # <<>> => Fresh(put, l.lastGc - WindowMs)
    <2>1. b # <<>> => b[Len(b)] >= l.lastGc - WindowMs
        BY <1>2, <1>6 DEF Fresh, Bucket, old
    <2>2. QED
        BY <1>1, <1>2, <1>7, <2>1, PutEffect
<1>10. /\ add \in Windows /\ Ordered(add, now)
       /\ \A j : Bucket(add, j) = IF j = key THEN c ELSE Bucket(l.windows, j)
       /\ Fresh(add, l.lastGc - WindowMs)
    <2>1. now >= l.lastGc - WindowMs
        BY <1>1, <1>2
    <2>2. QED
        BY <1>1, <1>2, <1>7, <1>8, <2>1, PutEffect
<1>11. /\ Gc(add, now) \in Windows /\ Ordered(Gc(add, now), now)
       /\ \A j : Bucket(Gc(add, now), j) = InWindow(Bucket(add, j), now)
       /\ Fresh(Gc(add, now), now - WindowMs)
    BY <1>1, <1>10, GcEffect
<1>12. \A j : \A x \in Int : x >= now - WindowMs =>
           Count(Bucket(Gc(add, now), j), x) = Count(Bucket(add, j), x)
    <2>1. \A j : InOrder(Bucket(add, j), now)
        BY <1>1, <1>10, BucketInOrder
    <2>2. QED
        BY <1>1, <1>11, <2>1, TrimKeeps
<1> HIDE DEF put, add, due
<1>13. v[i + 1] = ok /\ Len(next.allowed) = i + 1 /\ \A j \in 1 .. i + 1 : next.allowed[j] = v[j]
    <2>1. next.allowed = Append(l.allowed, ok)
        <3>1. CASE ok
            <4>1. ~(Len(b) >= limit) /\ ok = TRUE
                BY <1>7, <3>1
            <4>2. next.allowed = Append(l.allowed, TRUE)
                BY <1>3, <4>1
            <4>3. QED
                BY <4>1, <4>2
        <3>2. CASE ~ok
            <4>1. Len(b) >= limit /\ ok = FALSE
                BY <1>7, <3>2
            <4>2. next.allowed = Append(l.allowed, FALSE)
                BY <1>3, <4>1
            <4>3. QED
                BY <4>1, <4>2
        <3>3. QED
            BY <3>1, <3>2
    <2>2. l.allowed \in Seq(BOOLEAN) /\ Len(l.allowed) = i /\ ok \in BOOLEAN
        BY <1>2
    <2> HIDE DEF ok
    <2>3. /\ Len(Append(l.allowed, ok)) = i + 1 /\ Append(l.allowed, ok)[i + 1] = ok
          /\ \A j \in 1 .. i : Append(l.allowed, ok)[j] = l.allowed[j]
        BY <2>2, AppendTells
    <2>4. \A j \in 1 .. i + 1 : j \in 1 .. i \/ j = i + 1
        OBVIOUS
    <2>5. QED
        BY <1>2, <1>v, <2>1, <2>3, <2>4
<1>14. ok = (Cardinality(Counted(t, v, key, now - WindowMs, i)) < limit)
    BY <1>1, <1>4, <1>6 DEF old
<1>15. \A k \in Names, x \in Int :
         Cardinality(Counted(t, v, k, x, i + 1)) =
             Cardinality(Counted(t, v, k, x, i)) + IF key = k /\ ok /\ now >= x THEN 1 ELSE 0
    <2> SUFFICES ASSUME NEW k \in Names, NEW x \in Int
                 PROVE  Cardinality(Counted(t, v, k, x, i + 1)) =
                            Cardinality(Counted(t, v, k, x, i))
                                + IF key = k /\ ok /\ now >= x THEN 1 ELSE 0
        OBVIOUS
    <2>1. Cardinality(Counted(t, v, k, x, i + 1)) =
              Cardinality(Counted(t, v, k, x, i))
                  + IF t[i + 1][1] = k /\ v[i + 1] /\ t[i + 1][2] >= x THEN 1 ELSE 0
        BY CountedGrows
    <2>2. QED
        BY <1>13, <2>1 DEF key, now
<1>16. CASE ~ok
    <2>1. b # <<>>
        BY <1>7, <1>16
    <2>2. next = [windows |-> put, lastGc |-> l.lastGc, allowed |-> Append(l.allowed, FALSE)]
        BY <1>3, <1>7, <1>16
    <2>3. next \in Limiters /\ next.lastGc <= now
        BY <1>1, <1>2, <1>9, <2>2 DEF Limiters
    <2>4. ASSUME NEW k \in Names, NEW x \in Int, x >= now - WindowMs
          PROVE  Count(Bucket(put, k), x) = Cardinality(Counted(t, v, k, x, i + 1))
        <3>1. Count(Bucket(put, k), x) = Count(Bucket(l.windows, k), x)
            BY <1>6, <1>9, <2>4 DEF old
        <3>2. Cardinality(Counted(t, v, k, x, i + 1)) = Count(Bucket(l.windows, k), x) + 0
            BY <1>4, <1>15, <1>16, <2>4
        <3>3. Count(Bucket(l.windows, k), x) \in Nat
            BY <1>1, <1>7, BucketInOrder, CountType
        <3>4. QED
            BY <3>1, <3>2, <3>3
    <2>5. Sound(next, t, v, i + 1, now)
        BY <1>9, <1>13, <2>1, <2>2, <2>3, <2>4 DEF Sound
    <2>6. QED
        BY <1>13, <1>14, <1>16, <2>5 DEF key, now, next
<1>17. CASE ok
    <2>1. next = [windows |-> IF due THEN Gc(add, now) ELSE add,
                  lastGc |-> IF due THEN now ELSE l.lastGc,
                  allowed |-> Append(l.allowed, TRUE)]
        BY <1>3, <1>7, <1>17
    <2>2. next \in Limiters /\ next.lastGc <= now
        BY <1>1, <1>2, <1>10, <1>11, <2>1 DEF Limiters
    <2>3. Ordered(next.windows, now) /\ Fresh(next.windows, next.lastGc - WindowMs)
        BY <1>10, <1>11, <2>1
    <2>4. ASSUME NEW k \in Names, NEW x \in Int, x >= now - WindowMs
          PROVE  Count(Bucket(next.windows, k), x) = Cardinality(Counted(t, v, k, x, i + 1))
        <3>1. Count(Bucket(next.windows, k), x) = Count(Bucket(add, k), x)
            <4>1. CASE due
                BY <1>12, <2>1, <2>4, <4>1
            <4>2. CASE ~due
                BY <2>1, <4>2
            <4>3. QED
                BY <4>1, <4>2
        <3>2. Count(Bucket(add, k), x) =
                  IF k = key THEN Count(old, x) + IF now >= x THEN 1 ELSE 0
                  ELSE Count(Bucket(l.windows, k), x)
            BY <1>6, <1>8, <1>10, <2>4
        <3>3. Count(Bucket(l.windows, k), x) \in Nat
            BY <1>1, <1>7, BucketInOrder, CountType
        <3>4. Cardinality(Counted(t, v, k, x, i + 1)) =
                  Count(Bucket(l.windows, k), x) + IF key = k /\ now >= x THEN 1 ELSE 0
            BY <1>4, <1>15, <1>17, <2>4
        <3>5. CASE k = key
            BY <3>1, <3>2, <3>4, <3>5 DEF old
        <3>6. CASE k # key
            BY <3>1, <3>2, <3>3, <3>4, <3>6
        <3>7. QED
            BY <3>5, <3>6
    <2>5. Sound(next, t, v, i + 1, now)
        BY <1>13, <2>2, <2>3, <2>4 DEF Sound
    <2>6. Fresh(next.windows, now - 2 * WindowMs)
        <3>1. next.lastGc \in Nat /\ next.lastGc - WindowMs >= now - 2 * WindowMs
            <4>1. CASE due
                BY <1>1, <2>1, <4>1
            <4>2. CASE ~due
                <5>1. next.lastGc = l.lastGc /\ ~(now - l.lastGc > WindowMs)
                    BY <2>1, <4>2 DEF due, GcDue
                <5>2. QED
                    BY <1>1, <1>2, <5>1
            <4>3. QED
                BY <4>1, <4>2
        <3>2. \A k \in DOMAIN next.windows :
                  next.windows[k] # <<>> /\ next.windows[k] \in Seq(Nat)
            BY <2>3 DEF Fresh, Ordered, InOrder
        <3>3. \A k \in DOMAIN next.windows : next.windows[k][Len(next.windows[k])] \in Nat
            BY <3>2
        <3>4. SUFFICES ASSUME NEW k \in DOMAIN next.windows
                       PROVE  next.windows[k][Len(next.windows[k])] >= now - 2 * WindowMs
            BY <3>2 DEF Fresh
        <3>5. next.windows[k][Len(next.windows[k])] >= next.lastGc - WindowMs
            BY <2>3 DEF Fresh
        <3> DEFINE last == next.windows[k][Len(next.windows[k])]
                   gc == next.lastGc
        <3>6. last \in Nat /\ gc \in Nat /\ last >= gc - 2 /\ gc - 2 >= now - 4 /\ now \in Nat
            BY <1>1, <3>1, <3>3, <3>5 DEF WindowMs
        <3> HIDE DEF last, gc
        <3>7. last >= now - 4
            BY <3>6
        <3>8. QED
            BY <3>7 DEF last, WindowMs
    <2>7. QED
        BY <1>13, <1>14, <1>17, <2>5, <2>6 DEF key, now, next
<1>18. QED
    BY <1>16, <1>17


\* The types, whatever the order of the times.
LEMMA InWindowType ==
    ASSUME NEW b \in Seq(Nat), NEW now
    PROVE  InWindow(b, now) \in Seq(Nat)
<1> DEFINE recent == {i \in DOMAIN b : b[i] >= now - WindowMs}
<1>1. CASE recent = {}
    BY <1>1 DEF InWindow
<1>2. CASE recent # {}
    <2>1. Len(b) \in Nat /\ DOMAIN b = 1 .. Len(b) /\ recent \in SUBSET (1 .. Len(b))
        BY LenProperties
    <2>2. InWindow(b, now) = SubSeq(b, Min(recent), Len(b))
        BY <1>2 DEF InWindow
    <2> HIDE DEF recent
    <2>3. Min(recent) \in 1 .. Len(b)
        <3>1. recent \in SUBSET (Nat \ {0})
            BY <2>1
        <3>2. Min(recent) \in recent
            BY <1>2, <3>1, MinOfNumbers
        <3>3. QED
            BY <2>1, <3>2
    <2>4. SubSeq(b, Min(recent), Len(b)) \in Seq(Nat)
        BY <2>1, <2>3, SubSeqProperties
    <2>5. QED
        BY <2>2, <2>4
<1>3. QED
    BY <1>1, <1>2

LEMMA GcType ==
    ASSUME NEW w \in Windows, NEW now
    PROVE  Gc(w, now) \in Windows
<1> DEFINE live == {k \in DOMAIN w : InWindow(w[k], now) # <<>>}
<1>1. PICK K \in SUBSET Names : w \in [K -> Seq(Nat)]
    BY DEF Windows
<1>2. \A k \in live : InWindow(w[k], now) \in Seq(Nat)
    BY <1>1, InWindowType
<1>3. Gc(w, now) = [k \in live |-> InWindow(w[k], now)]
    BY DEF Gc
<1>4. live \in SUBSET Names
    BY <1>1
<1> HIDE DEF live
<1>5. Gc(w, now) \in [live -> Seq(Nat)]
    BY <1>2, <1>3
<1>6. QED
    BY <1>4, <1>5 DEF Windows

CheckStep(limit) == [p \in Limiters \X (Names \X Nat) |-> Check(p[1], p[2][1], limit, p[2][2])]

LEMMA CheckType ==
    ASSUME NEW limit \in Nat, NEW l \in Limiters, NEW k \in Names, NEW now \in Nat
    PROVE  /\ Check(l, k, limit, now) \in Limiters
           /\ limit = 0 => Check(l, k, limit, now).windows = l.windows
<1>1. l.windows \in Windows /\ l.lastGc \in Nat /\ l.allowed \in Seq(BOOLEAN)
    BY DEF Limiters
<1>2. CASE limit = 0
    <2> DEFINE a == Append(l.allowed, TRUE)
    <2>1. Check(l, k, limit, now) = [l EXCEPT !.allowed = a]
        BY <1>2 DEF Check
    <2>2. a \in Seq(BOOLEAN)
        BY <1>1
    <2> HIDE DEF a
    <2>3. [l EXCEPT !.allowed = a] \in Limiters /\ [l EXCEPT !.allowed = a].windows = l.windows
        BY <2>2 DEF Limiters
    <2>4. QED
        BY <2>1, <2>3
<1>3. CASE limit # 0
    <2> DEFINE b == InWindow(Bucket(l.windows, k), now)
               c == Append(b, now)
               put == Put(l.windows, k, b)
               add == Put(l.windows, k, c)
               due == GcDue(l.lastGc, now)
    <2>1. Check(l, k, limit, now) =
            IF Len(b) >= limit
            THEN [windows |-> put, lastGc |-> l.lastGc, allowed |-> Append(l.allowed, FALSE)]
            ELSE [windows |-> IF due THEN Gc(add, now) ELSE add,
                  lastGc |-> IF due THEN now ELSE l.lastGc,
                  allowed |-> Append(l.allowed, TRUE)]
        BY <1>3, CheckEffect
    <2>2. Bucket(l.windows, k) \in Seq(Nat)
        BY <1>1 DEF Bucket, Windows
    <2>3. b \in Seq(Nat)
        BY <2>2, InWindowType
    <2> HIDE DEF b
    <2>4. c \in Seq(Nat)
        BY <2>3
    <2> HIDE DEF c
    <2>5. put \in Windows /\ add \in Windows
        BY <1>1, <2>3, <2>4, PutEffect
    <2> HIDE DEF put, add, due
    <2>6. Gc(add, now) \in Windows
        BY <2>5, GcType
    <2>7. Append(l.allowed, FALSE) \in Seq(BOOLEAN) /\ Append(l.allowed, TRUE) \in Seq(BOOLEAN)
        BY <1>1
    <2>8. QED
        BY <1>1, <1>3, <2>1, <2>5, <2>6, <2>7 DEF Limiters
<1>4. QED
    BY <1>2, <1>3

LEMMA CheckSteps ==
    ASSUME NEW limit \in Nat
    PROVE  /\ StepOf(CheckStep(limit), Limiters, Names \X Nat)
           /\ \A l \in Limiters, r \in Names \X Nat :
                CheckStep(limit)[<<l, r>>] = Check(l, r[1], limit, r[2])
<1>1. \A l \in Limiters, r \in Names \X Nat :
          r[1] \in Names /\ r[2] \in Nat /\ Check(l, r[1], limit, r[2]) \in Limiters
    BY CheckType
<1>2. QED
    BY <1>1 DEF CheckStep, StepOf

LEMMA LimiterType == Limiter \in Limiters
<1>1. [k \in {} |-> NoBucket] \in [{} -> Seq(Nat)]
    OBVIOUS
<1>2. [k \in {} |-> NoBucket] \in Windows
    BY <1>1 DEF Windows
<1>3. QED
    BY <1>2 DEF Limiter, Limiters

\* The limiter after the requests is what the loop over them leaves.
LEMMA AfterIsFolded ==
    ASSUME NEW limit \in Nat, NEW c \in Seq(Names \X Nat)
    PROVE  After(c, limit) = Folded(CheckStep(limit), Limiter, c)
<1> DEFINE V == Limiters
           F == Names \X Nat
           Fold(f) == f = [s \in SUBSET DOMAIN c |->
                              IF s = {} THEN Limiter
                              ELSE Check(f[s \ {Max(s)}], c[Max(s)][1], limit, c[Max(s)][2])]
           fold == CHOOSE f : Fold(f)
<1>1. StepOf(CheckStep(limit), V, F)
    BY CheckSteps
<1>2. Limiter \in V
    BY LimiterType
<1>3. PICK iter \in [SUBSET DOMAIN c -> V] :
          CalculatesTyped(CheckStep(limit), V, F, Limiter, c, iter)
    BY <1>1, <1>2, LoopExists
<1> HIDE DEF F
<1>4. Fold(iter)
    BY <1>3, CheckSteps DEF CalculatesTyped, F
<1>5. Fold(fold)
    <2> HIDE DEF Fold
    <2>1. QED
        BY <1>4
<1>6. After(c, limit) = fold[DOMAIN c]
    BY Zenon DEF After, FoldLeft, MapThenFoldSet
<1> HIDE DEF fold
<1>7. Calculates(CheckStep(limit), V, F, Limiter, c, fold)
    BY <1>5, CheckSteps DEF Calculates, F
<1> HIDE DEF Fold
<1>8. fold[DOMAIN c] = Folded(CheckStep(limit), Limiter, c)
    BY <1>1, <1>2, <1>7, LoopIsFolded DEF F
<1>9. QED
    BY <1>6, <1>8

InTime(t) == \A i \in 2 .. Len(t) : t[i - 1][2] <= t[i][2]
TimeAt(t, i) == IF i = 0 THEN 0 ELSE t[i][2]

LEMMA LimiterSound ==
    ASSUME NEW t, NEW v, NEW limit \in Nat
    PROVE  Limiter \in Limiters /\ Sound(Limiter, t, v, 0, 0)
<1>1. Limiter \in Limiters
    BY LimiterType
<1>2. /\ DOMAIN Limiter.windows = {} /\ Limiter.lastGc = 0 /\ Limiter.allowed = <<>>
    BY DEF Limiter
<1>3. \A k \in Names, x \in Int :
        Count(Bucket(Limiter.windows, k), x) = Cardinality(Counted(t, v, k, x, 0))
    <2>1. \A k, x : Recent(Bucket(Limiter.windows, k), x) = {} /\ Counted(t, v, k, x, 0) = {}
        BY <1>2 DEF Recent, Bucket, Counted
    <2>2. QED
        BY <2>1 DEF Count
<1>4. QED
    BY <1>1, <1>2, <1>3 DEF Sound, Ordered, Fresh

(***************************************************************************)
(* After any requests in the order of time, for any limit, the limiter has *)
(* let through exactly those with fewer than limit of their key let        *)
(* through in the window before them, and one it lets through leaves no    *)
(* bucket older than two windows (rate-limit.ts).                          *)
(***************************************************************************)
THEOREM LimiterIsRight ==
    ASSUME NEW t \in Seq(Names \X Nat), InTime(t), NEW limit \in Nat \ {0}
    PROVE  LET l == After(t, limit)
               v == l.allowed
           IN  /\ l \in Limiters /\ Len(v) = Len(t)
               /\ \A i \in 1 .. Len(t) :
                    v[i] = (Cardinality(Counted(t, v, t[i][1], t[i][2] - WindowMs, i - 1)) < limit)
               /\ t # <<>> /\ v[Len(t)] => Fresh(l.windows, t[Len(t)][2] - 2 * WindowMs)
<1>1. StepOf(CheckStep(limit), Limiters, Names \X Nat) /\ Limiter \in Limiters
    BY CheckSteps, LimiterSound
<1>2. PICK h : Trace(CheckStep(limit), Limiter, t, h)
    BY <1>1, TraceExists
<1> DEFINE v == [j \in 1 .. Len(t) |-> h[j].allowed[j]]
           n(i) == TimeAt(t, i)
           Now(i) == t[i + 1][2]
           Right(i) == Sound(h[i], t, v, i, n(i))
           S == {i \in Nat : i <= Len(t) => Right(i)}
<1>3. ASSUME NEW i \in Nat, i + 1 <= Len(t), Right(i)
      PROVE  /\ Right(i + 1)
             /\ v[i + 1] = (Cardinality(Counted(t, v, t[i + 1][1], Now(i) - WindowMs, i)) < limit)
             /\ v[i + 1] => Fresh(h[i + 1].windows, Now(i) - 2 * WindowMs)
    <2>1. t[i + 1] \in Names \X Nat /\ i + 1 \in 1 .. Len(t) /\ (i + 1) - 1 = i
        BY <1>3
    <2>2. n(i) \in Nat /\ n(i) <= Now(i) /\ n(i + 1) = Now(i)
        <3>1. CASE i = 0
            BY <2>1, <3>1 DEF TimeAt
        <3>2. CASE i # 0
            <4>1. i + 1 \in 2 .. Len(t) /\ t[i] \in Names \X Nat
                BY <1>3, <3>2
            <4>2. t[i][2] <= t[i + 1][2]
                BY <2>1, <4>1 DEF InTime
            <4>3. QED
                BY <2>1, <3>2, <4>1, <4>2 DEF TimeAt
        <3>3. QED
            BY <3>1, <3>2
    <2>3. h[i] \in Limiters
        BY <1>3 DEF Sound
    <2>4. h[i + 1] = Check(h[i], t[i + 1][1], limit, Now(i))
        <3>1. h[i + 1] = CheckStep(limit)[<<h[i], t[i + 1]>>]
            BY <1>2, <2>1 DEF Trace
        <3>2. QED
            BY <2>1, <2>3, <3>1, CheckSteps
    <2>5. v[i + 1] = Check(h[i], t[i + 1][1], limit, Now(i)).allowed[i + 1]
        BY <2>1, <2>4
    <2> HIDE DEF v
    <2>6. Sound(h[i], t, v, i, n(i))
        BY <1>3
    <2> DEFINE next == Check(h[i], t[i + 1][1], limit, t[i + 1][2])
    <2>7. /\ Sound(next, t, v, i + 1, t[i + 1][2])
          /\ v[i + 1] = (Cardinality(Counted(t, v, t[i + 1][1], t[i + 1][2] - WindowMs, i)) < limit)
          /\ v[i + 1] => Fresh(next.windows, t[i + 1][2] - 2 * WindowMs)
        <3> HIDE DEF n
        <3>1. n(i) \in Nat /\ n(i) <= t[i + 1][2]
            BY <2>2
        <3>2. v[i + 1] = Check(h[i], t[i + 1][1], limit, t[i + 1][2]).allowed[i + 1]
            BY <2>5
        <3>3. QED
            BY <1>3, <2>6, <3>1, <3>2, CheckKeeps
    <2>8. h[i + 1] = next
        BY <2>4
    <2> HIDE DEF next
    <2>9. Right(i + 1)
        BY <2>2, <2>7, <2>8
    <2>10. QED
        BY <2>7, <2>8, <2>9
<1> HIDE DEF v
<1>4. 0 \in S
    BY <1>2, LimiterSound DEF Trace, TimeAt
<1>5. ASSUME NEW i \in S \cap Nat PROVE i + 1 \in S
    <2>1. i \in Nat /\ i + 1 \in Nat /\ (i + 1 <= Len(t) => Right(i))
        BY <1>5
    <2>2. i + 1 <= Len(t) => Right(i + 1)
        <3> HIDE DEF Right
        <3>1. QED
            BY <1>3, <2>1
    <2> HIDE DEF Right
    <2>3. QED
        BY <2>1, <2>2
<1>6. \A i \in 0 .. Len(t) : Right(i)
    <2> HIDE DEF Right
    <2>1. Nat \subseteq S
        <3> HIDE DEF S
        <3>1. QED
            BY <1>4, <1>5, SetInduction
    <2>2. QED
        BY <2>1
<1> DEFINE l == After(t, limit)
<1>7. l = h[Len(t)]
    <2>1. l = Folded(CheckStep(limit), Limiter, t)
        BY AfterIsFolded
    <2> HIDE DEF l
    <2>2. QED
        BY <1>2, <2>1, FoldedIsLast
<1> HIDE DEF l
<1>8. l \in Limiters /\ Len(l.allowed) = Len(t) /\ \A j \in 1 .. Len(t) : l.allowed[j] = v[j]
    <2>1. Right(Len(t))
        BY <1>6
    <2>2. QED
        BY <1>7, <2>1 DEF Sound
<1>9. \A k, x : \A i \in 1 .. Len(t) : Counted(t, l.allowed, k, x, i - 1) = Counted(t, v, k, x, i - 1)
    <2>1. \A i \in 1 .. Len(t) : \A j \in 1 .. i - 1 : j \in 1 .. Len(t)
        OBVIOUS
    <2>2. QED
        BY <1>8, <2>1 DEF Counted
<1>10. ASSUME NEW i \in 1 .. Len(t)
       PROVE  /\ l.allowed[i] =
                   (Cardinality(Counted(t, l.allowed, t[i][1], t[i][2] - WindowMs, i - 1)) < limit)
              /\ l.allowed[i] => Fresh(h[i].windows, t[i][2] - 2 * WindowMs)
    <2>1. i - 1 \in Nat /\ (i - 1) + 1 = i /\ i <= Len(t) /\ i - 1 \in 0 .. Len(t)
        OBVIOUS
    <2>2. /\ v[i] = (Cardinality(Counted(t, v, t[i][1], t[i][2] - WindowMs, i - 1)) < limit)
          /\ v[i] => Fresh(h[i].windows, t[i][2] - 2 * WindowMs)
        BY <1>3, <1>6, <2>1
    <2>3. QED
        BY <1>8, <1>9, <2>2
<1>11. t # <<>> /\ l.allowed[Len(t)] => Fresh(l.windows, t[Len(t)][2] - 2 * WindowMs)
    <2>1. t # <<>> => Len(t) \in 1 .. Len(t)
        OBVIOUS
    <2>2. QED
        BY <1>7, <1>10, <2>1
<1>12. QED
    BY <1>8, <1>10, <1>11 DEF l


\* Without a limit nothing is remembered.
LEMMA NoLimitNoBuckets ==
    ASSUME NEW t \in Seq(Names \X Nat)
    PROVE  DOMAIN After(t, 0).windows = {}
<1> DEFINE I == {l \in Limiters : DOMAIN l.windows = {}}
           F == Names \X Nat
<1>1. StepOf(CheckStep(0), Limiters, F)
    BY CheckSteps
<1>2. \A l \in I, r \in F : CheckStep(0)[<<l, r>>] \in I
    <2> SUFFICES ASSUME NEW l \in I, NEW r \in F PROVE CheckStep(0)[<<l, r>>] \in I
        OBVIOUS
    <2>1. CheckStep(0)[<<l, r>>] = Check(l, r[1], 0, r[2]) /\ r[1] \in Names /\ r[2] \in Nat
        BY CheckSteps
    <2>2. l \in Limiters /\ DOMAIN l.windows = {}
        OBVIOUS
    <2>3. /\ Check(l, r[1], 0, r[2]) \in Limiters
          /\ Check(l, r[1], 0, r[2]).windows = l.windows
        <3>1. \A k \in Names, now \in Nat :
                  /\ Check(l, k, 0, now) \in Limiters
                  /\ Check(l, k, 0, now).windows = l.windows
            <4>1. 0 \in Nat /\ l \in Limiters
                BY <2>2
            <4> HIDE DEF I, F
            <4>2. QED
                BY <4>1, CheckType
        <3>2. QED
            BY <2>1, <3>1
    <2>4. QED
        BY <2>1, <2>2, <2>3
<1>3. Limiter \in I
    BY LimiterType DEF Limiter
<1>4. I \in SUBSET Limiters
    OBVIOUS
<1> HIDE DEF I, F
<1>5. Folded(CheckStep(0), Limiter, t) \in I
    BY <1>1, <1>2, <1>3, <1>4, FoldedKeeps DEF F
<1>6. After(t, 0) = Folded(CheckStep(0), Limiter, t)
    BY AfterIsFolded
<1>7. QED
    BY <1>5, <1>6 DEF I

\* The traces of the model are traces in time.
LEMMA TracesInTime ==
    ASSUME NEW t \in Traces
    PROVE  t \in Seq(Names \X Nat) /\ InTime(t)
<1>1. PICK m \in 0 .. 4 : t \in [1 .. m -> {"a", "b"} \X (0 .. 5)]
    BY DEF Traces, BoundedSeq, SeqOf
<1>2. {"a", "b"} \X (0 .. 5) \subseteq Names \X Nat
    BY DEF Names
<1>3. t \in [1 .. m -> Names \X Nat]
    BY <1>1, <1>2
<1>4. QED
    BY <1>3 DEF Traces, InTime

LEMMA NoneMisjudged == Misjudged = {}
<1> SUFFICES ASSUME NEW t \in Traces, NEW limit \in Limits, limit > 0,
                    NEW i \in DOMAIN t,
                    LET allowed == After(t, limit).allowed
                        before(j) == {k \in 1 .. j - 1 : t[k][1] = t[j][1] /\ allowed[k]
                                                         /\ t[k][2] >= t[j][2] - WindowMs}
                    IN  allowed[i] # (Cardinality(before(i)) < limit)
             PROVE  FALSE
    BY DEF Misjudged
<1>1. limit \in Nat \ {0} /\ i \in 1 .. Len(t) /\ t \in Seq(Names \X Nat) /\ InTime(t)
    BY TracesInTime DEF Limits
<1>2. After(t, limit).allowed[i] =
          (Cardinality(Counted(t, After(t, limit).allowed, t[i][1], t[i][2] - WindowMs, i - 1)) < limit)
    BY <1>1, LimiterIsRight
<1>3. QED
    BY <1>2 DEF Counted

LEMMA NoneUnforgotten == Unforgotten = {}
<1> SUFFICES ASSUME NEW t \in Traces, NEW limit \in Limits, t # <<>>,
                    Last(After(t, limit).allowed),
                    NEW k \in DOMAIN After(t, limit).windows,
                    \A i \in DOMAIN After(t, limit).windows[k] :
                        After(t, limit).windows[k][i] < Last(t)[2] - 2 * WindowMs
             PROVE  FALSE
    BY DEF Unforgotten
<1>1. limit \in Nat /\ t \in Seq(Names \X Nat) /\ InTime(t)
    BY TracesInTime DEF Limits
<1>2. limit # 0
    BY <1>1, NoLimitNoBuckets
<1> DEFINE l == After(t, limit)
<1>3. l \in Limiters /\ Len(l.allowed) = Len(t)
      /\ (t # <<>> /\ l.allowed[Len(t)] => Fresh(l.windows, t[Len(t)][2] - 2 * WindowMs))
    BY <1>1, <1>2, LimiterIsRight
<1>4. Last(l.allowed) = l.allowed[Len(t)] /\ Last(t) = t[Len(t)]
    BY <1>3 DEF Last
<1>5. /\ k \in DOMAIN l.windows /\ Last(l.allowed)
      /\ \A i \in DOMAIN l.windows[k] : l.windows[k][i] < Last(t)[2] - 2 * WindowMs
    OBVIOUS
<1> HIDE DEF l
<1>6. Fresh(l.windows, Last(t)[2] - 2 * WindowMs)
    BY <1>3, <1>4, <1>5
<1>7. l.windows[k] \in Seq(Nat)
    BY <1>3, <1>5 DEF Limiters, Windows
<1>8. l.windows[k] # <<>> /\ l.windows[k][Len(l.windows[k])] >= Last(t)[2] - 2 * WindowMs
    BY <1>5, <1>6 DEF Fresh
<1>9. Len(l.windows[k]) \in DOMAIN l.windows[k] /\ l.windows[k][Len(l.windows[k])] \in Nat
    BY <1>7, <1>8
<1>10. Last(t)[2] \in Nat
    <2>1. Len(t) \in 1 .. Len(t) /\ t[Len(t)] \in Names \X Nat
        BY <1>1
    <2>2. QED
        BY <1>4, <2>1
<1>11. QED
    BY <1>5, <1>8, <1>9, <1>10 DEF WindowMs

-----------------------------------------------------------------------------
(* Setup: files and commands, for histories of any length.                 *)

NamesOfHosts == {"", "host", "other"}
Files == [there : BOOLEAN, parses : BOOLEAN, id : NamesOfHosts, starts : BOOLEAN, own : BOOLEAN]
UnitTexts == {Nothing} \cup [program : Nat, at_boot : {TRUE}, restarts : {TRUE}]
Services == [file : UnitTexts, loaded : UnitTexts, running : UnitTexts, enabled : BOOLEAN]
Computers == [config : Files, mcp : Files, paired : NamesOfHosts, version : Nat, unit : Services,
          warned : BOOLEAN]

\* Only a file that parses has settings, only a file that is there parses.
FilesWhole(m) ==
    /\ m.mcp.own => m.mcp.there
    /\ m.config.own \/ m.config.starts => m.config.parses
    /\ m.config.parses => m.config.there

\* What LostEdits looks for in a step from m to n.
Loses(m, step, n) ==
    \/ m.mcp.own /\ ~n.mcp.own
    \/ m.config.own /\ ~n.config.own /\ step \notin {"force", "corrupt"}
    \/ m.config.starts /\ ~n.config.starts /\ step # "corrupt"
    \/ step \in {"pair", "pair other"} /\ ~(Loads(n) /\ n.config.id = n.paired)
    \/ step \in {"pair", "pair other"} /\ m.config.there /\ ~m.config.parses /\ ~n.warned
    \/ step = "daemon" /\ Loads(m) /\ ~n.mcp.there

WholeComputers == {m \in Computers : FilesWhole(m)}
DoneStep == [q \in WholeComputers \X Steps |-> Done(q[1], q[2])]

LEMMA HostParts ==
    ASSUME NEW m \in Computers
    PROVE  /\ \A v \in Files : [m EXCEPT !.config = v] \in Computers
           /\ \A v \in Files : [m EXCEPT !.mcp = v] \in Computers
           /\ \A v \in NamesOfHosts : [m EXCEPT !.paired = v] \in Computers
           /\ \A v \in Nat : [m EXCEPT !.version = v] \in Computers
           /\ \A v \in Services : [m EXCEPT !.unit = v] \in Computers
           /\ \A v \in BOOLEAN : [m EXCEPT !.warned = v] \in Computers
<1>1. \A v \in Files : [m EXCEPT !.config = v] \in Computers
    BY DEF Computers
<1>2. \A v \in Files : [m EXCEPT !.mcp = v] \in Computers
    BY DEF Computers
<1>3. \A v \in NamesOfHosts : [m EXCEPT !.paired = v] \in Computers
    BY DEF Computers
<1>4. \A v \in Nat : [m EXCEPT !.version = v] \in Computers
    BY DEF Computers
<1>5. \A v \in Services : [m EXCEPT !.unit = v] \in Computers
    BY DEF Computers
<1>6. \A v \in BOOLEAN : [m EXCEPT !.warned = v] \in Computers
    BY DEF Computers
<1> QED BY <1>1, <1>2, <1>3, <1>4, <1>5, <1>6

LEMMA CleanIsHost == Clean \in Computers /\ FilesWhole(Clean)
<1>1. NoFile \in Files /\ NoUnit \in Services
    BY DEF NoFile, Files, NamesOfHosts, NoUnit, Services, UnitTexts
<1>2. Clean \in Computers
    BY <1>1 DEF Clean, Computers, NamesOfHosts
<1> QED BY <1>2 DEF Clean, FilesWhole, NoFile

LEMMA InitKeeps ==
    ASSUME NEW m \in Computers, FilesWhole(m), NEW force \in BOOLEAN
    PROVE  /\ CmdInit(m, force) \in Computers /\ FilesWhole(CmdInit(m, force))
           /\ ~Loses(m, IF force THEN "force" ELSE "init", CmdInit(m, force))
<1> DEFINE v == [there |-> TRUE, parses |-> TRUE, id |-> "host", starts |-> TRUE, own |-> FALSE]
           n == [m EXCEPT !.config = v]
<1>1. v \in Files
    BY DEF Files, NamesOfHosts
<1>2. n \in Computers /\ FilesWhole(n)
    <2>1. n \in Computers
        BY <1>1, HostParts
    <2> QED BY <2>1 DEF FilesWhole, Computers
<1>3. n.mcp = m.mcp /\ n.config.starts
    BY DEF Computers
<1>4. m.config.own => m.config.there
    BY DEF FilesWhole, Computers, Files, NamesOfHosts
<1>5. CmdInit(m, force) = IF m.config.there /\ ~force THEN m ELSE n
    BY DEF CmdInit
<1> HIDE DEF n
<1>6. CASE m.config.there /\ ~force
    BY <1>5, <1>6 DEF Loses
<1>7. CASE ~(m.config.there /\ ~force)
    BY <1>2, <1>3, <1>4, <1>5, <1>7 DEF Loses
<1> QED BY <1>6, <1>7

LEMMA PairKeeps ==
    ASSUME NEW m \in Computers, FilesWhole(m), NEW id \in NamesOfHosts, id # ""
    PROVE  /\ CmdPair(m, id) \in Computers /\ FilesWhole(CmdPair(m, id))
           /\ \A step : ~Loses(m, step, CmdPair(m, id)) \/ step = "daemon"
<1> DEFINE n == CmdPair(m, id)
           v == n.config
           w == m.warned \/ (m.config.there /\ ~m.config.parses)
           a == [m EXCEPT !.config = v]
           b == [a EXCEPT !.paired = id]
<1>1. v \in Files
    BY DEF CmdPair, Files, NamesOfHosts, NoFile, Computers
<1>2. /\ v.there /\ v.parses /\ v.id = id
      /\ m.config.parses => v.starts = m.config.starts /\ v.own = m.config.own
      /\ n.paired = id /\ n.mcp = m.mcp
      /\ m.config.there /\ ~m.config.parses => n.warned
    BY DEF CmdPair, Files, NamesOfHosts, NoFile, Computers
<1>3. n \in Computers
    <2>1. n = [b EXCEPT !.warned = w]
        BY DEF CmdPair, NoFile
    <2> HIDE DEF n, v
    <2>2. a \in Computers
        BY <1>1, HostParts
    <2> HIDE DEF a
    <2>3. b \in Computers
        BY <2>2, HostParts
    <2> HIDE DEF b
    <2>4. w \in BOOLEAN
        BY DEF Computers
    <2> HIDE DEF w
    <2> QED BY <2>1, <2>3, <2>4, HostParts
<1>4. m.mcp \in Files /\ m.config \in Files
    BY DEF Computers
<1> HIDE DEF n
<1>5. n \in Computers /\ FilesWhole(n)
    BY <1>2, <1>3, <1>4 DEF FilesWhole, Files
<1>6. ASSUME NEW step, step # "daemon" PROVE ~Loses(m, step, n)
    <2>1. Loads(n) /\ n.config.id = n.paired
        BY <1>2 DEF Loads
    <2> QED BY <1>2, <1>4, <1>6, <2>1 DEF FilesWhole, Loses, Files
<1> QED BY <1>5, <1>6 DEF n

LEMMA DaemonKeeps ==
    ASSUME NEW m \in Computers, FilesWhole(m)
    PROVE  Daemon(m) \in Computers /\ FilesWhole(Daemon(m)) /\ ~Loses(m, "daemon", Daemon(m))
<1> DEFINE v == [NoFile EXCEPT !.there = TRUE, !.parses = TRUE]
           n == [m EXCEPT !.mcp = v]
<1>1. v.there /\ v.parses /\ ~v.own /\ ~v.starts
    BY DEF NoFile
<1>2. v \in Files
    <2>1. \A f \in Files : [f EXCEPT !.there = TRUE] \in Files
        BY DEF Files
    <2>2. \A f \in Files : [f EXCEPT !.parses = TRUE] \in Files
        BY DEF Files
    <2>3. NoFile \in Files /\ v = [[NoFile EXCEPT !.there = TRUE] EXCEPT !.parses = TRUE]
        BY DEF NoFile, Files, NamesOfHosts
    <2> QED BY <2>1, <2>2, <2>3
<1>3. Daemon(m) = IF ~Loads(m) \/ m.mcp.there THEN m ELSE n
    BY DEF Daemon
<1>4. n.mcp = v /\ n.config = m.config /\ v.there
    BY <1>1 DEF Computers
<1>5. n \in Computers
    BY <1>2, HostParts
<1> HIDE DEF n, v
<1>6. CASE ~Loads(m) \/ m.mcp.there
    BY <1>3, <1>6 DEF Loses
<1>7. CASE ~(~Loads(m) \/ m.mcp.there)
    BY <1>3, <1>4, <1>5, <1>7 DEF Loses, FilesWhole
<1> QED BY <1>6, <1>7

LEMMA EditsKeep ==
    ASSUME NEW m \in Computers, FilesWhole(m)
    PROVE  /\ EditConfig(m) \in Computers /\ FilesWhole(EditConfig(m)) /\ ~Loses(m, "edit", EditConfig(m))
           /\ EditMcp(m) \in Computers /\ FilesWhole(EditMcp(m)) /\ ~Loses(m, "edit mcp", EditMcp(m))
           /\ Corrupt(m) \in Computers /\ FilesWhole(Corrupt(m)) /\ ~Loses(m, "corrupt", Corrupt(m))
<1> DEFINE a == [m EXCEPT !.config.own = TRUE]
           b == [m EXCEPT !.mcp.own = TRUE]
           v == [NoFile EXCEPT !.there = TRUE]
           d == [m EXCEPT !.config = v]
<1>1. [m.config EXCEPT !.own = TRUE] \in Files /\ [m.mcp EXCEPT !.own = TRUE] \in Files
    BY DEF Computers, Files, NamesOfHosts
<1>2. v \in Files /\ v.there /\ ~v.own /\ ~v.starts /\ ~v.parses
    <2>1. \A f \in Files : [f EXCEPT !.there = TRUE] \in Files
        BY DEF Files
    <2>2. NoFile \in Files /\ v.there /\ ~v.own /\ ~v.starts /\ ~v.parses
        BY DEF NoFile, Files, NamesOfHosts
    <2> QED BY <2>1, <2>2
<1>3. a = [m EXCEPT !.config = [m.config EXCEPT !.own = TRUE]]
    BY DEF Computers
<1>4. b = [m EXCEPT !.mcp = [m.mcp EXCEPT !.own = TRUE]]
    BY DEF Computers
<1>5. a \in Computers /\ a.config = [m.config EXCEPT !.own = TRUE] /\ a.mcp = m.mcp
    <2>1. [m EXCEPT !.config = [m.config EXCEPT !.own = TRUE]] \in Computers
        BY <1>1, HostParts
    <2> QED BY <1>3, <2>1 DEF Computers
<1>6. b \in Computers /\ b.mcp = [m.mcp EXCEPT !.own = TRUE] /\ b.config = m.config
    <2>1. [m EXCEPT !.mcp = [m.mcp EXCEPT !.own = TRUE]] \in Computers
        BY <1>1, HostParts
    <2> QED BY <1>4, <2>1 DEF Computers
<1>7. d \in Computers /\ d.config = v /\ d.mcp = m.mcp
    <2>1. d \in Computers
        BY <1>2, HostParts
    <2> QED BY <2>1 DEF Computers
<1>8. /\ EditConfig(m) = IF m.config.parses THEN a ELSE m
      /\ EditMcp(m) = IF m.mcp.there THEN b ELSE m
      /\ Corrupt(m) = IF m.config.there THEN d ELSE m
    BY DEF EditConfig, EditMcp, Corrupt
<1>9. m.config \in Files /\ m.mcp \in Files
    BY DEF Computers
<1> HIDE DEF a, b, d, v
<1>10. EditConfig(m) \in Computers /\ FilesWhole(EditConfig(m)) /\ ~Loses(m, "edit", EditConfig(m))
    BY <1>5, <1>8, <1>9 DEF FilesWhole, Loses, Files, NamesOfHosts
<1>11. EditMcp(m) \in Computers /\ FilesWhole(EditMcp(m)) /\ ~Loses(m, "edit mcp", EditMcp(m))
    BY <1>6, <1>8, <1>9 DEF FilesWhole, Loses, Files, NamesOfHosts
<1>12. Corrupt(m) \in Computers /\ FilesWhole(Corrupt(m)) /\ ~Loses(m, "corrupt", Corrupt(m))
    BY <1>2, <1>7, <1>8, <1>9 DEF FilesWhole, Loses, Files, NamesOfHosts
<1> QED BY <1>10, <1>11, <1>12

\* Every step keeps the files whole and loses nothing.
LEMMA DoneKeeps ==
    ASSUME NEW m \in Computers, FilesWhole(m), NEW step \in Steps
    PROVE  Done(m, step) \in Computers /\ FilesWhole(Done(m, step)) /\ ~Loses(m, step, Done(m, step))
<1>1. CASE step = "init"
    <2>1. Done(m, step) = CmdInit(m, FALSE) /\ step = IF FALSE THEN "force" ELSE "init"
        BY <1>1 DEF Done
    <2> QED BY <2>1, InitKeeps
<1>2. CASE step = "force"
    <2>1. Done(m, step) = CmdInit(m, TRUE) /\ step = IF TRUE THEN "force" ELSE "init"
        BY <1>2 DEF Done
    <2> QED BY <2>1, InitKeeps
<1>3. CASE step = "pair"
    <2>1. Done(m, step) = CmdPair(m, "host") /\ "host" \in NamesOfHosts \ {""}
        BY <1>3 DEF Done, NamesOfHosts
    <2> QED BY <1>3, <2>1, PairKeeps
<1>4. CASE step = "pair other"
    <2>1. Done(m, step) = CmdPair(m, "other") /\ "other" \in NamesOfHosts \ {""}
        BY <1>4 DEF Done, NamesOfHosts
    <2> QED BY <1>4, <2>1, PairKeeps
<1>5. CASE step = "daemon"
    <2>1. Done(m, step) = Daemon(m)
        BY <1>5 DEF Done
    <2> QED BY <1>5, <2>1, DaemonKeeps
<1>6. CASE step = "edit"
    <2>1. Done(m, step) = EditConfig(m)
        BY <1>6 DEF Done
    <2> QED BY <1>6, <2>1, EditsKeep
<1>7. CASE step = "corrupt"
    <2>1. Done(m, step) = Corrupt(m)
        BY <1>7 DEF Done
    <2> QED BY <1>7, <2>1, EditsKeep
<1>8. CASE step = "edit mcp"
    <2>1. Done(m, step) = EditMcp(m)
        BY <1>8 DEF Done
    <2> QED BY <1>8, <2>1, EditsKeep
<1> QED BY <1>1, <1>2, <1>3, <1>4, <1>5, <1>6, <1>7, <1>8 DEF Steps


LEMMA DoneSteps ==
    /\ StepOf(DoneStep, WholeComputers, Steps)
    /\ \A m \in WholeComputers, s \in Steps : DoneStep[<<m, s>>] = Done(m, s)
<1>1. \A m \in WholeComputers, s \in Steps : Done(m, s) \in WholeComputers
    BY DoneKeeps DEF WholeComputers
<1> QED BY <1>1 DEF DoneStep, StepOf

\* A history leaves what the loop over its steps leaves.
LEMMA DoneFolds ==
    ASSUME NEW k \in WholeComputers, NEW c \in Seq(Steps)
    PROVE  FoldLeft(Done, k, c) = Folded(DoneStep, k, c)
<1> DEFINE Fold(f) == f = [s \in SUBSET DOMAIN c |->
                              IF s = {} THEN k
                              ELSE Done(f[s \ {Max(s)}], c[Max(s)])]
           fold == CHOOSE f : Fold(f)
<1>1. StepOf(DoneStep, WholeComputers, Steps)
  BY DoneSteps
<1>2. PICK iter \in [SUBSET DOMAIN c -> WholeComputers] :
        CalculatesTyped(DoneStep, WholeComputers, Steps, k, c, iter)
  BY <1>1, LoopExists
<1>3. Fold(iter)
  BY <1>2, DoneSteps DEF CalculatesTyped
<1>4. Fold(fold)
  <2> HIDE DEF Fold
  <2>1. QED
    BY <1>3
<1>5. FoldLeft(Done, k, c) = fold[DOMAIN c]
  BY Zenon DEF FoldLeft, MapThenFoldSet
<1> HIDE DEF fold
<1>6. Calculates(DoneStep, WholeComputers, Steps, k, c, fold)
  BY <1>4, DoneSteps DEF Calculates
<1> HIDE DEF Fold
<1>7. fold[DOMAIN c] = Folded(DoneStep, k, c)
  BY <1>1, <1>6, LoopIsFolded
<1>8. QED
  BY <1>5, <1>7

(***************************************************************************)
(* After any history of commands, edits and damage, no step loses what     *)
(* somebody wrote, and a pairing leaves a daemon that loads under its name *)
(* (cc-remote.ts init and pair, mcp-config.ts, config.ts).                 *)
(***************************************************************************)
THEOREM SetupLosesNothing ==
    ASSUME NEW h \in Seq(Steps), NEW step \in Steps
    PROVE  LET m == FoldLeft(Done, Clean, h) IN ~Loses(m, step, Done(m, step))
<1> DEFINE m == FoldLeft(Done, Clean, h)
<1>1. Clean \in WholeComputers
    BY CleanIsHost DEF WholeComputers
<1>2. m = Folded(DoneStep, Clean, h)
    BY <1>1, DoneFolds
<1>3. StepOf(DoneStep, WholeComputers, Steps)
    BY DoneSteps
<1>4. m \in WholeComputers
    BY <1>1, <1>2, <1>3, FoldedType
<1> HIDE DEF m
<1>5. ~Loses(m, step, Done(m, step))
    BY <1>4, DoneKeeps DEF WholeComputers
<1> QED BY <1>5 DEF m

LEMMA NoLostEdits == LostEdits = {}
<1> SUFFICES ASSUME NEW e \in LostEdits PROVE FALSE
    OBVIOUS
<1>1. e \in SomeMachines \X Steps /\ Loses(e[1], e[2], Done(e[1], e[2]))
    BY DEF LostEdits, Loses
<1>2. PICK h \in Histories(Steps, 5) : e[1] = FoldLeft(Done, Clean, h)
    BY <1>1 DEF SomeMachines
<1>3. h \in Seq(Steps)
    <2>1. PICK n \in 0 .. 5 : h \in [1 .. n -> Steps]
        BY <1>2 DEF Histories
    <2> QED BY <2>1
<1> QED BY <1>1, <1>2, <1>3, SetupLosesNothing


-----------------------------------------------------------------------------
(* Setup: the login shell, and the PATH in a plist.                        *)

LEMMA NoSilentMiss == SilentMisses = {}
<1> SUFFICES ASSUME NEW shells \in SilentMisses PROVE FALSE
    OBVIOUS
<1> DEFINE heard == {i \in DOMAIN shells : shells[i] \notin {"none", ""}}
           out == RunInLoginShell(shells)
<1>1. shells \in [1 .. 3 -> Answers]
    BY DEF SilentMisses
<1>2. out = IF heard = {} THEN "none" ELSE shells[Min(heard)]
    BY DEF RunInLoginShell
<1>3. heard # {} => Min(heard) \in heard
    <2>1. 3 \in Nat /\ heard \in SUBSET (1 .. 3)
        BY <1>1
    <2> HIDE DEF heard
    <2> QED BY <2>1, MinOfNumbers
<1>4. out = "none" \/ out \in Range(shells) \ {"none", ""}
    <2>1. CASE heard = {}
        BY <1>2, <2>1
    <2>2. CASE heard # {}
        BY <1>1, <1>2, <1>3, <2>2 DEF Range
    <2> QED BY <2>1, <2>2
<1> HIDE DEF heard, out
<1>5. /\ SpawnToken(shells).token =
            IF ResolveBinary(shells) = "none" THEN "claude" ELSE ResolveBinary(shells)
      /\ SpawnToken(shells).warned = (ResolveBinary(shells) = "none")
      /\ ResolveBinary(shells) \in {"/bin/claude", "none"}
      /\ PathEnv(shells).path = out /\ PathEnv(shells).warned = (out = "none")
    BY DEF SpawnToken, ResolveBinary, PathEnv, out
<1>6. \/ ~(SpawnToken(shells).token = "/bin/claude"
           \/ (SpawnToken(shells).warned /\ SpawnToken(shells).token = "claude"))
      \/ PathEnv(shells).path \notin Range(shells) \ {"none", ""} /\ ~PathEnv(shells).warned
    BY DEF SilentMisses
<1> QED BY <1>4, <1>5, <1>6

XmlLetters == {"&", "<", "amp", "lt"}

\* What launchd makes of the i-th letter, of all of them, and what it refuses.
ReadAt(s, i) ==
    CASE s[i] = "&" -> <<>>
      [] s[i] = "amp" /\ (i > 1 /\ s[i - 1] = "&") -> <<"&">>
      [] s[i] = "lt" /\ (i > 1 /\ s[i - 1] = "&") -> <<"<">>
      [] OTHER -> <<s[i]>>
Text(s) == Joined([i \in DOMAIN s |-> ReadAt(s, i)])
Broken(s) ==
    \E i \in DOMAIN s : s[i] = "<" \/ (s[i] = "&" /\ (i = Len(s) \/ s[i + 1] \notin {"amp", "lt"}))

\* e is XML that reads as t, and no entity is cut off at its end.
ReadsAs(e, t) == ~Broken(e) /\ Text(e) = t /\ (e # <<>> => e[Len(e)] # "&")

LEMMA EscapedAppend ==
    ASSUME NEW L, XmlLetters \subseteq L, NEW x \in {"&", "<"}, NEW s \in Seq(L), NEW c \in L
    PROVE  /\ Escaped(s, x) \in Seq(L)
           /\ Escaped(Append(s, c), x) = Escaped(s, x) \o IF c = x THEN Entity(x) ELSE <<c>>
<1> DEFINE part(a) == IF a = x THEN Entity(x) ELSE <<a>>
           parts(u) == [i \in DOMAIN u |-> part(u[i])]
<1>1. \A a \in L : part(a) \in Seq(L)
    BY DEF Entity, XmlLetters
<1>2. \A u \in Seq(L) : Escaped(u, x) = Joined(parts(u))
    BY DEF Escaped
<1> HIDE DEF part
<1>3. parts(s) \in Seq(Seq(L))
    <2> DEFINE S == Seq(L)
    <2>1. \A i \in 1 .. Len(s) : part(s[i]) \in S
        BY <1>1
    <2> HIDE DEF S
    <2>2. [i \in 1 .. Len(s) |-> part(s[i])] \in [1 .. Len(s) -> S]
        BY <2>1
    <2>3. DOMAIN s = 1 .. Len(s) /\ Len(s) \in Nat
        OBVIOUS
    <2> QED BY <2>2, <2>3 DEF S
<1>4. parts(Append(s, c)) = Append(parts(s), part(c))
    <2> DEFINE a == Append(s, c)
               n == Len(s)
    <2>1. /\ n \in Nat /\ DOMAIN a = 1 .. n + 1 /\ DOMAIN s = 1 .. n
          /\ a[n + 1] = c /\ \A i \in 1 .. n : a[i] = s[i]
        OBVIOUS
    <2> HIDE DEF a
    <2>2. parts(a) = [i \in 1 .. n + 1 |-> part(a[i])]
        BY <2>1
    <2>3. parts(s) = [i \in 1 .. n |-> part(s[i])]
        BY <2>1
    <2> DEFINE p == parts(s)
               q == part(c)
    <2>4. Len(p) = n /\ p \in Seq(Seq(L)) /\ DOMAIN p = 1 .. n
        BY <1>3, <2>1, <2>3
    <2>5. q \in Seq(L)
        BY <1>1
    <2>6. \A i \in 1 .. n : p[i] = part(s[i])
        BY <2>3
    <2> HIDE DEF p, q
    <2>7. Append(p, q) = [i \in 1 .. n + 1 |-> IF i = n + 1 THEN q ELSE p[i]]
        <3> DEFINE S == Seq(L)
        <3>1. p \in Seq(S) /\ q \in S /\ Len(p) = n
            BY <2>4, <2>5
        <3> HIDE DEF S, n
        <3> QED BY <3>1, AppendIs
    <2>8. \A i \in 1 .. n + 1 : part(a[i]) = IF i = n + 1 THEN q ELSE p[i]
        BY <2>1, <2>6 DEF q
    <2>9. [i \in 1 .. n + 1 |-> part(a[i])] = [i \in 1 .. n + 1 |-> IF i = n + 1 THEN q ELSE p[i]]
        BY <2>8
    <2>10. parts(a) = Append(p, q)
        BY <2>2, <2>7, <2>9
    <2> QED BY <2>10 DEF a, p, q
<1>5. Append(s, c) \in Seq(L) /\ part(c) \in Seq(L)
    BY <1>1
<1> HIDE DEF parts
<1>6. /\ Joined(parts(s)) \in Seq(L)
      /\ Joined(Append(parts(s), part(c))) = Joined(parts(s)) \o part(c)
    BY <1>3, <1>5, JoinedParts
<1>7. Escaped(s, x) \in Seq(L) /\ Escaped(Append(s, c), x) = Escaped(s, x) \o part(c)
    BY <1>2, <1>4, <1>5, <1>6
<1> QED BY <1>7 DEF part

\* A letter is escaped on its own.
LEMMA EscapeXmlAppend ==
    ASSUME NEW L, XmlLetters \subseteq L, NEW s \in Seq(L), NEW c \in L
    PROVE  /\ EscapeXml(s) \in Seq(L)
           /\ EscapeXml(Append(s, c)) =
                CASE c = "&" -> Append(Append(EscapeXml(s), "&"), "amp")
                  [] c = "<" -> Append(Append(EscapeXml(s), "&"), "lt")
                  [] OTHER -> Append(EscapeXml(s), c)
<1> DEFINE A(u) == Escaped(u, "&")
           B(u) == Escaped(u, "<")
<1>1. \A u \in Seq(L), d \in L :
          /\ A(u) \in Seq(L) /\ A(Append(u, d)) = A(u) \o IF d = "&" THEN Entity("&") ELSE <<d>>
          /\ B(u) \in Seq(L) /\ B(Append(u, d)) = B(u) \o IF d = "<" THEN Entity("<") ELSE <<d>>
    <2>1. "&" \in {"&", "<"} /\ "<" \in {"&", "<"}
        OBVIOUS
    <2> QED BY <2>1, EscapedAppend
<1>2. /\ Entity("&") = <<"&", "amp">> /\ Entity("<") = <<"&", "lt">>
      /\ "&" \in L /\ "<" \in L /\ "amp" \in L /\ "lt" \in L
      /\ "&" # "<" /\ "amp" # "<"
    BY DEF Entity, XmlLetters
<1>3. \A u : EscapeXml(u) = B(A(u))
    BY DEF EscapeXml
<1> HIDE DEF A, B
<1>4. ASSUME NEW u \in Seq(L)
      PROVE  /\ A(u) \in Seq(L) /\ A(Append(u, "&")) = Append(Append(A(u), "&"), "amp")
             /\ B(u) \in Seq(L) /\ B(Append(u, "<")) = Append(Append(B(u), "&"), "lt")
    <2>1. A(u) \in Seq(L) /\ A(Append(u, "&")) = A(u) \o <<"&", "amp">>
        BY <1>1, <1>2
    <2>2. B(u) \in Seq(L) /\ B(Append(u, "<")) = B(u) \o <<"&", "lt">>
        BY <1>1, <1>2
    <2> QED BY <1>2, <2>1, <2>2, ConcatIs
<1>5. ASSUME NEW u \in Seq(L), NEW d \in L
      PROVE  /\ Append(u, d) \in Seq(L)
             /\ d # "&" => A(Append(u, d)) = Append(A(u), d)
             /\ d # "<" => B(Append(u, d)) = Append(B(u), d)
    <2>1. d # "&" => A(Append(u, d)) = A(u) \o <<d>>
        BY <1>1
    <2>2. d # "<" => B(Append(u, d)) = B(u) \o <<d>>
        BY <1>1
    <2> QED BY <1>4, <2>1, <2>2, ConcatIs
<1>6. A(s) \in Seq(L) /\ B(A(s)) \in Seq(L)
    BY <1>4
<1>7. CASE c = "&"
    <2>1. B(Append(A(s), "&")) = Append(B(A(s)), "&") /\ Append(A(s), "&") \in Seq(L)
        BY <1>2, <1>5, <1>6
    <2>2. B(Append(Append(A(s), "&"), "amp")) = Append(B(Append(A(s), "&")), "amp")
        BY <1>2, <1>5, <2>1
    <2> QED BY <1>3, <1>4, <1>6, <1>7, <2>1, <2>2
<1>8. CASE c = "<"
    <2>1. A(Append(s, "<")) = Append(A(s), "<")
        BY <1>2, <1>5
    <2> QED BY <1>2, <1>3, <1>4, <1>6, <1>8, <2>1
<1>9. CASE c # "&" /\ c # "<"
    <2>1. A(Append(s, c)) = Append(A(s), c) /\ B(Append(A(s), c)) = Append(B(A(s)), c)
        BY <1>5, <1>6, <1>9
    <2> QED BY <1>3, <1>6, <1>9, <2>1
<1> QED BY <1>7, <1>8, <1>9

\* A letter behind others does not change how they read.
LEMMA TextAppend ==
    ASSUME NEW L, XmlLetters \subseteq L, NEW s \in Seq(L), NEW c \in L
    PROVE  /\ Text(s) \in Seq(L)
           /\ Text(Append(s, c)) = Text(s) \o ReadAt(Append(s, c), Len(s) + 1)
<1> DEFINE a == Append(s, c)
           n == Len(s)
           p == [i \in DOMAIN s |-> ReadAt(s, i)]
           q == ReadAt(a, n + 1)
<1>1. /\ n \in Nat /\ a \in Seq(L) /\ DOMAIN a = 1 .. n + 1 /\ DOMAIN s = 1 .. n
      /\ a[n + 1] = c /\ \A i \in 1 .. n : a[i] = s[i]
    OBVIOUS
<1>2. ASSUME NEW u \in Seq(L), NEW i \in DOMAIN u PROVE ReadAt(u, i) \in Seq(L)
    <2>1. u[i] \in L
        OBVIOUS
    <2>2. \A d \in L : <<d>> \in Seq(L)
        OBVIOUS
    <2>3. "&" \in L /\ "<" \in L /\ <<>> \in Seq(L)
        BY DEF XmlLetters
    <2> QED BY <2>1, <2>2, <2>3 DEF ReadAt
<1> HIDE DEF a
<1>3. p \in Seq(Seq(L)) /\ DOMAIN p = 1 .. n /\ Len(p) = n
    <2> DEFINE S == Seq(L)
    <2>1. \A i \in 1 .. n : ReadAt(s, i) \in S
        BY <1>1, <1>2
    <2> HIDE DEF S
    <2>2. p \in [1 .. n -> S]
        BY <1>1, <2>1
    <2> QED BY <1>1, <2>2 DEF S
<1>4. q \in Seq(L)
    <2>1. n + 1 \in DOMAIN a
        BY <1>1
    <2> QED BY <1>1, <1>2, <2>1
<1>5. \A i \in 1 .. n : ReadAt(a, i) = p[i]
    <2>1. \A i \in 1 .. n : ReadAt(a, i) = ReadAt(s, i)
        <3> SUFFICES ASSUME NEW i \in 1 .. n PROVE ReadAt(a, i) = ReadAt(s, i)
            OBVIOUS
        <3>1. a[i] = s[i] /\ (i > 1 => a[i - 1] = s[i - 1])
            BY <1>1
        <3> QED BY <3>1 DEF ReadAt
    <2> QED BY <1>1, <2>1
<1>6. [i \in DOMAIN a |-> ReadAt(a, i)] = Append(p, q)
    <2> HIDE DEF p, q
    <2>1. Append(p, q) = [i \in 1 .. n + 1 |-> IF i = n + 1 THEN q ELSE p[i]]
        <3> DEFINE S == Seq(L)
        <3>1. p \in Seq(S) /\ q \in S /\ Len(p) = n
            BY <1>3, <1>4
        <3> HIDE DEF S, n
        <3> QED BY <3>1, AppendIs
    <2>2. \A i \in 1 .. n + 1 : ReadAt(a, i) = IF i = n + 1 THEN q ELSE p[i]
        BY <1>1, <1>5 DEF q
    <2>3. [i \in 1 .. n + 1 |-> ReadAt(a, i)] =
            [i \in 1 .. n + 1 |-> IF i = n + 1 THEN q ELSE p[i]]
        BY <2>2
    <2> QED BY <1>1, <2>1, <2>3
<1>7. Text(s) = Joined(p) /\ Text(a) = Joined(Append(p, q))
    BY <1>6 DEF Text
<1> HIDE DEF p, q
<1>8. Joined(p) \in Seq(L) /\ Joined(Append(p, q)) = Joined(p) \o q
    BY <1>3, <1>4, JoinedParts
<1>9. Text(s) \in Seq(L) /\ Text(a) = Text(s) \o q
    BY <1>7, <1>8
<1> QED BY <1>9 DEF a, q

LEMMA LetterReads ==
    ASSUME NEW L, XmlLetters \subseteq L, NEW e \in Seq(L), NEW t \in Seq(L), ReadsAs(e, t),
           NEW c \in L, c \notin {"&", "<"}
    PROVE  ReadsAs(Append(e, c), Append(t, c))
<1> DEFINE a == Append(e, c)
           n == Len(e)
<1>1. /\ n \in Nat /\ DOMAIN a = 1 .. n + 1 /\ DOMAIN e = 1 .. n /\ Len(a) = n + 1
      /\ a[n + 1] = c /\ \A i \in 1 .. n : a[i] = e[i]
    OBVIOUS
<1>2. \A i \in 1 .. n : e[i] # "<" /\ (e[i] = "&" => i # n /\ e[i + 1] \in {"amp", "lt"})
    <2> TAKE i \in 1 .. n
    <2>1. i \in DOMAIN e
        BY <1>1
    <2>2. ~ (e[i] = "<" \/ (e[i] = "&" /\ (i = Len(e) \/ e[i + 1] \notin {"amp", "lt"})))
        BY <2>1, Zenon DEF ReadsAs, Broken
    <2> QED BY <2>2
<1>3. n > 0 => e[n] # "&"
    BY <1>1 DEF ReadsAs
<1>4. Text(a) = Text(e) \o ReadAt(a, n + 1)
    BY TextAppend
<1> HIDE DEF a, n
<1>5. ~Broken(a)
    <2> SUFFICES ASSUME NEW i \in 1 .. n + 1,
                        a[i] = "<" \/ (a[i] = "&" /\ (i = n + 1 \/ a[i + 1] \notin {"amp", "lt"}))
                 PROVE  FALSE
        BY <1>1 DEF Broken
    <2>1. i \in 1 .. n
        <3>1. n \in Nat /\ a[n + 1] # "<" /\ a[n + 1] # "&"
            BY <1>1
        <3> QED BY <3>1
    <2>2. e[i] = "&" /\ i + 1 \in 1 .. n /\ a[i + 1] = e[i + 1]
        BY <1>1, <1>2, <2>1
    <2> QED BY <1>1, <1>2, <2>1, <2>2
<1>6. ReadAt(a, n + 1) = <<c>>
    <2>1. ~(n + 1 > 1 /\ a[(n + 1) - 1] = "&")
        BY <1>1, <1>3
    <2> QED BY <1>1, <2>1 DEF ReadAt
<1>7. Text(a) = Append(t, c)
    <2>1. Text(e) = t
        BY DEF ReadsAs
    <2>2. t \o <<c>> = Append(t, c)
        BY ConcatIs
    <2> QED BY <1>4, <1>6, <2>1, <2>2
<1> QED BY <1>1, <1>5, <1>7 DEF ReadsAs, a, n

LEMMA EntityReads ==
    ASSUME NEW L, XmlLetters \subseteq L, NEW e \in Seq(L), NEW t \in Seq(L), ReadsAs(e, t),
           NEW p \in {"amp", "lt"}
    PROVE  ReadsAs(Append(Append(e, "&"), p), Append(t, IF p = "amp" THEN "&" ELSE "<"))
<1> DEFINE b == Append(e, "&")
           a == Append(b, p)
           n == Len(e)
<1>1. /\ n \in Nat /\ b \in Seq(L) /\ Len(b) = n + 1 /\ DOMAIN a = 1 .. n + 2 /\ Len(a) = n + 2
      /\ DOMAIN e = 1 .. n /\ a[n + 2] = p /\ a[n + 1] = "&" /\ b[n + 1] = "&"
      /\ \A i \in 1 .. n : a[i] = e[i]
      /\ p \in L /\ "&" \in L
    BY DEF XmlLetters
<1>2. \A i \in 1 .. n : e[i] # "<" /\ (e[i] = "&" => i # n /\ e[i + 1] \in {"amp", "lt"})
    <2> TAKE i \in 1 .. n
    <2>1. i \in DOMAIN e
        BY <1>1
    <2>2. ~ (e[i] = "<" \/ (e[i] = "&" /\ (i = Len(e) \/ e[i + 1] \notin {"amp", "lt"})))
        BY <2>1, Zenon DEF ReadsAs, Broken
    <2> QED BY <2>2
<1>3. Text(b) = Text(e) \o ReadAt(b, n + 1) /\ Text(a) = Text(b) \o ReadAt(a, n + 2)
    <2>1. Text(b) = Text(e) \o ReadAt(b, Len(e) + 1) /\ Text(a) = Text(b) \o ReadAt(a, Len(b) + 1)
        <3> HIDE DEF n
        <3>1. Text(Append(e, "&")) = Text(e) \o ReadAt(Append(e, "&"), Len(e) + 1)
            BY <1>1, TextAppend
        <3>2. Text(a) = Text(b) \o ReadAt(a, Len(b) + 1)
            <4> HIDE DEF b
            <4> QED BY <1>1, TextAppend
        <3> QED BY <3>1, <3>2
    <2>2. Len(b) + 1 = n + 2
        BY <1>1
    <2> QED BY <2>1, <2>2
<1> HIDE DEF a, b, n
<1>4. ~Broken(a)
    <2> SUFFICES ASSUME NEW i \in 1 .. n + 2,
                        a[i] = "<" \/ (a[i] = "&" /\ (i = n + 2 \/ a[i + 1] \notin {"amp", "lt"}))
                 PROVE  FALSE
        BY <1>1 DEF Broken
    <2>1. CASE i = n + 2
        BY <1>1, <2>1
    <2>2. CASE i = n + 1
        BY <1>1, <2>2
    <2>3. CASE i \in 1 .. n
        <3>1. e[i] = "&" /\ i + 1 \in 1 .. n /\ a[i + 1] = e[i + 1]
            BY <1>1, <1>2, <2>3
        <3> QED BY <1>1, <1>2, <2>3, <3>1
    <2> QED BY <1>1, <2>1, <2>2, <2>3
<1>5. ReadAt(b, n + 1) = <<>>
    BY <1>1 DEF ReadAt
<1>6. ReadAt(a, n + 2) = IF p = "amp" THEN <<"&">> ELSE <<"<">>
    <2>1. n + 2 > 1 /\ a[(n + 2) - 1] = "&"
        BY <1>1
    <2> QED BY <1>1, <2>1 DEF ReadAt
<1>7. Text(b) = t
    <2>1. Text(e) = t
        BY DEF ReadsAs
    <2> QED BY <1>1, <1>3, <1>5, <2>1, ConcatIs
<1>8. Text(a) = Append(t, IF p = "amp" THEN "&" ELSE "<")
    <2>1. "<" \in L
        BY DEF XmlLetters
    <2>2. CASE p = "amp"
        <3>1. Text(b) = t /\ Text(a) = t \o <<"&">>
            BY <1>3, <1>6, <1>7, <2>2
        <3>2. t \o <<"&">> = Append(t, "&")
            BY <1>1, ConcatIs
        <3> QED BY <2>2, <3>1, <3>2
    <2>3. CASE p # "amp"
        <3>1. Text(b) = t /\ Text(a) = t \o <<"<">>
            BY <1>3, <1>6, <1>7, <2>3
        <3>2. t \o <<"<">> = Append(t, "<")
            BY <2>1, ConcatIs
        <3> QED BY <2>3, <3>1, <3>2
    <2> QED BY <2>2, <2>3
<1>9. a[Len(a)] # "&"
    BY <1>1
<1> QED BY <1>4, <1>8, <1>9 DEF ReadsAs, a, b

(***************************************************************************)
(* A PATH of any length and of any letters, those of XML included, is read *)
(* back from the plist as it was written (installer.ts escapeXml).         *)
(***************************************************************************)
THEOREM PathReads ==
    ASSUME NEW L, XmlLetters \subseteq L, NEW s \in Seq(L)
    PROVE  Parsed(EscapeXml(s)) = s
<1> DEFINE S == {n \in Nat : \A u \in Seq(L) : Len(u) = n => ReadsAs(EscapeXml(u), u)}
<1>1. 0 \in S
    <2>1. EscapeXml(<<>>) = <<>> /\ Text(<<>>) = <<>>
        <3>1. Joined(<<>>) = <<>>
            BY JoinedParts
        <3>2. \A x : Escaped(<<>>, x) = Joined(<<>>)
            <4>1. \A x : [i \in DOMAIN <<>> |->
                            IF <<>>[i] = x THEN Entity(x) ELSE <<<<>>[i]>>] = <<>>
                OBVIOUS
            <4> QED BY <4>1 DEF Escaped
        <3>3. [i \in DOMAIN <<>> |-> ReadAt(<<>>, i)] = <<>>
            OBVIOUS
        <3> QED BY <3>1, <3>2, <3>3 DEF EscapeXml, Text
    <2>2. ReadsAs(<<>>, <<>>)
        BY <2>1 DEF ReadsAs, Broken
    <2>3. \A u \in Seq(L) : Len(u) = 0 => u = <<>>
        OBVIOUS
    <2> QED BY <2>1, <2>2, <2>3
<1>2. ASSUME NEW n \in S \cap Nat PROVE n + 1 \in S
    <2> SUFFICES ASSUME NEW u \in Seq(L), Len(u) = n + 1 PROVE ReadsAs(EscapeXml(u), u)
        OBVIOUS
    <2> DEFINE v == SubSeq(u, 1, n)
               c == u[n + 1]
    <2>1. v \in Seq(L) /\ Len(v) = n /\ c \in L /\ u = Append(v, c)
        OBVIOUS
    <2> HIDE DEF v, c
    <2>2. ReadsAs(EscapeXml(v), v)
        BY <2>1
    <2> DEFINE e == EscapeXml(v)
    <2>3. /\ e \in Seq(L)
          /\ EscapeXml(u) = CASE c = "&" -> Append(Append(e, "&"), "amp")
                              [] c = "<" -> Append(Append(e, "&"), "lt")
                              [] OTHER -> Append(e, c)
        BY <2>1, EscapeXmlAppend
    <2> HIDE DEF e
    <2>4. ReadsAs(e, v)
        BY <2>2 DEF e
    <2>5. CASE c = "&"
        <3>1. ReadsAs(Append(Append(e, "&"), "amp"), Append(v, "&"))
            <4>1. "amp" \in {"amp", "lt"}
                OBVIOUS
            <4>2. ReadsAs(Append(Append(e, "&"), "amp"),
                          Append(v, IF "amp" = "amp" THEN "&" ELSE "<"))
                BY <2>1, <2>3, <2>4, <4>1, EntityReads
            <4> QED BY <4>2
        <3> QED BY <2>1, <2>3, <2>5, <3>1
    <2>6. CASE c = "<"
        <3>1. ReadsAs(Append(Append(e, "&"), "lt"), Append(v, "<"))
            <4>1. "lt" \in {"amp", "lt"}
                OBVIOUS
            <4>2. ReadsAs(Append(Append(e, "&"), "lt"),
                          Append(v, IF "lt" = "amp" THEN "&" ELSE "<"))
                BY <2>1, <2>3, <2>4, <4>1, EntityReads
            <4> QED BY <4>2
        <3> QED BY <2>1, <2>3, <2>6, <3>1
    <2>7. CASE c \notin {"&", "<"}
        <3>1. ReadsAs(Append(e, c), Append(v, c))
            BY <2>1, <2>3, <2>4, <2>7, LetterReads
        <3> QED BY <2>1, <2>3, <2>7, <3>1
    <2> QED BY <2>5, <2>6, <2>7
<1>3. Nat \subseteq S
    <2> HIDE DEF S
    <2> QED BY <1>1, <1>2, SetInduction
<1>4. ReadsAs(EscapeXml(s), s)
    <2>1. Len(s) \in S
        BY <1>3
    <2> QED BY <2>1
<1>5. \A e : Parsed(e) = IF Broken(e) THEN <<"broken">> ELSE Text(e)
    BY DEF Parsed, Broken, Text, ReadAt
<1> QED BY <1>4, <1>5 DEF ReadsAs

LEMMA NoMisreadPaths == MisreadPaths = {}
<1> SUFFICES ASSUME NEW s \in MisreadPaths PROVE FALSE
    OBVIOUS
<1> DEFINE L == {"a", "&", "<", "amp"} \cup XmlLetters
<1>1. s \in Histories({"a", "&", "<", "amp"}, 4) /\ Parsed(EscapeXml(s)) # s
    BY DEF MisreadPaths
<1>2. PICK n \in 0 .. 4 : s \in [1 .. n -> {"a", "&", "<", "amp"}]
    BY <1>1 DEF Histories
<1>3. s \in [1 .. n -> L] /\ XmlLetters \subseteq L
    BY <1>2
<1> HIDE DEF L
<1>4. s \in Seq(L)
    BY <1>3
<1> QED BY <1>1, <1>3, <1>4, PathReads


-----------------------------------------------------------------------------
(* Setup: the unit, on both platforms and for histories of any length.     *)

Managed == {"daemon-reload", "enable", "start", "launchctl start", "load -w", "stop",
            "disable", "unload -w"}
ManagerStep == [q \in Services \X Managed |-> Manager(q[1], q[2])]

LEMMA ServiceParts ==
    ASSUME NEW u \in Services
    PROVE  /\ u.file \in UnitTexts /\ u.loaded \in UnitTexts /\ u.running \in UnitTexts
           /\ \A x \in UnitTexts : [u EXCEPT !.file = x] \in Services
           /\ \A x \in UnitTexts : [u EXCEPT !.loaded = x] \in Services
           /\ \A x \in UnitTexts : [u EXCEPT !.running = x] \in Services
           /\ \A x \in BOOLEAN : [u EXCEPT !.enabled = x] \in Services
<1>1. \A x \in UnitTexts : [u EXCEPT !.file = x] \in Services
    BY DEF Services
<1>2. \A x \in UnitTexts : [u EXCEPT !.loaded = x] \in Services
    BY DEF Services
<1>3. \A x \in UnitTexts : [u EXCEPT !.running = x] \in Services
    BY DEF Services
<1>4. \A x \in BOOLEAN : [u EXCEPT !.enabled = x] \in Services
    BY DEF Services
<1> QED BY <1>1, <1>2, <1>3, <1>4 DEF Services

LEMMA NothingIsText == Nothing \in UnitTexts /\ NoUnit \in Services
    BY DEF NoUnit, Services, UnitTexts

\* What a service manager does to a unit.
Manages(u, argv, n) ==
    /\ n \in Services /\ n.file = u.file
    /\ argv = "daemon-reload" =>
         n.loaded = u.file /\ n.running = u.running /\ n.enabled = u.enabled
    /\ argv = "enable" => n.loaded = u.file /\ n.running = u.running /\ n.enabled
    /\ argv \in {"start", "launchctl start"} =>
         /\ n.loaded = u.loaded /\ n.enabled = u.enabled
         /\ n.running = IF u.running = Nothing THEN u.loaded ELSE u.running
    /\ argv = "load -w" =>
         /\ n.enabled /\ n.loaded = IF u.loaded = Nothing THEN u.file ELSE u.loaded
         /\ n.running = IF u.running = Nothing THEN n.loaded ELSE u.running
    /\ argv = "stop" =>
         n.loaded = u.loaded /\ n.running = Nothing /\ n.enabled = u.enabled
    /\ argv = "disable" =>
         /\ n.loaded = u.loaded /\ n.running = u.running
         /\ n.enabled = (u.file = Nothing /\ u.enabled)
    /\ argv = "unload -w" =>
         IF u.file = Nothing THEN n = u
         ELSE n.loaded = Nothing /\ n.running = Nothing /\ ~n.enabled

LEMMA ManagerEffect ==
    ASSUME NEW u \in Services, NEW argv \in Managed
    PROVE  Manages(u, argv, Manager(u, argv))
<1> DEFINE n == Manager(u, argv)
<1>1. CASE argv = "daemon-reload"
    <2>1. n = [u EXCEPT !.loaded = u.file]
        BY <1>1 DEF Manager
    <2>2. n \in Services
        BY <2>1, ServiceParts
    <2> QED BY <1>1, <2>1, <2>2 DEF Services, Manages
<1>2. CASE argv = "enable"
    <2> DEFINE a == [u EXCEPT !.loaded = u.file]
    <2>1. n = [u EXCEPT !.loaded = u.file, !.enabled = TRUE]
        BY <1>2 DEF Manager
    <2>2. n = [a EXCEPT !.enabled = TRUE]
        BY <2>1
    <2>3. a \in Services /\ TRUE \in BOOLEAN
        BY ServiceParts
    <2>4. n \in Services
        <3> HIDE DEF a, n
        <3> QED BY <2>2, <2>3, ServiceParts
    <2> QED BY <1>2, <2>1, <2>4 DEF Services, Manages
<1>3. CASE argv \in {"start", "launchctl start"}
    <2> DEFINE x == IF u.running = Nothing THEN u.loaded ELSE u.running
    <2>1. n = [u EXCEPT !.running = x]
        BY <1>3 DEF Manager
    <2>2. x \in UnitTexts
        BY ServiceParts
    <2> HIDE DEF x
    <2>3. n \in Services
        BY <2>1, <2>2, ServiceParts
    <2> QED BY <1>3, <2>1, <2>3 DEF Services, x, Manages
<1>4. CASE argv = "load -w"
    <2> DEFINE read == IF u.loaded = Nothing THEN u.file ELSE u.loaded
               x == IF u.running = Nothing THEN read ELSE u.running
               a == [u EXCEPT !.enabled = TRUE]
               b == [a EXCEPT !.loaded = read]
    <2>1. n = [u EXCEPT !.enabled = TRUE, !.loaded = read, !.running = x]
        BY <1>4 DEF Manager
    <2>2. read \in UnitTexts /\ x \in UnitTexts
        BY ServiceParts
    <2> HIDE DEF read, x
    <2>3. n = [b EXCEPT !.running = x]
        BY <2>1
    <2>4. a \in Services
        <3>1. TRUE \in BOOLEAN
            OBVIOUS
        <3> QED BY <3>1, ServiceParts
    <2>5. b \in Services
        <3> HIDE DEF a
        <3> QED BY <2>2, <2>4, ServiceParts
    <2>6. n \in Services
        <3> HIDE DEF b, n
        <3> QED BY <2>2, <2>3, <2>5, ServiceParts
    <2>7. n.file = u.file /\ n.enabled /\ n.loaded = read /\ n.running = x
        BY <2>1 DEF Services
    <2> HIDE DEF n
    <2> QED BY <1>4, <2>6, <2>7 DEF read, x, n, Manages
<1>5. CASE argv = "stop"
    <2>1. n = [u EXCEPT !.running = Nothing]
        BY <1>5 DEF Manager
    <2>2. n \in Services
        BY <2>1, NothingIsText, ServiceParts
    <2> QED BY <1>5, <2>1, <2>2 DEF Services, Manages
<1>6. CASE argv = "disable"
    <2>1. n = IF u.file = Nothing THEN u ELSE [u EXCEPT !.enabled = FALSE]
        BY <1>6 DEF Manager
    <2>2. [u EXCEPT !.enabled = FALSE] \in Services
        <3>1. FALSE \in BOOLEAN
            OBVIOUS
        <3> QED BY <3>1, ServiceParts
    <2>3. CASE u.file = Nothing
        <3>1. n = u /\ u.enabled \in BOOLEAN
            BY <2>1, <2>3 DEF Services
        <3> QED BY <1>6, <2>3, <3>1 DEF Manages
    <2>4. CASE u.file # Nothing
        <3>1. n = [u EXCEPT !.enabled = FALSE]
            BY <2>1, <2>4
        <3> QED BY <1>6, <2>2, <2>4, <3>1 DEF Services, Manages
    <2> QED BY <2>3, <2>4
<1>7. CASE argv = "unload -w"
    <2>1. n = IF u.file = Nothing THEN u ELSE [NoUnit EXCEPT !.file = u.file]
        BY <1>7 DEF Manager
    <2>2. u.file \in UnitTexts
        BY ServiceParts
    <2>3. [NoUnit EXCEPT !.file = u.file] \in Services
        BY <2>2, NothingIsText, ServiceParts
    <2>4. CASE u.file = Nothing
        <3>1. n = u
            BY <2>1, <2>4
        <3> QED BY <1>7, <2>4, <3>1 DEF Manages
    <2>5. CASE u.file # Nothing
        <3>1. n = [NoUnit EXCEPT !.file = u.file]
            BY <2>1, <2>5
        <3> QED BY <1>7, <2>3, <2>5, <3>1 DEF NoUnit, Manages
    <2> QED BY <2>4, <2>5
<1> QED BY <1>1, <1>2, <1>3, <1>4, <1>5, <1>6, <1>7 DEF Managed

LEMMA ManagerSteps ==
    /\ StepOf(ManagerStep, Services, Managed)
    /\ \A u \in Services, a \in Managed : ManagerStep[<<u, a>>] = Manager(u, a)
<1>1. \A u \in Services, a \in Managed : Manager(u, a) \in Services
    BY ManagerEffect DEF Manages
<1> QED BY <1>1 DEF ManagerStep, StepOf

\* The commands of an installation, one after the other.
LEMMA ManagerFolds ==
    ASSUME NEW k \in Services, NEW c \in Seq(Managed)
    PROVE  RunAll(k, c) = Folded(ManagerStep, k, c)
<1> DEFINE Fold(f) == f = [s \in SUBSET DOMAIN c |->
                              IF s = {} THEN k
                              ELSE Manager(f[s \ {Max(s)}], c[Max(s)])]
           fold == CHOOSE f : Fold(f)
<1>1. StepOf(ManagerStep, Services, Managed)
  BY ManagerSteps
<1>2. PICK iter \in [SUBSET DOMAIN c -> Services] :
        CalculatesTyped(ManagerStep, Services, Managed, k, c, iter)
  BY <1>1, LoopExists
<1>3. Fold(iter)
  BY <1>2, ManagerSteps DEF CalculatesTyped
<1>4. Fold(fold)
  <2> HIDE DEF Fold
  <2>1. QED
    BY <1>3
<1>5. RunAll(k, c) = fold[DOMAIN c]
  BY Zenon DEF RunAll, FoldLeft, MapThenFoldSet
<1> HIDE DEF fold
<1>6. Calculates(ManagerStep, Services, Managed, k, c, fold)
  BY <1>4, ManagerSteps DEF Calculates
<1> HIDE DEF Fold
<1>7. fold[DOMAIN c] = Folded(ManagerStep, k, c)
  BY <1>1, <1>6, LoopIsFolded
<1>8. QED
  BY <1>5, <1>7

LEMMA ManagerRuns ==
    ASSUME NEW u \in Services
    PROVE  /\ RunAll(u, <<>>) = u
           /\ \A a \in Managed : RunAll(u, <<a>>) = Manager(u, a)
           /\ \A a \in Managed, b \in Managed :
                RunAll(u, <<a, b>>) = Manager(Manager(u, a), b)
           /\ \A a \in Managed, b \in Managed, z \in Managed :
                RunAll(u, <<a, b, z>>) = Manager(Manager(Manager(u, a), b), z)
<1> DEFINE Run(t) == Folded(ManagerStep, u, t)
<1>1. StepOf(ManagerStep, Services, Managed)
    BY ManagerSteps
<1>2. \A t \in Seq(Managed) : RunAll(u, t) = Run(t) /\ Run(t) \in Services
    BY <1>1, ManagerFolds, FoldedType
<1>3. Run(<<>>) = u
    BY <1>1, FoldedNothing
<1>4. ASSUME NEW t \in Seq(Managed), NEW a \in Managed
      PROVE  Run(Append(t, a)) = Manager(Run(t), a)
    <2>1. Run(Append(t, a)) = ManagerStep[<<Run(t), a>>]
        BY <1>1, FoldedAppend
    <2> QED BY <1>2, <2>1, ManagerSteps
<1> HIDE DEF Run
<1>5. <<>> \in Seq(Managed)
    OBVIOUS
<1>6. ASSUME NEW a \in Managed
      PROVE  /\ <<a>> \in Seq(Managed) /\ Run(<<a>>) = Manager(u, a)
             /\ RunAll(u, <<a>>) = Manager(u, a)
    <2>1. <<a>> = Append(<<>>, a) /\ <<a>> \in Seq(Managed)
        OBVIOUS
    <2>2. Run(<<a>>) = Manager(u, a)
        BY <1>3, <1>4, <1>5, <2>1
    <2>3. RunAll(u, <<a>>) = Run(<<a>>)
        BY <1>2, <2>1
    <2> QED BY <2>1, <2>2, <2>3
<1>7. ASSUME NEW a \in Managed, NEW b \in Managed
      PROVE  /\ <<a, b>> \in Seq(Managed) /\ Run(<<a, b>>) = Manager(Manager(u, a), b)
             /\ RunAll(u, <<a, b>>) = Manager(Manager(u, a), b)
    <2>1. <<a, b>> = Append(<<a>>, b) /\ <<a, b>> \in Seq(Managed)
        OBVIOUS
    <2>2. Run(<<a, b>>) = Manager(Manager(u, a), b)
        BY <1>4, <1>6, <2>1
    <2>3. RunAll(u, <<a, b>>) = Run(<<a, b>>)
        BY <1>2, <2>1
    <2> QED BY <2>1, <2>2, <2>3
<1>8. ASSUME NEW a \in Managed, NEW b \in Managed, NEW z \in Managed
      PROVE  RunAll(u, <<a, b, z>>) = Manager(Manager(Manager(u, a), b), z)
    <2> DEFINE t == <<a, b>>
    <2>1. <<a, b, z>> = Append(t, z) /\ <<a, b, z>> \in Seq(Managed)
        OBVIOUS
    <2>2. t \in Seq(Managed) /\ Run(t) = Manager(Manager(u, a), b)
        BY <1>7
    <2> HIDE DEF t
    <2>3. Run(Append(t, z)) = Manager(Run(t), z)
        BY <1>4, <2>2
    <2>4. RunAll(u, <<a, b, z>>) = Run(<<a, b, z>>)
        BY <1>2, <2>1
    <2> QED BY <2>1, <2>2, <2>3, <2>4
<1>9. RunAll(u, <<>>) = u
    BY <1>2, <1>3, <1>5
<1> QED BY <1>6, <1>7, <1>8, <1>9

LEMMA RunOne ==
    ASSUME NEW u \in Services, NEW a \in Managed
    PROVE  RunAll(u, <<a>>) = Manager(u, a)
    BY ManagerRuns

LEMMA RunTwo ==
    ASSUME NEW u \in Services, NEW a \in Managed, NEW b \in Managed
    PROVE  RunAll(u, <<a, b>>) = Manager(Manager(u, a), b)
    BY ManagerRuns

LEMMA RunThree ==
    ASSUME NEW u \in Services, NEW a \in Managed, NEW b \in Managed, NEW z \in Managed
    PROVE  RunAll(u, <<a, b, z>>) = Manager(Manager(Manager(u, a), b), z)
    BY ManagerRuns

\* What stands in the unit of a machine, between commands.  A unit without a
\* file is not enabled; launchd runs every unit it has loaded, and none whose
\* file is gone.
UnitInv(p, u) ==
    /\ u.file = Nothing => ~u.enabled
    /\ p = "darwin" => (u.running = Nothing => u.loaded = Nothing)
                       /\ (u.file = Nothing => u.running = Nothing)

UnitComputers(p) == {m \in Computers : UnitInv(p, m.unit)}

Commands(p, good) == SubSeq(InstallCommands(p), 1, Min({good, Len(InstallCommands(p))}))

LEMMA FirstOnes ==
    ASSUME NEW S, NEW s \in Seq(S)
    PROVE  /\ SubSeq(s, 1, 0) = <<>> /\ SubSeq(s, 1, Len(s)) = s
           /\ s # <<>> => SubSeq(s, 1, 1) = <<s[1]>>
<1>1. SubSeq(s, 1, 0) = <<>>
    OBVIOUS
<1>2. SubSeq(s, 1, Len(s)) = s
    OBVIOUS
<1>3. ASSUME s # <<>> PROVE SubSeq(s, 1, 1) = <<s[1]>>
    <2> DEFINE t == SubSeq(s, 1, 1)
    <2>1. t \in Seq(S) /\ Len(t) = 1 /\ t[1] = s[1]
        BY <1>3
    <2> HIDE DEF t
    <2>2. t = <<t[1]>>
        BY <2>1
    <2> QED BY <2>1, <2>2 DEF t
<1> QED BY <1>1, <1>2, <1>3

LEMMA CommandsAre ==
    /\ Commands("linux", 0) = <<>> /\ Commands("darwin", 0) = <<>>
    /\ Commands("linux", 1) = <<"daemon-reload">> /\ Commands("darwin", 1) = <<"load -w">>
    /\ Commands("linux", 3) = <<"daemon-reload", "enable", "start">>
    /\ Commands("darwin", 3) = <<"load -w", "launchctl start">>
<1>1. \A x \in 0 .. 3, y \in 0 .. 3 : x <= y => Min({x, y}) = x
    <2> SUFFICES ASSUME NEW x \in 0 .. 3, NEW y \in 0 .. 3, x <= y PROVE Min({x, y}) = x
        OBVIOUS
    <2> DEFINE Least(w) == w \in {x, y} /\ \A z \in {x, y} : w <= z
    <2>1. Least(x) /\ \A w : Least(w) => w = x
        OBVIOUS
    <2>2. Min({x, y}) = CHOOSE w : Least(w)
        BY Zenon DEF Min
    <2> HIDE DEF Least
    <2> QED BY <2>1, <2>2
<1>2. {3, 2} = {2, 3}
    OBVIOUS
<1>3. Min({0, 3}) = 0 /\ Min({1, 3}) = 1 /\ Min({3, 3}) = 3 /\ Min({0, 2}) = 0 /\ Min({1, 2}) = 1
      /\ Min({3, 2}) = 2
    BY <1>1, <1>2
<1> DEFINE l == <<"daemon-reload", "enable", "start">>
           d == <<"load -w", "launchctl start">>
<1>4. l \in Seq(Managed) /\ Len(l) = 3 /\ l[1] = "daemon-reload" /\ l # <<>>
    BY DEF Managed
<1>5. d \in Seq(Managed) /\ Len(d) = 2 /\ d[1] = "load -w" /\ d # <<>>
    BY DEF Managed
<1>6. InstallCommands("linux") = l /\ InstallCommands("darwin") = d
    BY DEF InstallCommands
<1> HIDE DEF l, d
<1>7. SubSeq(l, 1, 0) = <<>> /\ SubSeq(l, 1, 1) = <<"daemon-reload">> /\ SubSeq(l, 1, 3) = l
    BY <1>4, FirstOnes
<1>8. SubSeq(d, 1, 0) = <<>> /\ SubSeq(d, 1, 1) = <<"load -w">> /\ SubSeq(d, 1, 2) = d
    BY <1>5, FirstOnes
<1> QED BY <1>3, <1>4, <1>5, <1>6, <1>7, <1>8 DEF Commands, l, d

\* An installation, wherever it stops, leaves a unit in order; when nothing
\* ran and no command failed, it runs what it has written.
LEMMA InstallEffect ==
    ASSUME NEW p \in Platforms, NEW m \in UnitComputers(p), NEW good \in {0, 1, 3}
    PROVE  LET n == CmdInstall(m, p, good) IN
           /\ n \in UnitComputers(p) /\ n.version = m.version
           /\ m.unit.running = Nothing /\ good = 3 =>
                /\ n.unit.file = UnitContent(m) /\ n.unit.enabled
                /\ n.unit.loaded = UnitContent(m) /\ n.unit.running = UnitContent(m)
<1> DEFINE new == UnitContent(m)
           v == [m.unit EXCEPT !.file = new]
           w == RunAll(v, Commands(p, good))
           n == CmdInstall(m, p, good)
<1>1. m \in Computers /\ UnitInv(p, m.unit) /\ m.unit \in Services /\ m.version \in Nat
    BY DEF UnitComputers, Computers
<1>2. new \in UnitTexts /\ new # Nothing
    BY <1>1 DEF UnitContent, UnitTexts, Nothing
<1> HIDE DEF new
<1>3. v \in Services /\ v.file = new /\ v.loaded = m.unit.loaded /\ v.running = m.unit.running
    BY <1>1, <1>2, ServiceParts DEF Services
<1>4. n = [m EXCEPT !.unit = w]
    BY DEF CmdInstall, Commands, new
<1> HIDE DEF v, n
<1>5. /\ w \in Services /\ w.file = new
      /\ p = "darwin" => (w.running = Nothing => w.loaded = Nothing)
      /\ m.unit.running = Nothing /\ good = 3 =>
            w.enabled /\ w.loaded = new /\ w.running = new
    <2>1. {"daemon-reload", "enable", "start", "load -w", "launchctl start"} \subseteq Managed
        BY DEF Managed
    <2>2. CASE good = 0
        <3>1. w = v
            BY <2>2, <1>3, CommandsAre, ManagerRuns DEF Platforms
        <3> QED BY <1>1, <1>3, <2>2, <3>1 DEF UnitInv
    <2>3. CASE p = "linux" /\ good # 0
        <3> DEFINE a == Manager(v, "daemon-reload")
                   b == Manager(a, "enable")
                   z == Manager(b, "start")
        <3>1. a \in Services /\ a.file = new /\ a.running = m.unit.running
            <4>1. Manages(v, "daemon-reload", a)
                BY <1>3, <2>1, ManagerEffect
            <4> HIDE DEF a
            <4> QED BY <1>3, <4>1 DEF Manages
        <3>2. good = 1 => w = a
            <4>1. good = 1 => Commands(p, good) = <<"daemon-reload">>
                BY <2>3, CommandsAre
            <4>2. RunAll(v, <<"daemon-reload">>) = a
                BY <1>3, <2>1, RunOne
            <4> QED BY <4>1, <4>2
        <3>3. good = 3 => w = z
            <4>1. good = 3 => Commands(p, good) = <<"daemon-reload", "enable", "start">>
                BY <2>3, CommandsAre
            <4>2. RunAll(v, <<"daemon-reload", "enable", "start">>) = z
                BY <1>3, <2>1, RunThree
            <4> QED BY <4>1, <4>2
        <3> HIDE DEF w, a
        <3>4. b \in Services /\ b.file = new /\ b.running = m.unit.running /\ b.loaded = new
              /\ b.enabled
            <4>1. Manages(a, "enable", b)
                BY <2>1, <3>1, ManagerEffect
            <4> HIDE DEF b
            <4> QED BY <3>1, <4>1 DEF Manages
        <3> HIDE DEF b
        <3>5. /\ z \in Services /\ z.file = new /\ z.loaded = new /\ z.enabled = b.enabled
              /\ z.running = IF b.running = Nothing THEN b.loaded ELSE b.running
            <4>1. Manages(b, "start", z)
                BY <2>1, <3>4, ManagerEffect
            <4> HIDE DEF z
            <4> QED BY <3>4, <4>1 DEF Manages
        <3> HIDE DEF z
        <3> QED BY <2>3, <3>1, <3>2, <3>3, <3>4, <3>5
    <2>4. CASE p = "darwin" /\ good # 0
        <3> DEFINE a == Manager(v, "load -w")
                   z == Manager(a, "launchctl start")
        <3>1. /\ a \in Services /\ a.file = new /\ a.enabled
              /\ a.loaded = IF m.unit.loaded = Nothing THEN new ELSE m.unit.loaded
              /\ a.running = IF m.unit.running = Nothing THEN a.loaded ELSE m.unit.running
            <4>1. Manages(v, "load -w", a)
                BY <1>3, <2>1, ManagerEffect
            <4> HIDE DEF a
            <4> QED BY <1>3, <4>1 DEF Manages
        <3>2. good = 1 => w = a
            <4>1. good = 1 => Commands(p, good) = <<"load -w">>
                BY <2>4, CommandsAre
            <4>2. RunAll(v, <<"load -w">>) = a
                BY <1>3, <2>1, RunOne
            <4> QED BY <4>1, <4>2
        <3>3. good = 3 => w = z
            <4>1. good = 3 => Commands(p, good) = <<"load -w", "launchctl start">>
                BY <2>4, CommandsAre
            <4>2. RunAll(v, <<"load -w", "launchctl start">>) = z
                BY <1>3, <2>1, RunTwo
            <4> QED BY <4>1, <4>2
        <3> HIDE DEF w, a
        <3>4. m.unit.running = Nothing => m.unit.loaded = Nothing
            BY <1>1, <2>4 DEF UnitInv
        <3>5. a.running # Nothing
            BY <1>2, <3>1, <3>4
        <3>6. /\ z \in Services /\ z.file = new /\ z.loaded = a.loaded /\ z.enabled = a.enabled
              /\ z.running = IF a.running = Nothing THEN a.loaded ELSE a.running
            <4>1. Manages(a, "launchctl start", z)
                BY <2>1, <3>1, ManagerEffect
            <4> HIDE DEF z
            <4> QED BY <3>1, <4>1 DEF Manages
        <3> HIDE DEF z
        <3> QED BY <2>4, <3>1, <3>2, <3>3, <3>4, <3>5, <3>6
    <2> QED BY <2>2, <2>3, <2>4 DEF Platforms
<1> HIDE DEF w
<1>6. n \in Computers /\ n.unit = w /\ n.version = m.version
    BY <1>1, <1>4, <1>5, HostParts DEF Computers
<1>7. UnitInv(p, w)
    BY <1>2, <1>5 DEF UnitInv
<1> QED BY <1>5, <1>6, <1>7 DEF UnitComputers, n, new

\* After an uninstallation nothing is left of the unit that would run.
LEMMA UninstallEffect ==
    ASSUME NEW p \in Platforms, NEW m \in UnitComputers(p)
    PROVE  LET n == CmdUninstall(m, p) IN
           n \in UnitComputers(p) /\ ~n.unit.enabled /\ n.unit.file = Nothing
           /\ n.unit.running = Nothing
<1> DEFINE u == m.unit
           w == RunAll(u, UninstallCommands(p))
           x == [w EXCEPT !.file = Nothing]
           n == CmdUninstall(m, p)
<1>1. m \in Computers /\ UnitInv(p, u) /\ u \in Services
    BY DEF UnitComputers, Computers
<1>2. n = [m EXCEPT !.unit = x]
    BY DEF CmdUninstall
<1> HIDE DEF u, n
<1>3. /\ w \in Services /\ ~w.enabled /\ w.running = Nothing
      /\ p = "darwin" => w.loaded = Nothing
    <2>1. {"stop", "disable", "unload -w"} \subseteq Managed
        BY DEF Managed
    <2>2. CASE p = "linux"
        <3> DEFINE a == Manager(u, "stop")
                   b == Manager(a, "disable")
        <3>1. UninstallCommands(p) = <<"stop", "disable">>
            BY <2>2 DEF UninstallCommands
        <3>2. w = b
            <4>1. RunAll(u, <<"stop", "disable">>) = b
                BY <1>1, <2>1, RunTwo
            <4> QED BY <3>1, <4>1
        <3>3. a \in Services /\ a.running = Nothing /\ a.file = u.file /\ a.enabled = u.enabled
            <4>1. Manages(u, "stop", a)
                BY <1>1, <2>1, ManagerEffect
            <4> HIDE DEF a
            <4> QED BY <1>1, <4>1 DEF Manages
        <3> HIDE DEF a, w
        <3>4. /\ b \in Services /\ b.running = a.running
              /\ b.enabled = (a.file = Nothing /\ a.enabled)
            <4>1. Manages(a, "disable", b)
                BY <2>1, <3>3, ManagerEffect
            <4> HIDE DEF b
            <4> QED BY <3>3, <4>1 DEF Manages
        <3> HIDE DEF b
        <3> QED BY <1>1, <2>2, <3>2, <3>3, <3>4 DEF UnitInv
    <2>3. CASE p = "darwin"
        <3> DEFINE a == Manager(u, "unload -w")
        <3>1. UninstallCommands(p) = <<"unload -w">>
            BY <2>3 DEF UninstallCommands
        <3>2. w = a
            <4>1. RunAll(u, <<"unload -w">>) = a
                BY <1>1, <2>1, RunOne
            <4> QED BY <3>1, <4>1
        <3>3. /\ a \in Services
              /\ IF u.file = Nothing THEN a = u
                 ELSE a.loaded = Nothing /\ a.running = Nothing /\ ~a.enabled
            <4>1. Manages(u, "unload -w", a)
                BY <1>1, <2>1, ManagerEffect
            <4> HIDE DEF a
            <4> QED BY <1>1, <4>1 DEF Manages
        <3> HIDE DEF a, w
        <3> QED BY <1>1, <2>3, <3>2, <3>3 DEF UnitInv
    <2> QED BY <2>2, <2>3 DEF Platforms
<1> HIDE DEF w
<1>4. x \in Services /\ x.file = Nothing /\ x.enabled = w.enabled /\ x.running = w.running
      /\ x.loaded = w.loaded
    BY <1>3, NothingIsText, ServiceParts DEF Services
<1> HIDE DEF x
<1>5. n \in Computers /\ n.unit = x
    BY <1>1, <1>2, <1>4, HostParts DEF Computers
<1>6. UnitInv(p, x)
    BY <1>3, <1>4 DEF UnitInv
<1> QED BY <1>3, <1>4, <1>5, <1>6 DEF UnitComputers, n

\* A reboot runs what is enabled; a daemon that ends is started as loaded.
LEMMA RestartEffect ==
    ASSUME NEW p \in Platforms, NEW m \in UnitComputers(p)
    PROVE  /\ Reboot(m) \in UnitComputers(p) /\ Crash(m) \in UnitComputers(p)
           /\ Reboot(m).unit.running =
                IF m.unit.enabled /\ m.unit.file.at_boot THEN m.unit.file ELSE Nothing
           /\ Crash(m).unit.running =
                IF m.unit.running.restarts THEN m.unit.loaded ELSE Nothing
<1> DEFINE u == m.unit
           up == IF u.enabled /\ u.file.at_boot THEN u.file ELSE Nothing
           back == IF u.running.restarts THEN u.loaded ELSE Nothing
           a == [u EXCEPT !.loaded = up]
           b == [a EXCEPT !.running = up]
           z == [u EXCEPT !.running = back]
<1>1. m \in Computers /\ UnitInv(p, u) /\ u \in Services
    BY DEF UnitComputers, Computers
<1>2. Reboot(m) = [m EXCEPT !.unit = b]
    BY <1>1 DEF Reboot, Computers, Services
<1>3. Crash(m) = [m EXCEPT !.unit = z]
    BY <1>1 DEF Crash, Computers, Services
<1>4. up \in UnitTexts /\ back \in UnitTexts
    BY <1>1, NothingIsText, ServiceParts
<1>5. u.running = Nothing => back = Nothing
    BY DEF Nothing
<1>6. u.file = Nothing => up = Nothing
    OBVIOUS
<1>7. u.running # Nothing => back = u.loaded
    BY <1>1, ServiceParts DEF UnitTexts
<1> HIDE DEF up, back, u
<1>8. a \in Services
    BY <1>1, <1>4, ServiceParts
<1>9. b \in Services
    <2> HIDE DEF a
    <2> QED BY <1>4, <1>8, ServiceParts
<1>10. z \in Services
    BY <1>1, <1>4, ServiceParts
<1>11. b.file = u.file /\ b.enabled = u.enabled /\ b.loaded = up /\ b.running = up
    BY <1>1 DEF Services
<1>12. z.file = u.file /\ z.enabled = u.enabled /\ z.loaded = u.loaded /\ z.running = back
    BY <1>1 DEF Services
<1> HIDE DEF a, b, z
<1>13. UnitInv(p, b) 
    BY <1>1, <1>6, <1>11 DEF UnitInv
<1>14. UnitInv(p, z)
    <2>1. p = "darwin" /\ z.running = Nothing => z.loaded = Nothing
        BY <1>1, <1>12, <1>7 DEF UnitInv
    <2> QED BY <1>1, <1>5, <1>12, <2>1 DEF UnitInv
<1>15. Reboot(m) \in Computers /\ Reboot(m).unit = b
    BY <1>1, <1>2, <1>9, HostParts DEF Computers
<1>16. Crash(m) \in Computers /\ Crash(m).unit = z
    BY <1>1, <1>3, <1>10, HostParts DEF Computers
<1> QED BY <1>11, <1>12, <1>13, <1>14, <1>15, <1>16 DEF UnitComputers, up, back, u


UnitStep(p) == [q \in UnitComputers(p) \X UnitSteps |-> UnitDone(p, q[1], q[2])]

LEMMA UnitDoneKeeps ==
    ASSUME NEW p \in Platforms, NEW m \in UnitComputers(p), NEW step \in UnitSteps
    PROVE  UnitDone(p, m, step) \in UnitComputers(p)
<1>1. CASE step = "upgrade"
    <2> DEFINE v == m.version + 1
    <2>1. UnitDone(p, m, step) = [m EXCEPT !.version = v]
        BY <1>1 DEF UnitDone, Upgrade
    <2>2. m \in Computers /\ v \in Nat /\ UnitInv(p, m.unit)
        BY DEF UnitComputers, Computers
    <2> HIDE DEF v
    <2>3. [m EXCEPT !.version = v] \in Computers /\ [m EXCEPT !.version = v].unit = m.unit
        BY <2>2, HostParts DEF Computers
    <2> QED BY <2>1, <2>2, <2>3 DEF UnitComputers
<1>2. CASE step = "reboot"
    <2>1. UnitDone(p, m, step) = Reboot(m)
        BY <1>2 DEF UnitDone
    <2> QED BY <2>1, RestartEffect
<1>3. CASE step = "crash"
    <2>1. UnitDone(p, m, step) = Crash(m)
        BY <1>3 DEF UnitDone
    <2> QED BY <2>1, RestartEffect
<1>4. CASE step \in {"install", "install fails", "install half"}
    <2>1. \E good \in {0, 1, 3} : UnitDone(p, m, step) = CmdInstall(m, p, good)
        BY <1>4 DEF UnitDone
    <2> QED BY <2>1, InstallEffect
<1>5. CASE step = "uninstall"
    <2>1. UnitDone(p, m, step) = CmdUninstall(m, p)
        BY <1>5 DEF UnitDone
    <2> QED BY <2>1, UninstallEffect
<1> QED BY <1>1, <1>2, <1>3, <1>4, <1>5 DEF UnitSteps

LEMMA UnitDoneSteps ==
    ASSUME NEW p \in Platforms
    PROVE  /\ StepOf(UnitStep(p), UnitComputers(p), UnitSteps)
           /\ \A m \in UnitComputers(p), s \in UnitSteps :
                UnitStep(p)[<<m, s>>] = UnitDone(p, m, s)
<1> DEFINE V == UnitComputers(p)
<1>1. \A m \in V, s \in UnitSteps : UnitDone(p, m, s) \in V
    BY UnitDoneKeeps
<1> HIDE DEF V
<1>2. UnitStep(p) = [q \in V \X UnitSteps |-> UnitDone(p, q[1], q[2])]
    BY DEF UnitStep, V
<1>3. StepOf(UnitStep(p), V, UnitSteps)
      /\ \A m \in V, s \in UnitSteps : UnitStep(p)[<<m, s>>] = UnitDone(p, m, s)
    BY <1>1, <1>2 DEF StepOf
<1> QED BY <1>3 DEF V

\* A history leaves what the loop over its steps leaves.
LEMMA UnitDoneFolds ==
    ASSUME NEW p \in Platforms, NEW k \in UnitComputers(p), NEW c \in Seq(UnitSteps)
    PROVE  FoldLeft(LAMBDA m, s : UnitDone(p, m, s), k, c) = Folded(UnitStep(p), k, c)
<1> DEFINE Fold(f) == f = [s \in SUBSET DOMAIN c |->
                              IF s = {} THEN k
                              ELSE UnitDone(p, f[s \ {Max(s)}], c[Max(s)])]
           fold == CHOOSE f : Fold(f)
<1> DEFINE V == UnitComputers(p)
<1>1. /\ StepOf(UnitStep(p), V, UnitSteps)
      /\ \A m \in V, s \in UnitSteps : UnitStep(p)[<<m, s>>] = UnitDone(p, m, s)
  BY UnitDoneSteps
<1> HIDE DEF V
<1>2. k \in V
  BY DEF V
<1>3. PICK iter \in [SUBSET DOMAIN c -> V] :
        CalculatesTyped(UnitStep(p), V, UnitSteps, k, c, iter)
  BY <1>1, <1>2, LoopExists
<1>4. Fold(iter)
  BY <1>1, <1>3 DEF CalculatesTyped
<1>5. Fold(fold)
  <2> HIDE DEF Fold
  <2>1. QED
    BY <1>4
<1>6. FoldLeft(LAMBDA m, s : UnitDone(p, m, s), k, c) = fold[DOMAIN c]
  BY Zenon DEF FoldLeft, MapThenFoldSet
<1> HIDE DEF fold
<1>7. Calculates(UnitStep(p), V, UnitSteps, k, c, fold)
  BY <1>1, <1>5 DEF Calculates
<1> HIDE DEF Fold
<1>8. fold[DOMAIN c] = Folded(UnitStep(p), k, c)
  BY <1>1, <1>7, <1>2, LoopIsFolded
<1>9. QED
  BY <1>6, <1>8

(***************************************************************************)
(* After upgrades, reboots, crashes, installations that stop anywhere and  *)
(* removals in any order and number, the unit is in order on both          *)
(* platforms: no unit without a file is enabled, and launchd runs what it  *)
(* has loaded (installer.ts).                                              *)
(***************************************************************************)
THEOREM UnitsInOrder ==
    ASSUME NEW p \in Platforms, NEW h \in Seq(UnitSteps)
    PROVE  FoldLeft(LAMBDA m, s : UnitDone(p, m, s), Clean, h) \in UnitComputers(p)
<1> DEFINE V == UnitComputers(p)
<1>1. Clean \in V
    <2>1. UnitInv(p, Clean.unit)
        BY DEF UnitInv, Clean, NoUnit
    <2> QED BY <2>1, CleanIsHost DEF UnitComputers
<1>2. StepOf(UnitStep(p), V, UnitSteps)
    BY UnitDoneSteps
<1>3. FoldLeft(LAMBDA m, s : UnitDone(p, m, s), Clean, h) = Folded(UnitStep(p), Clean, h)
    BY <1>1, UnitDoneFolds
<1> HIDE DEF V
<1>4. Folded(UnitStep(p), Clean, h) \in V
    BY <1>1, <1>2, FoldedType
<1> QED BY <1>3, <1>4 DEF V

LEMMA InstalledInOrder ==
    ASSUME NEW p \in Platforms, NEW m \in Installed(p)
    PROVE  m \in UnitComputers(p)
<1>1. PICK h \in Histories(UnitSteps, 4) :
          m = FoldLeft(LAMBDA n, s : UnitDone(p, n, s), Clean, h)
    BY DEF Installed
<1>2. h \in Seq(UnitSteps)
    <2>1. PICK n \in 0 .. 4 : h \in [1 .. n -> UnitSteps]
        BY <1>1 DEF Histories
    <2> QED BY <2>1
<1> QED BY <1>1, <1>2, UnitsInOrder

\* Where nothing runs, a complete installation runs what it has written, and
\* brings it back after a reboot and when it ends.
LEMMA InstallRuns ==
    ASSUME NEW p \in Platforms, NEW m \in UnitComputers(p), m.unit.running = Nothing
    PROVE  LET n == CmdInstall(m, p, 3) IN
           /\ n.unit.running.program = n.version
           /\ Reboot(n).unit.running.program = n.version
           /\ Crash(n).unit.running.program = n.version
<1> DEFINE n == CmdInstall(m, p, 3)
           new == UnitContent(m)
<1>1. /\ n \in UnitComputers(p) /\ n.version = m.version /\ n.unit.file = new /\ n.unit.enabled
      /\ n.unit.loaded = new /\ n.unit.running = new
    <2>1. 3 \in {0, 1, 3} /\ 3 = 3
        OBVIOUS
    <2> QED BY <2>1, InstallEffect
<1>2. new.program = m.version /\ new.at_boot /\ new.restarts
    BY DEF UnitContent
<1> HIDE DEF n, new
<1>3. /\ Reboot(n).unit.running =
            IF n.unit.enabled /\ n.unit.file.at_boot THEN n.unit.file ELSE Nothing
      /\ Crash(n).unit.running = IF n.unit.running.restarts THEN n.unit.loaded ELSE Nothing
    BY <1>1, RestartEffect
<1>4. /\ n.unit.running.program = n.version
      /\ Reboot(n).unit.running.program = n.version
      /\ Crash(n).unit.running.program = n.version
    BY <1>1, <1>2, <1>3
<1> QED BY <1>4 DEF n

LEMMA NoOldUnits == OldUnits = {}
<1> SUFFICES ASSUME NEW e \in OldUnits PROVE FALSE
    OBVIOUS
<1> DEFINE n == CmdInstall(e[2], e[1], 3)
           runs(x) == x.unit.running.program = n.version
<1>1. /\ e \in UNION {{p} \X Installed(p) : p \in Platforms}
      /\ e[2].unit.running = Nothing
      /\ ~(runs(n) /\ runs(Reboot(n)) /\ runs(Crash(n)))
    BY DEF OldUnits
<1>2. e[1] \in Platforms /\ e[2] \in Installed(e[1])
    BY <1>1
<1>3. e[2] \in UnitComputers(e[1])
    BY <1>2, InstalledInOrder
<1>4. runs(n) /\ runs(Reboot(n)) /\ runs(Crash(n))
    BY <1>1, <1>2, <1>3, InstallRuns
<1> QED BY <1>1, <1>4

LEMMA NoLeftovers == Leftovers = {}
<1> SUFFICES ASSUME NEW e \in Leftovers PROVE FALSE
    OBVIOUS
<1> DEFINE n == CmdUninstall(e[2], e[1])
<1>1. /\ e \in UNION {{p} \X Installed(p) : p \in Platforms}
      /\ \/ n.unit.enabled \/ n.unit.file # Nothing
         \/ \E x \in {n, Reboot(n), Crash(n)} : x.unit.running # Nothing
    BY DEF Leftovers
<1>2. e[1] \in Platforms /\ e[2] \in Installed(e[1])
    BY <1>1
<1>3. e[2] \in UnitComputers(e[1])
    BY <1>2, InstalledInOrder
<1>4. n \in UnitComputers(e[1]) /\ ~n.unit.enabled /\ n.unit.file = Nothing /\ n.unit.running = Nothing
    BY <1>2, <1>3, UninstallEffect
<1> HIDE DEF n
<1>5. Reboot(n).unit.running = Nothing
    BY <1>2, <1>4, RestartEffect
<1>6. Crash(n).unit.running = Nothing
    <2>1. Crash(n).unit.running = IF n.unit.running.restarts THEN n.unit.loaded ELSE Nothing
        BY <1>2, <1>4, RestartEffect
    <2> QED BY <1>4, <2>1 DEF Nothing
<1> QED BY <1>1, <1>4, <1>5, <1>6

-----------------------------------------------------------------------------
(* The theorems about the parts that have no variables of their own.       *)

(***************************************************************************)
(* A push is sent exactly to the devices whose owner's page says so, to    *)
(* none that is revoked, and a device holds one notice for every event     *)
(* (push.ts, push-topics.ts, sw.js, SettingsDrawer.tsx).                   *)
(***************************************************************************)
THEOREM PushesCorrect == PushSpec => []PushesAreWanted
<1>1. OneNoticeEach
    BY NoWrongTrays DEF OneNoticeEach
<1>2. PushCorrect => PushesAreWanted
    BY <1>1 DEF PushCorrect, PushesAreWanted
<1> QED BY <1>2, SettingsCorrect, PTL

(***************************************************************************)
(* In front of the hub an address is in a prefix exactly when their bits   *)
(* agree, the headers of a request, a client's own among them, decide what *)
(* the proxies leave to them and nothing where the peer is not trusted, and*)
(* the limiter lets through what its window allows and forgets the rest    *)
(* (proxy.ts, rate-limit.ts).                                              *)
(***************************************************************************)
THEOREM FrontCorrect == Spec => []FrontIsExact
<1>1. FrontIsExact
    BY NoneMisplaced, NoneMisresolved, NoneMisjudged, NoneUnforgotten
    DEF FrontIsExact, PrefixesMatch, HeadersAreWeighed, LimiterIsExact, BucketsAreForgotten
<1> QED BY <1>1, PTL

(***************************************************************************)
(* On the machine of the daemon, what is set up is kept, what is installed *)
(* runs, and what is uninstalled is gone, after histories of any length    *)
(* (installer.ts, login-shell.ts, mcp-config.ts, config.ts).               *)
(***************************************************************************)
THEOREM SetupCorrect == Spec => []SetupIsWhole
<1>1. SetupIsWhole
    BY NoLostEdits, NoOldUnits, NoLeftovers, NoSilentMiss, NoMisreadPaths
    DEF SetupIsWhole, EditsSurvive, InstallRunsWhatItWrote, UninstallLeavesNothing,
        NoSilentMisses, PathReadsBack
<1> QED BY <1>1, PTL
=============================================================================
