----------------------------- MODULE MCAskRelay -----------------------------
(***************************************************************************)
(* Instances of AskRelay for TLC, and the properties of Receipts.  These   *)
(* are formulas without variables: evaluated in the initial states only.   *)
(***************************************************************************)
EXTENDS AskRelay, Receipts, TLC

CONSTANTS q1, q2, p1, p2

\* A receipt shows what was asked under its id, as long as fewer than the
\* bound were asked since: a request sent again is the newest again
\* (insertWithLru, ResolvedPermissionCard, ResolvedAskQuestionCard).
ReceiptsShowTheRequest == Init => Bare = {}

\* A receipt highlights the answers of a question only at a PWA that sent
\* some: resolutions do not carry them ("answered on another device").
ReceiptsShowOwnAnswers == Init => Borrowed = {}

\* The command on a card is the command asked for, verbatim, and its
\* destructive verbs are in red (tokenizeCommand).
CommandsAreWhole == Init => Mistokenized = {}

\* Everything happens, once.
Anything == [e \in Events |-> 1]

\* What a card and a receipt say of a request is what was asked and what was
\* answered here.
ReceiptsAreTrue == ReceiptsShowTheRequest /\ ReceiptsShowOwnAnswers /\ CommandsAreWhole
=============================================================================
