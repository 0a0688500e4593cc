------------------------------ MODULE Adapters ------------------------------
(***************************************************************************)
(* The SDK issuer and what stands between it and an agent framework        *)
(* (receipts/src/sdk/*.ts, sidecar.ts, cli.ts "hook"; python).             *)
(*                                                                         *)
(* All adapters ask one decision of a call and record one outcome of it;   *)
(* they differ in where they stand and in what they do when asking or      *)
(* recording fails.  Each is a record of those differences, taken from its *)
(* own code, and the actions below are the steps between the awaits:       *)
(*                                                                         *)
(*   place     "wraps": the tool runs inside the adapter; "hooks": the     *)
(*             host asks it before and tells it after; "observes": the     *)
(*             host only tells it                                          *)
(*   remote    it asks a sidecar, or starts a process, and that may fail   *)
(*   retells   the catch around the tool is around its recording as well   *)
(*   shields   a denial stands though its receipt could not be issued      *)
(*   threw     the status recorded of a tool that threw, or None           *)
(*   rereads   the policy is read anew at every event                      *)
(*   unstarted it records the end of a run whose start it did not see      *)
(*                                                                         *)
(* The host is not part of this code: it starts calls, may decline them,   *)
(* and decides what becomes of a call whose hook failed.                   *)
(***************************************************************************)
EXTENDS FiniteSets

CONSTANTS Calls, None

ASSUME AdaptersAssumption == None \notin {"executed", "error", "failed", "denied"}

VARIABLES
    adapter,    \* the name of the adapter of this process
    policy,     \* "none", or the mode it is evaluated in: "enforce", "observe"
    answer,     \* per call, what Cedar answers of it now, and the form of its arguments
    call,       \* per call, where it stands
    pending,    \* <<run, call>>: under a run's id, the call an observer has seen start
    log,        \* the receipts in the log
    late        \* receipts whose append was given up on and may still land

logVars == <<log, late>>
vars == <<adapter, policy, answer, call, pending, logVars>>

-----------------------------------------------------------------------------
(* The adapters.                                                           *)

Wraps(remote, retells) ==
    [place |-> "wraps", remote |-> remote, retells |-> retells, shields |-> TRUE,
     threw |-> "error", rereads |-> FALSE, unstarted |-> FALSE]
Hooks(remote, shields, threw) ==
    [place |-> "hooks", remote |-> remote, retells |-> FALSE, shields |-> shields,
     threw |-> threw, rereads |-> FALSE, unstarted |-> FALSE]
Observes(threw, unstarted) ==
    [place |-> "observes", remote |-> FALSE, retells |-> FALSE, shields |-> FALSE,
     threw |-> threw, rereads |-> FALSE, unstarted |-> unstarted]

SdkWrap     == Wraps(FALSE, TRUE)
OpenAiTools == Wraps(FALSE, TRUE)
VercelTools == Wraps(FALSE, TRUE)
PyWrapOneTry  == Wraps(TRUE, TRUE)     \* Mutant: record moved into the try
PyWrap        == Wraps(TRUE, FALSE)
CrewTools     == Wraps(TRUE, FALSE)
PyOpenAiTools == Wraps(TRUE, FALSE)

ClaudeHooks   == Hooks(FALSE, FALSE, "failed")
ClaudeCommand == [Hooks(TRUE, FALSE, "failed") EXCEPT !.rereads = TRUE]
PyClaudeHook  == Hooks(TRUE, FALSE, "failed")
OpenClawHooksUnshielded == Hooks(FALSE, FALSE, "failed")     \* Mutant: no catch around record
OpenClawHooks == Hooks(FALSE, TRUE, "failed")
HarnessHooks  == Hooks(FALSE, TRUE, "failed")
HermesHooks   == Hooks(TRUE, TRUE, "executed")

LangChainHandler == Observes("error", FALSE)
PyLangChain      == Observes("error", FALSE)
RunnerObserver   == Observes(None, TRUE)

Adapters == [
    wrap |-> SdkWrap, openaiTools |-> OpenAiTools, vercelTools |-> VercelTools,
    pyWrap |-> PyWrap, crewTools |-> CrewTools, pyOpenaiTools |-> PyOpenAiTools,
    claudeHooks |-> ClaudeHooks, claudeCommand |-> ClaudeCommand, pyClaudeHook |-> PyClaudeHook,
    openclaw |-> OpenClawHooks, harness |-> HarnessHooks, hermes |-> HermesHooks,
    langchain |-> LangChainHandler, pyLangchain |-> PyLangChain, runner |-> RunnerObserver]

This == Adapters[adapter]

-----------------------------------------------------------------------------
(* The issuer.                                                             *)

\* A call that ran keeps how it ended in `ran`, and what its caller saw in `seen`.
Idle == [at |-> "idle", ran |-> "no", seen |-> "nothing"]

\* Arguments are data: one shaped as a typed Cedar value is found before the policy is asked.
Reserved(a) == a.args = "typed"

\* What Cedar may answer: it fails as a whole, or decides, with or without errors in some policy.
Answers == {[args |-> "typed", cedar |-> "allow", errs |-> FALSE],
            [args |-> "plain", cedar |-> "failure", errs |-> TRUE]}
           \cup [args : {"plain"}, cedar : {"allow", "deny"}, errs : BOOLEAN]

\* evaluate: closed on anything but an allow without an error.
Evaluate(a) ==
    IF Reserved(a) \/ a.cedar = "failure" THEN [says |-> "deny", errors |-> TRUE]
    ELSE [says |-> IF a.errs THEN "deny" ELSE a.cedar, errors |-> a.errs]

Undecided == [says |-> "nothing", errors |-> FALSE, enforced |-> FALSE]

\* decide: null without a policy; in observe mode a decision is marked as not enforced.
Decision(c) ==
    IF policy = "none" THEN Undecided
    ELSE [says |-> Evaluate(answer[c]).says, errors |-> Evaluate(answer[c]).errors,
          enforced |-> policy = "enforce"]

\* A deny that is to be enforced (denies, in both languages).
Denies(d) == d.says = "deny" /\ d.enforced

\* What the sidecar passes on of a record request: `enforced` is kept.
Relayed(d) == d

\* record: one receipt, of the arguments `of` was called with.
Receipt(c, of, status, d) ==
    [call |-> c, of |-> of, status |-> status, decision |-> IF This.remote THEN Relayed(d) ELSE d]

\* issue: acknowledged; or it rejects, because the leaf was refused, because its answer was lost
\* (it is in the log, or still lands), or because the bundle could not be written.
Issued(r) == log' = log \cup {r} /\ UNCHANGED late
NotIssued(r) ==
    \/ UNCHANGED logVars
    \/ log' = log \cup {r} /\ UNCHANGED late
    \/ late' = late \cup {r} /\ UNCHANGED log

Lands(r) == r \in late /\ late' = late \ {r} /\ log' = log \cup {r}
            /\ UNCHANGED <<adapter, policy, answer, call, pending>>

-----------------------------------------------------------------------------
(* A call.                                                                 *)

Init ==
    /\ adapter \in DOMAIN Adapters /\ policy \in {"none", "enforce", "observe"}
    /\ answer \in [Calls -> Answers]
    /\ call = [c \in Calls |-> Idle]
    /\ pending = {} /\ log = {} /\ late = {}

At(c, at) == call[c].at = at
Goes(c, at) == call' = [call EXCEPT ![c].at = at]
Ends(c, seen) == call' = [call EXCEPT ![c].at = "ended", ![c].seen = seen]
Kept == UNCHANGED <<adapter, policy, answer>>

\* The adapter is asked: a wrapper lets the tool run, a hook lets the host go on.
Decide(c) ==
    /\ At(c, "idle") /\ This.place # "observes"
    /\ Goes(c, IF Denies(Decision(c)) THEN "denying"
               ELSE IF This.place = "wraps" THEN "running" ELSE "host")
    /\ Kept /\ UNCHANGED <<pending, logVars>>

\* Nobody answers: a wrapper throws, a hook fails and the host decides.
DecideFails(c) ==
    /\ At(c, "idle") /\ This.remote
    /\ IF This.place = "wraps" THEN Ends(c, "failure") ELSE Goes(c, "host")
    /\ Kept /\ UNCHANGED <<pending, logVars>>

\* An observer is told of a start, or was not yet listening.
Start(c) ==
    /\ At(c, "idle") /\ This.place = "observes"
    /\ pending' \in {pending, pending \cup {<<c, c>>}}
    /\ Goes(c, "running")
    /\ Kept /\ UNCHANGED logVars

\* The denial's receipt.
Deny(c) ==
    /\ At(c, "denying")
    /\ Issued(Receipt(c, c, "denied", Decision(c)))
    /\ Ends(c, "denial")
    /\ Kept /\ UNCHANGED pending

DenyFails(c) ==
    /\ At(c, "denying")
    /\ NotIssued(Receipt(c, c, "denied", Decision(c)))
    /\ CASE This.place = "wraps" -> Ends(c, "failure")
         [] This.place = "hooks" /\ This.shields -> Ends(c, "denial")
         [] OTHER -> Goes(c, "host")
    /\ Kept /\ UNCHANGED pending

\* The host runs the tool, or its own approvals decline it.
Host(c) ==
    /\ At(c, "host")
    /\ Goes(c, "running") \/ Ends(c, "declined")
    /\ Kept /\ UNCHANGED <<pending, logVars>>

\* The status recorded of a run, or None.
Status(ran) == IF ran = "returned" THEN "executed" ELSE This.threw

\* The tool ends.  An observer not told of the end, or of a run it does not know, does nothing.
Run(c, ran) ==
    /\ At(c, "running")
    /\ call' = [call EXCEPT ![c].ran = ran,
                ![c].at = IF Status(ran) = None THEN "ended" ELSE "recording",
                ![c].seen = IF Status(ran) = None THEN ran ELSE "nothing"]
    /\ Kept /\ UNCHANGED <<pending, logVars>>

\* The policy file is replaced between the events of a call.
Replaced(c) ==
    /\ This.rereads /\ At(c, "running")
    /\ \E a \in Answers : a.args = answer[c].args /\ answer' = [answer EXCEPT ![c] = a]
    /\ UNCHANGED <<adapter, policy, call, pending, logVars>>

\* What an observer has under a run's id.
Noted(c) == {p[2] : p \in {q \in pending : q[1] = c}}

\* The arguments and the decision recorded with an outcome.  A hook decides again for the receipt.
Of(c) == IF This.place # "observes" THEN {c}
         ELSE IF Noted(c) = {} /\ This.unstarted THEN {None} ELSE Noted(c)
Recorded(c) == IF This.place = "observes" THEN Undecided ELSE Decision(c)
Outcome(c) == {Receipt(c, of, Status(call[c].ran), Recorded(c)) : of \in Of(c)}
Taken(c) == pending' = {p \in pending : p[1] # c}

\* An end that says nothing to this observer.
Ignore(c) ==
    /\ At(c, "recording") /\ Outcome(c) = {}
    /\ Ends(c, call[c].ran)
    /\ Kept /\ UNCHANGED <<pending, logVars>>

Record(c) ==
    /\ At(c, "recording") /\ Taken(c)
    /\ \E r \in Outcome(c) : Issued(r)
    /\ Ends(c, call[c].ran)
    /\ Kept

\* Mutant: the wrapper hands the result back without its receipt.
RecordFailsUnnoticed(c) ==
    /\ At(c, "recording") /\ Taken(c)
    /\ \E r \in Outcome(c) : NotIssued(r)
    /\ Ends(c, call[c].ran)
    /\ Kept

\* The receipt is refused: a hook and an observer throw to a host that has the result already; a
\* wrapper throws, or, if its catch covers the recording too, records the failure as the tool's.
RecordFails(c) ==
    /\ At(c, "recording") /\ Taken(c)
    /\ \E r \in Outcome(c) : NotIssued(r)
    /\ CASE This.place # "wraps" -> Ends(c, call[c].ran)
         [] This.retells /\ call[c].ran = "returned" -> Goes(c, "retelling")
         [] OTHER -> Ends(c, "failure")
    /\ Kept

Retell(c) ==
    /\ At(c, "retelling")
    /\ LET r == Receipt(c, c, "error", Decision(c)) IN Issued(r) \/ NotIssued(r)
    /\ Ends(c, "failure")
    /\ Kept /\ UNCHANGED pending

Steps(c) == \/ Decide(c) \/ DecideFails(c) \/ Start(c) \/ Deny(c) \/ DenyFails(c) \/ Host(c)
            \/ \E ran \in {"returned", "threw"} : Run(c, ran)
            \/ Ignore(c) \/ Record(c) \/ RecordFails(c) \/ Retell(c)

Next == \/ \E c \in Calls : Steps(c) \/ Replaced(c)
        \/ \E r \in late : Lands(r)

Spec == Init /\ [][Next]_vars

-----------------------------------------------------------------------------
(* Properties.                                                             *)

TypeOK ==
    /\ adapter \in DOMAIN Adapters /\ policy \in {"none", "enforce", "observe"}
    /\ answer \in [Calls -> Answers] /\ pending \subseteq Calls \X Calls
    /\ \A c \in Calls : /\ call[c].ran \in {"no", "returned", "threw"}
                        /\ At(c, "retelling") => call[c].ran = "returned"

\* Where the catch covers the recording (sdk/index.ts:105-113 and the two it was copied to), where
\* a hook that fails leaves the call to the host, and where a tool that throws is not told apart.
Retelling  == {"wrap", "openaiTools", "vercelTools"}
Unshielded == {"claudeHooks", "claudeCommand", "pyClaudeHook"}
Untold     == {"hermes"}

Stated == log \cup late
TellsTrue(r) == LET ran == call[r.call].ran IN
    CASE r.status = "denied"   -> adapter \in Unshielded \/ ran = "no"
      [] r.status = "executed" -> ran = "returned" \/ (adapter \in Untold /\ ran = "threw")
      [] OTHER                 -> ran = "threw" \/ adapter \in Retelling
SameStory(r, s) ==
    \/ r = s
    \/ adapter \in Retelling /\ {r.status, s.status} = {"executed", "error"}
    \/ adapter \in Unshielded /\ "denied" \in {r.status, s.status}

\* Whatever is refused, late or lost, a receipt says of a call what happened to it, with that
\* call's arguments and not another's that ran beside it, and no second receipt says otherwise;
\* apart from what a wrapper retells and what a host does after a hook has failed.
OneStory ==
    /\ TypeOK
    /\ \A r \in Stated : TellsTrue(r) /\ r.of \in {r.call} \cup (IF adapter = "runner" THEN {None} ELSE {})
    /\ \A r, s \in Stated : r.call = s.call => SameStory(r, s)

\* "If the receipt cannot be issued ... the call is blocked too" (openclaw.ts:58-59): what an
\* adapter in the call's way denies does not run, and no receipt of its own shows a deny that was
\* to be enforced beside an execution, which the verifier refuses (verify.ts:97-102).  Where asking
\* for the decision is outside the try (hermes.py:28), a host may go on without one.
Consistent(r) == LET d == r.decision IN
    d.says # "nothing" => (r.status = "denied" <=> Denies(d))
DenialsHold ==
    adapter \notin Unshielded =>
        /\ adapter # "hermes" /\ This.place # "observes" =>
               \A c \in Calls : Denies(Decision(c)) => call[c].ran = "no"
        /\ adapter # "hermes" => \A r \in Stated : Consistent(r)

\* A wrapper hands back a result, a tool's own error or a denial only under a receipt in the log
\* that says so; an observer keeps no run that has ended, but for those whose end it is not told.
HandedBackIsReceipted ==
    /\ This.place = "wraps" => \A c \in Calls : At(c, "ended") /\ call[c].seen \in {"returned", "threw", "denial"} =>
           \E r \in log : /\ r.call = c
                          /\ r.status = CASE call[c].seen = "returned" -> "executed"
                                          [] call[c].seen = "threw"    -> "error"
                                          [] OTHER                     -> "denied"
    /\ \A p \in pending : ~At(p[2], "ended") \/ (adapter = "runner" /\ call[p[2]].ran = "threw")
=============================================================================
