---------------------------- MODULE Adapters_proofs ----------------------------
(***************************************************************************)
(* Proofs about the adapters (Adapters), for every adapter and any number  *)
(* of calls beside each other.                                             *)
(*                                                                         *)
(* A step is of one call and touches nothing of another: neither where it  *)
(* stands, nor its receipts, nor what an observer has pending under its    *)
(* id.  So the inductive invariant is one formula of a single call, and a  *)
(* step has to be followed only for the call that takes it.                *)
(***************************************************************************)
EXTENDS Adapters, TLAPS

(* How far a call has come.                                                *)
Asked      == {"idle", "denying"}
Underway   == {"host", "running", "recording"}
Points     == Asked \cup Underway \cup {"retelling", "ended"}
Runs       == {"no", "returned", "threw"}
CallStates == [at : Points, ran : Runs, seen : Runs \cup {"nothing", "denial", "failure", "declined"}]

TypeInv ==
    /\ adapter \in DOMAIN Adapters /\ policy \in {"none", "enforce", "observe"}
    /\ answer \in [Calls -> Answers] /\ call \in [Calls -> CallStates]
    /\ pending \subseteq {<<c, c>> : c \in Calls}
    /\ \A r \in Stated : r.call \in Calls

(* Where a call of this adapter can stand, and with what outcome.          *)
Path(c) ==
    /\ call[c].at \in Asked \cup {"host", "running"} => call[c].ran = "no"
    /\ call[c].at = "recording" => call[c].ran # "no"
    /\ call[c].at = "retelling" => call[c].ran = "returned" /\ adapter \in Retelling
    /\ This.place = "observes" => call[c].at \in {"idle", "running", "recording", "ended"}

(* What may already be written of it: before the tool has ended, only the  *)
(* denial a hook failed to issue, and before a retelling the execution.    *)
Written(c) == \A r \in Stated : r.call = c =>
    /\ call[c].at \notin Asked
    /\ call[c].at \in Underway => r.status = "denied" /\ adapter \in Unshielded
    /\ call[c].at = "retelling" => r.status = "executed"
    /\ TellsTrue(r)
    /\ r.of = c \/ (adapter = "runner" /\ r.of = None)
    /\ \A s \in Stated : s.call = c => SameStory(r, s)

(* What is to be denied is not let through.                                *)
Barred(c) ==
    /\ call[c].at = "denying" => Denies(Decision(c))
    /\ adapter # "hermes" /\ This.place # "observes" /\ Denies(Decision(c)) =>
          call[c].at \in Asked \cup {"ended"} /\ call[c].ran = "no"
    /\ adapter # "hermes" => \A r \in Stated : r.call = c => Consistent(r)

(* What has been handed back, and what is still pending under its id.      *)
Returned(c) ==
    /\ This.place = "wraps" /\ At(c, "ended") /\ call[c].seen \in {"returned", "threw", "denial"} =>
          \E r \in log : /\ r.call = c
                         /\ r.status = CASE call[c].seen = "returned" -> "executed"
                                         [] call[c].seen = "threw"    -> "error"
                                         [] OTHER                     -> "denied"
    /\ <<c, c>> \in pending =>
          /\ This.place = "observes" /\ call[c].at # "idle"
          /\ At(c, "ended") => adapter = "runner" /\ call[c].ran = "threw"

StoryInv  == TypeInv /\ \A c \in Calls : Path(c) /\ Written(c)
BarredInv == StoryInv /\ (adapter \notin Unshielded => \A c \in Calls : Barred(c))
ReturnInv == StoryInv /\ \A c \in Calls : Returned(c)
-----------------------------------------------------------------------------
(* The table of adapters, as far as it is needed here.                     *)
LEMMA Table ==
    ASSUME adapter \in DOMAIN Adapters
    PROVE  /\ This.place \in {"wraps", "hooks", "observes"}
           /\ adapter \in Retelling => This.place = "wraps"
           /\ This.retells => adapter \in Retelling /\ This.place = "wraps"
           /\ This.place = "hooks" /\ ~This.shields => adapter \in Unshielded
           /\ This.rereads => adapter \in Unshielded
           /\ This.place = "observes" => ~This.remote
           /\ This.place = "hooks" /\ This.remote => adapter \in Unshielded \cup Untold
           /\ This.threw \in {"error", "failed", "executed", None}
           /\ This.place = "wraps" => This.threw = "error"
           /\ This.threw = "executed" => adapter \in Untold
           /\ This.threw = None => adapter = "runner" /\ This.place = "observes"
           /\ This.unstarted => adapter = "runner"
  BY AdaptersAssumption DEF Adapters, This, Retelling, Unshielded, Untold, Wraps, Hooks, Observes,
     SdkWrap, OpenAiTools, VercelTools, PyWrap, CrewTools, PyOpenAiTools, ClaudeHooks, ClaudeCommand,
     PyClaudeHook, OpenClawHooks, HarnessHooks, HermesHooks, LangChainHandler, PyLangChain, RunnerObserver

-----------------------------------------------------------------------------
(* What a step does to the call that takes it ...                          *)
LEMMA Goings ==
    ASSUME call \in [Calls -> CallStates], NEW c \in Calls, NEW at \in Points, Goes(c, at)
    PROVE  /\ call' \in [Calls -> CallStates]
           /\ \A b \in Calls \ {c} : call'[b] = call[b]
           /\ call'[c].at = at /\ call'[c].ran = call[c].ran
  BY DEF Goes, CallStates

LEMMA Endings ==
    ASSUME call \in [Calls -> CallStates], NEW c \in Calls, NEW seen,
           seen \in Runs \cup {"nothing", "denial", "failure", "declined"}, Ends(c, seen)
    PROVE  /\ call' \in [Calls -> CallStates]
           /\ \A b \in Calls \ {c} : call'[b] = call[b]
           /\ call'[c].at = "ended" /\ call'[c].ran = call[c].ran /\ call'[c].seen = seen
  <1> DEFINE k == [call[c] EXCEPT !.at = "ended", !.seen = seen]
  <1>1. k \in CallStates /\ k.at = "ended" /\ k.ran = call[c].ran /\ k.seen = seen
    BY DEF CallStates, Points
  <1>2. call' = [call EXCEPT ![c] = k]
    BY DEF Ends
  <1> HIDE DEF k
  <1> QED BY <1>1, <1>2

LEMMA Runnings ==
    ASSUME call \in [Calls -> CallStates], NEW c \in Calls, NEW ran \in {"returned", "threw"}, Run(c, ran)
    PROVE  /\ call' \in [Calls -> CallStates]
           /\ \A b \in Calls \ {c} : call'[b] = call[b]
           /\ call'[c].ran = ran
           /\ \/ call'[c].at = "recording" /\ Status(ran) # None
              \/ call'[c].at = "ended" /\ Status(ran) = None
  <1> DEFINE k == [call[c] EXCEPT !.ran = ran, !.at = IF Status(ran) = None THEN "ended" ELSE "recording",
                                  !.seen = IF Status(ran) = None THEN ran ELSE "nothing"]
  <1>1. /\ k \in CallStates /\ k.ran = ran
        /\ \/ k.at = "recording" /\ Status(ran) # None
           \/ k.at = "ended" /\ Status(ran) = None
    BY DEF CallStates, Points, Underway, Runs
  <1>2. call' = [call EXCEPT ![c] = k]
    BY DEF Run
  <1> HIDE DEF k
  <1> QED BY <1>1, <1>2

(* ... to the receipts ...                                                 *)
LEMMA Issues ==
    ASSUME NEW r, Issued(r) \/ NotIssued(r)
    PROVE  log \subseteq log' /\ Stated \subseteq Stated' /\ Stated' \subseteq Stated \cup {r}
  BY DEF Issued, NotIssued, Stated, logVars

LEMMA Outcomes ==
    ASSUME adapter \in DOMAIN Adapters, pending \subseteq {<<b, b>> : b \in Calls},
           NEW c \in Calls, NEW r \in Outcome(c)
    PROVE  /\ r.call = c /\ r.status = Status(call[c].ran)
           /\ r.decision = Recorded(c)
           /\ r.of = c \/ (adapter = "runner" /\ r.of = None)
  <1>1. \A x \in Noted(c) : x = c
    BY DEF Noted
  <1>2. \A x \in Of(c) : x = c \/ (adapter = "runner" /\ x = None)
    BY <1>1, Table DEF Of
  <1> QED BY <1>2 DEF Outcome, Receipt, Relayed

(* ... and to every other call: nothing.                                   *)
Quiet(b) ==
    /\ UNCHANGED <<adapter, policy>> /\ call'[b] = call[b] /\ answer'[b] = answer[b]
    /\ log \subseteq log' /\ Stated \subseteq Stated'
    /\ \A r \in Stated' : r \in Stated \/ r.call # b
    /\ <<b, b>> \in pending' => <<b, b>> \in pending

LEMMA Frame ==
    ASSUME NEW b \in Calls, Quiet(b)
    PROVE  /\ Path(b) => Path(b)'
           /\ Written(b) => Written(b)'
           /\ Barred(b) => Barred(b)'
           /\ Returned(b) => Returned(b)'
  <1>1. This' = This /\ Decision(b)' = Decision(b)
    BY DEF Quiet, This, Decision
  <1>2. Path(b) => Path(b)'
    BY <1>1 DEF Quiet, Path
  <1>3. Written(b) => Written(b)'
    BY DEF Quiet, Written, TellsTrue, SameStory
  <1>4. Barred(b) => Barred(b)'
    BY <1>1 DEF Quiet, Barred, Consistent
  <1>5. Returned(b) => Returned(b)'
    BY <1>1 DEF Quiet, Returned, At
  <1> QED BY <1>2, <1>3, <1>4, <1>5

(* A step of a call.                                                       *)
StepOf(c) == Steps(c) \/ Replaced(c)

Follows(c) ==
    /\ UNCHANGED <<adapter, policy>> /\ answer' \in [Calls -> Answers]
    /\ call' \in [Calls -> CallStates] /\ pending' \subseteq pending \cup {<<c, c>>}
    /\ \A r \in Stated' : r \in Stated \/ r.call = c
    /\ \A b \in Calls \ {c} : Quiet(b)

LEMMA StepsFollow ==
    ASSUME TypeInv, NEW c \in Calls, StepOf(c)
    PROVE  Follows(c)
  <1> USE DEF TypeInv, Follows, Quiet, Kept, logVars
  <1>0. Points = {"idle", "denying", "host", "running", "recording", "retelling", "ended"}
    BY DEF Points, Asked, Underway
  <1>1. CASE Decide(c)
    <2>1. PICK at \in Points : Goes(c, at)
      BY <1>1, <1>0 DEF Decide
    <2> QED BY <1>1, <2>1, Goings DEF Decide, Stated
  <1>2. CASE DecideFails(c)
    <2>1. \/ Goes(c, "host")
          \/ Ends(c, "failure")
      BY <1>2 DEF DecideFails
    <2> QED BY <1>2, <1>0, <2>1, Goings, Endings DEF DecideFails, Stated
  <1>3. CASE Start(c)
    BY <1>3, <1>0, Goings DEF Start, Stated
  <1>4. CASE Deny(c)
    BY <1>4, Endings, Issues DEF Deny, Receipt
  <1>5. CASE DenyFails(c)
    <2>1. \/ Goes(c, "host")
          \/ \E seen \in {"failure", "denial"} : Ends(c, seen)
      BY <1>5 DEF DenyFails
    <2>2. /\ call' \in [Calls -> CallStates]
          /\ \A b \in Calls \ {c} : call'[b] = call[b]
      BY <2>1, <1>0, Goings, Endings
    <2> QED BY <1>5, <2>2, Issues DEF DenyFails, Receipt
  <1>6. CASE Host(c)
    BY <1>6, <1>0, Goings, Endings DEF Host, Stated
  <1>7. ASSUME NEW ran \in {"returned", "threw"}, Run(c, ran)
        PROVE  Follows(c)
    BY <1>7, Runnings DEF Run, Stated
  <1>8. CASE Ignore(c)
    BY <1>8, Endings DEF Ignore, Stated, CallStates
  <1>9. CASE Record(c)
    <2>1. PICK r \in Outcome(c) : Issued(r)
      BY <1>9 DEF Record
    <2>2. r.call = c
      BY <2>1, Outcomes
    <2>3. call[c].ran \in Runs
      BY DEF CallStates
    <2> QED BY <1>9, <2>1, <2>2, <2>3, Endings, Issues DEF Record, Taken
  <1>10. CASE RecordFails(c)
    <2>1. PICK r \in Outcome(c) : NotIssued(r)
      BY <1>10 DEF RecordFails
    <2>2. r.call = c
      BY <2>1, Outcomes
    <2>3. call[c].ran \in Runs
      BY DEF CallStates
    <2>4. \/ Goes(c, "retelling")
          \/ \E seen \in Runs \cup {"failure"} : Ends(c, seen)
      BY <1>10, <2>3 DEF RecordFails
    <2>5. /\ call' \in [Calls -> CallStates]
          /\ \A b \in Calls \ {c} : call'[b] = call[b]
      BY <2>4, <1>0, Goings, Endings
    <2> QED BY <1>10, <2>1, <2>2, <2>5, Issues DEF RecordFails, Taken
  <1>11. CASE Retell(c)
    BY <1>11, Endings, Issues DEF Retell, Receipt
  <1>12. CASE Replaced(c)
    BY <1>12 DEF Replaced, Stated
  <1> QED BY <1>1, <1>2, <1>3, <1>4, <1>5, <1>6, <1>7, <1>8, <1>9, <1>10, <1>11, <1>12 DEF StepOf, Steps

LEMMA LateLands ==
    ASSUME NEW r \in late, Lands(r)
    PROVE  /\ Stated' = Stated /\ UNCHANGED <<adapter, answer, call, pending>>
           /\ \A b \in Calls : Quiet(b)
  BY DEF Lands, Stated, Quiet

LEMMA Stutters ==
    ASSUME UNCHANGED vars
    PROVE  /\ Stated' = Stated /\ UNCHANGED <<adapter, answer, call, pending>>
           /\ \A b \in Calls : Quiet(b)
  BY DEF vars, logVars, Stated, Quiet

LEMMA TypeInvInit == Init => TypeInv
  BY DEF Init, TypeInv, Idle, CallStates, Points, Asked, Runs, Stated

LEMMA TypeInvNext == TypeInv /\ [Next]_vars => TypeInv'
  <1> SUFFICES ASSUME TypeInv, [Next]_vars PROVE TypeInv'
    OBVIOUS
  <1>1. ASSUME NEW c \in Calls, StepOf(c) PROVE TypeInv'
    <2>1. Follows(c)
      BY <1>1, StepsFollow
    <2> QED BY <2>1 DEF TypeInv, Follows
  <1>2. ASSUME NEW r \in late, Lands(r) PROVE TypeInv'
    BY <1>2, LateLands DEF TypeInv, Lands
  <1>3. CASE UNCHANGED vars
    BY <1>3, Stutters DEF TypeInv, vars
  <1> QED BY <1>1, <1>2, <1>3 DEF Next, StepOf

-----------------------------------------------------------------------------
(* One story.  The next point of a call, and what is written of it there.  *)
LEMMA NothingNew ==
    ASSUME TypeInv, NEW c \in Calls, StepOf(c), Written(c), Stated' = Stated,
           \/ call[c].at \in Asked
           \/ call[c].at \in Underway /\ call'[c].at \in Underway \cup {"ended"}
    PROVE  Written(c)'
  <1>1. Follows(c)
    BY StepsFollow
  <1>2. CASE call[c].at \in Asked
    BY <1>2 DEF Written
  <1>3. CASE call[c].at \in Underway /\ call'[c].at \in Underway \cup {"ended"}
    BY <1>1, <1>3 DEF Follows, Written, TellsTrue, SameStory, Asked, Underway
  <1> QED BY <1>2, <1>3

LEMMA OneNew ==
    ASSUME TypeInv, NEW c \in Calls, StepOf(c), Written(c), call'[c].ran = call[c].ran,
           NEW r, Stated' \subseteq Stated \cup {r}, r.call = c, TellsTrue(r),
           r.of = c \/ (adapter = "runner" /\ r.of = None),
           \A s \in Stated : s.call = c => SameStory(r, s),
           call'[c].at \notin Asked,
           call'[c].at \in Underway => call[c].at = "denying" /\ r.status = "denied" /\ adapter \in Unshielded,
           call'[c].at = "retelling" => call[c].at = "recording" /\ adapter \notin Unshielded /\ r.status = "executed"
    PROVE  Written(c)'
  <1>1. Follows(c)
    BY StepsFollow
  <1>2. TellsTrue(r)' /\ \A s \in Stated : s.call = c => TellsTrue(s)'
    BY <1>1 DEF Follows, Written, TellsTrue
  <1>3. \A s, t : SameStory(s, t)' <=> SameStory(s, t)
    BY <1>1 DEF Follows, SameStory
  <1>4. \A s \in Stated' : s.call = c => s = r \/ s \in Stated
    OBVIOUS
  <1>5. SameStory(r, r) /\ \A s, t : SameStory(s, t) => SameStory(t, s)
    BY DEF SameStory
  <1>6. ASSUME NEW s \in Stated', s.call = c
        PROVE  /\ call'[c].at \notin Asked
               /\ call'[c].at \in Underway => s.status = "denied" /\ adapter' \in Unshielded
               /\ call'[c].at = "retelling" => s.status = "executed"
               /\ TellsTrue(s)'
               /\ s.of = c \/ (adapter' = "runner" /\ s.of = None)
    <2>1. CASE s = r
      BY <1>1, <1>2, <2>1 DEF Follows
    <2>2. CASE s \in Stated
      BY <1>1, <1>2, <1>6, <2>2 DEF Follows, Written, Asked, Underway
    <2> QED BY <1>4, <1>6, <2>1, <2>2
  <1>7. ASSUME NEW s \in Stated', s.call = c, NEW t \in Stated', t.call = c
        PROVE  SameStory(s, t)'
    BY <1>3, <1>4, <1>5, <1>7 DEF Written
  <1> QED BY <1>6, <1>7 DEF Written

LEMMA StoryFollows ==
    ASSUME TypeInv, NEW c \in Calls, StepOf(c), Path(c), Written(c)
    PROVE  Path(c)' /\ Written(c)'
  <1>0. /\ adapter \in DOMAIN Adapters /\ call \in [Calls -> CallStates] /\ call[c] \in CallStates
        /\ Follows(c) /\ This' = This
    BY StepsFollow DEF TypeInv, Follows, This
  <1> USE DEF At
  <1>1. CASE Decide(c)
    <2>1. PICK at \in {"denying", "running", "host"} : Goes(c, at)
      BY <1>1 DEF Decide
    <2>2. call'[c].at = at /\ call'[c].ran = call[c].ran
      BY <1>0, <2>1, Goings DEF Points, Asked, Underway
    <2>3. Path(c)'
      BY <1>0, <1>1, <2>2 DEF Path, Decide, Asked
    <2> QED BY <1>1, <2>3, NothingNew DEF Decide, Asked, Stated, logVars
  <1>2. CASE DecideFails(c)
    <2>1. call'[c].at \in {"ended", "host"} /\ call'[c].ran = call[c].ran
      BY <1>0, <1>2, Goings, Endings DEF DecideFails, Points, Underway
    <2>2. Path(c)'
      BY <1>0, <1>2, <2>1, Table DEF Path, DecideFails, Asked
    <2> QED BY <1>2, <2>2, NothingNew DEF DecideFails, Asked, Stated, logVars
  <1>3. CASE Start(c)
    <2>1. call'[c].at = "running" /\ call'[c].ran = call[c].ran
      BY <1>0, <1>3, Goings DEF Start, Points, Underway
    <2>2. Path(c)'
      BY <1>0, <1>3, <2>1 DEF Path, Start, Asked
    <2> QED BY <1>3, <2>2, NothingNew DEF Start, Asked, Stated, logVars
  <1>4. ASSUME Deny(c) \/ DenyFails(c)
        PROVE  Path(c)' /\ Written(c)'
    <2> DEFINE r == Receipt(c, c, "denied", Decision(c))
    <2>1. Stated' \subseteq Stated \cup {r}
      BY <1>4, Issues DEF Deny, DenyFails
    <2>2. r.call = c /\ r.of = c /\ r.status = "denied"
      BY DEF Receipt
    <2>3. call[c].at = "denying" /\ call[c].ran = "no" /\ This.place # "observes"
      BY <1>4 DEF Deny, DenyFails, Path, Asked
    <2>4. \/ Goes(c, "host") /\ adapter \in Unshielded
          \/ \E seen \in {"failure", "denial"} : Ends(c, seen)
      BY <1>0, <1>4, <2>3, Table DEF Deny, DenyFails
    <2>5. /\ call'[c].ran = "no"
          /\ call'[c].at = "ended" \/ (call'[c].at = "host" /\ adapter \in Unshielded)
      BY <1>0, <2>3, <2>4, Goings, Endings DEF Points, Underway
    <2>6. Path(c)'
      BY <1>0, <2>3, <2>5 DEF Path, Asked
    <2>7. TellsTrue(r) /\ \A s \in Stated : s.call # c
      BY <2>2, <2>3 DEF TellsTrue, Written, Asked
    <2> HIDE DEF r
    <2>8. Written(c)'
      BY <2>1, <2>2, <2>3, <2>5, <2>7, OneNew DEF Asked, Underway
    <2> QED BY <2>6, <2>8
  <1>5. CASE Host(c)
    <2>1. call'[c].at \in {"running", "ended"} /\ call'[c].ran = call[c].ran
      BY <1>0, <1>5, Goings, Endings DEF Host, Points, Underway
    <2>2. Path(c)'
      BY <1>0, <1>5, <2>1 DEF Path, Host, Asked
    <2> QED BY <1>5, <2>1, <2>2, NothingNew DEF Host, Underway, Stated, logVars
  <1>6. ASSUME NEW ran \in {"returned", "threw"}, Run(c, ran)
        PROVE  Path(c)' /\ Written(c)'
    <2>1. call'[c].at \in {"recording", "ended"} /\ call'[c].ran = ran
      BY <1>0, <1>6, Runnings
    <2>2. Path(c)'
      BY <1>0, <1>6, <2>1 DEF Path, Run, Asked
    <2> QED BY <1>6, <2>1, <2>2, NothingNew DEF Run, Underway, Stated, logVars
  <1>7. CASE Ignore(c)
    <2>1. call'[c].at = "ended" /\ call'[c].ran = call[c].ran
      BY <1>0, <1>7, Endings DEF Ignore, CallStates
    <2>2. Path(c)'
      BY <1>0, <1>7, <2>1 DEF Path, Ignore, Asked
    <2> QED BY <1>7, <2>1, <2>2, NothingNew DEF Ignore, Underway, Stated, logVars
  <1>8. ASSUME Record(c) \/ RecordFails(c)
        PROVE  Path(c)' /\ Written(c)'
    <2>1. PICK r \in Outcome(c) : Issued(r) \/ NotIssued(r)
      BY <1>8 DEF Record, RecordFails
    <2>2. /\ r.call = c /\ r.status = Status(call[c].ran)
          /\ r.of = c \/ (adapter = "runner" /\ r.of = None)
      BY <1>0, <2>1, Outcomes DEF TypeInv
    <2>3. Stated' \subseteq Stated \cup {r}
      BY <2>1, Issues
    <2>4. call[c].at = "recording" /\ call[c].ran \in {"returned", "threw"}
      BY <1>0, <1>8 DEF Record, RecordFails, Path, CallStates, Runs
    <2>5. /\ call'[c].ran = call[c].ran
          /\ \/ call'[c].at = "ended"
             \/ /\ call'[c].at = "retelling" /\ call[c].ran = "returned"
                /\ adapter \in Retelling /\ This.place = "wraps"
      <3>1. \/ \E seen \in Runs \cup {"failure"} : Ends(c, seen)
            \/ /\ Goes(c, "retelling") /\ call[c].ran = "returned"
               /\ adapter \in Retelling /\ This.place = "wraps"
        BY <1>0, <1>8, <2>4, Table DEF Record, RecordFails, Runs
      <3> QED BY <1>0, <3>1, Goings, Endings DEF Points
    <2>6. Path(c)'
      BY <1>0, <2>4, <2>5 DEF Path, Asked, Follows
    <2>7. TellsTrue(r)
      BY <1>0, <2>2, <2>4, Table, AdaptersAssumption DEF TellsTrue, Status
    <2>8. \A s \in Stated : s.call = c => SameStory(r, s)
      BY <2>4 DEF Written, SameStory, Underway
    <2>9. call'[c].at = "retelling" => adapter \notin Unshielded /\ r.status = "executed"
      BY <2>2, <2>5 DEF Status, Retelling, Unshielded
    <2>10. Written(c)'
      BY <2>2, <2>3, <2>4, <2>5, <2>7, <2>8, <2>9, OneNew DEF Asked, Underway
    <2> QED BY <2>6, <2>10
  <1>9. CASE Retell(c)
    <2> DEFINE r == Receipt(c, c, "error", Decision(c))
    <2>1. Stated' \subseteq Stated \cup {r}
      BY <1>9, Issues DEF Retell
    <2>2. r.call = c /\ r.of = c /\ r.status = "error"
      BY DEF Receipt
    <2>3. call'[c].at = "ended" /\ call'[c].ran = call[c].ran
      BY <1>0, <1>9, Endings DEF Retell
    <2>4. Path(c)'
      BY <1>0, <1>9, <2>3 DEF Path, Retell, Asked
    <2>5. TellsTrue(r) /\ \A s \in Stated : s.call = c => SameStory(r, s)
      BY <1>9, <2>2 DEF Retell, TellsTrue, Path, Written, SameStory
    <2> HIDE DEF r
    <2>6. Written(c)'
      BY <2>1, <2>2, <2>3, <2>5, OneNew DEF Asked, Underway
    <2> QED BY <2>4, <2>6
  <1>10. CASE Replaced(c)
    <2>1. Path(c)'
      BY <1>0, <1>10 DEF Path, Replaced
    <2> QED BY <1>10, <2>1, NothingNew DEF Replaced, Underway, Stated, logVars
  <1> QED BY <1>1, <1>2, <1>3, <1>4, <1>5, <1>6, <1>7, <1>8, <1>9, <1>10 DEF StepOf, Steps

LEMMA StoryInvInit == Init => StoryInv
  BY TypeInvInit DEF Init, StoryInv, Path, Written, Idle, Asked, Stated

LEMMA StoryInvNext == StoryInv /\ [Next]_vars => StoryInv'
  <1> SUFFICES ASSUME StoryInv, [Next]_vars
               PROVE  \A b \in Calls : Path(b)' /\ Written(b)'
    BY TypeInvNext DEF StoryInv
  <1> TAKE b \in Calls
  <1>1. ASSUME NEW c \in Calls, StepOf(c) PROVE Path(b)' /\ Written(b)'
    <2>1. CASE b = c
      BY <1>1, <2>1, StoryFollows DEF StoryInv
    <2>2. CASE b # c
      BY <1>1, <2>2, StepsFollow, Frame DEF StoryInv, Follows
    <2> QED BY <2>1, <2>2
  <1>2. ASSUME NEW r \in late, Lands(r) PROVE Path(b)' /\ Written(b)'
    BY <1>2, LateLands, Frame DEF StoryInv
  <1>3. CASE UNCHANGED vars
    BY <1>3, Stutters, Frame DEF StoryInv
  <1> QED BY <1>1, <1>2, <1>3 DEF Next, StepOf

(***************************************************************************)
(* Whatever is refused, late or lost, the receipts of a call say what      *)
(* happened to it, of its own arguments, and do not contradict each other, *)
(* for every adapter and any number of calls beside each other             *)
(* (sdk/index.ts:86-114 and the adapters that copy it).                    *)
(***************************************************************************)
THEOREM ReceiptsTellOneStory == Spec => []OneStory
  <1>1. StoryInv => OneStory
    BY DEF StoryInv, TypeInv, Path, Written, OneStory, TypeOK, CallStates, Runs, At
  <1> QED BY <1>1, StoryInvInit, StoryInvNext, PTL DEF Spec

-----------------------------------------------------------------------------
(* Denials hold.  Only the adapters that reread the policy can decide two  *)
(* ways of one call, and they are among those a failed hook leaves open.   *)
LEMMA StillDecided ==
    ASSUME TypeInv, NEW c \in Calls, StepOf(c), adapter \notin Unshielded
    PROVE  This' = This /\ Decision(c)' = Decision(c) /\ ~Replaced(c)
  <1>1. ~Replaced(c)
    BY Table DEF TypeInv, Replaced
  <1>2. UNCHANGED <<adapter, policy, answer>>
    BY <1>1 DEF StepOf, Steps, Decide, DecideFails, Start, Deny, DenyFails, Host, Run, Ignore, Record,
       RecordFails, Retell, Kept
  <1> QED BY <1>1, <1>2 DEF This, Decision

LEMMA NoNewReceipt ==
    ASSUME TypeInv, NEW c \in Calls, StepOf(c), adapter \notin Unshielded, Barred(c), Stated' = Stated,
           call'[c].at = "denying" => Denies(Decision(c)),
           adapter # "hermes" /\ This.place # "observes" /\ Denies(Decision(c)) =>
               call'[c].at \in Asked \cup {"ended"} /\ call'[c].ran = "no"
    PROVE  Barred(c)'
  <1>1. Follows(c) /\ This' = This /\ Decision(c)' = Decision(c)
    BY StepsFollow, StillDecided
  <1> QED BY <1>1 DEF Follows, Barred, Consistent

LEMMA NewReceipt ==
    ASSUME TypeInv, NEW c \in Calls, StepOf(c), adapter \notin Unshielded, Barred(c),
           NEW r, Stated' \subseteq Stated \cup {r}, adapter # "hermes" => Consistent(r),
           call'[c].at \in {"ended", "retelling"}, call'[c].ran = call[c].ran,
           \/ call[c].at = "denying" /\ call[c].ran = "no" /\ call'[c].at = "ended"
           \/ call[c].at \notin Asked \cup {"ended"}
    PROVE  Barred(c)'
  <1>1. Follows(c) /\ This' = This /\ Decision(c)' = Decision(c)
    BY StepsFollow, StillDecided
  <1> QED BY <1>1 DEF Follows, Barred, Consistent, Asked

LEMMA BarredFollows ==
    ASSUME TypeInv, NEW c \in Calls, StepOf(c), adapter \notin Unshielded, Path(c), Barred(c)
    PROVE  Barred(c)'
  <1>0. /\ adapter \in DOMAIN Adapters /\ call \in [Calls -> CallStates] /\ call[c] \in CallStates
        /\ ~Replaced(c)
    BY StillDecided DEF TypeInv
  <1> USE DEF At
  <1>1. CASE Decide(c)
    <2>1. call'[c].ran = "no"
      BY <1>0, <1>1, Goings DEF Decide, Path, Points, Asked, Underway
    <2>2. call'[c].at = "denying" <=> Denies(Decision(c))
      BY <1>0, <1>1, Goings DEF Decide, Points, Asked, Underway
    <2> QED BY <1>1, <2>1, <2>2, NoNewReceipt DEF Decide, Asked, Stated, logVars
  <1>2. CASE DecideFails(c)
    <2>1. This.place = "wraps" \/ adapter = "hermes"
      BY <1>0, <1>2, Table DEF DecideFails, Untold
    <2>2. call[c].ran = "no"
      BY <1>2 DEF DecideFails, Path, Asked
    <2>3. /\ call'[c].ran = "no" /\ call'[c].at \in {"ended", "host"}
          /\ This.place = "wraps" => call'[c].at = "ended"
      BY <1>0, <1>2, <2>2, Goings, Endings DEF DecideFails, Points, Underway
    <2> QED BY <1>2, <2>1, <2>3, NoNewReceipt DEF DecideFails, Asked, Stated, logVars
  <1>3. CASE Start(c)
    <2>1. call'[c].at = "running"
      BY <1>0, <1>3, Goings DEF Start, Points, Underway
    <2> QED BY <1>3, <2>1, NoNewReceipt DEF Start, Stated, logVars
  <1>4. ASSUME Deny(c) \/ DenyFails(c)
        PROVE  Barred(c)'
    <2> DEFINE r == Receipt(c, c, "denied", Decision(c))
    <2>1. Stated' \subseteq Stated \cup {r}
      BY <1>4, Issues DEF Deny, DenyFails
    <2>2. call[c].at = "denying" /\ call[c].ran = "no" /\ This.place # "observes"
      BY <1>4 DEF Deny, DenyFails, Path, Asked
    <2>3. Consistent(r)
      BY <2>2 DEF Barred, Receipt, Relayed, Consistent
    <2>4. \E seen \in {"failure", "denial"} : Ends(c, seen)
      BY <1>0, <1>4, <2>2, Table DEF Deny, DenyFails
    <2>5. call'[c].ran = call[c].ran /\ call'[c].at = "ended"
      BY <1>0, <2>4, Endings
    <2> HIDE DEF r
    <2> QED BY <2>1, <2>2, <2>3, <2>5, NewReceipt
  <1>5. CASE Host(c)
    <2>1. call'[c].at \in {"running", "ended"}
      BY <1>0, <1>5, Goings, Endings DEF Host, Points, Underway
    <2> QED BY <1>5, <2>1, NoNewReceipt DEF Host, Barred, Asked, Stated, logVars
  <1>6. ASSUME NEW ran \in {"returned", "threw"}, Run(c, ran)
        PROVE  Barred(c)'
    <2>1. call'[c].at \in {"recording", "ended"}
      BY <1>0, <1>6, Runnings
    <2> QED BY <1>6, <2>1, NoNewReceipt DEF Run, Barred, Asked, Stated, logVars
  <1>7. CASE Ignore(c)
    <2>1. call'[c].at = "ended"
      BY <1>0, <1>7, Endings DEF Ignore, CallStates
    <2> QED BY <1>7, <2>1, NoNewReceipt DEF Ignore, Barred, Asked, Stated, logVars
  <1>8. ASSUME Record(c) \/ RecordFails(c)
        PROVE  Barred(c)'
    <2>1. PICK r \in Outcome(c) : Issued(r) \/ NotIssued(r)
      BY <1>8 DEF Record, RecordFails
    <2>2. /\ r.status = Status(call[c].ran) /\ r.decision = Recorded(c)
      BY <1>0, <2>1, Outcomes DEF TypeInv
    <2>3. Stated' \subseteq Stated \cup {r}
      BY <2>1, Issues
    <2>4. call[c].at = "recording" /\ call[c].ran \in Runs
      BY <1>0, <1>8 DEF Record, RecordFails, CallStates
    <2>5. adapter # "hermes" => Consistent(r)
      BY <1>0, <2>2, <2>4, Table, AdaptersAssumption
         DEF Consistent, Barred, Asked, Status, Recorded, Undecided, Denies
    <2>6. call'[c].ran = call[c].ran /\ call'[c].at \in {"ended", "retelling"}
      <3>1. \/ \E seen \in Runs \cup {"failure"} : Ends(c, seen)
            \/ Goes(c, "retelling")
        BY <1>8, <2>4 DEF Record, RecordFails
      <3> QED BY <1>0, <3>1, Goings, Endings DEF Points
    <2> QED BY <2>3, <2>4, <2>5, <2>6, NewReceipt DEF Asked
  <1>9. CASE Retell(c)
    <2> DEFINE r == Receipt(c, c, "error", Decision(c))
    <2>1. Stated' \subseteq Stated \cup {r}
      BY <1>9, Issues DEF Retell
    <2>2. call[c].at = "retelling" /\ adapter \in Retelling
      BY <1>9 DEF Retell, Path
    <2>3. adapter # "hermes" => Consistent(r)
      BY <1>0, <2>2, Table DEF Barred, Asked, Receipt, Relayed, Consistent
    <2>4. call'[c].at = "ended" /\ call'[c].ran = call[c].ran
      BY <1>0, <1>9, Endings DEF Retell
    <2> HIDE DEF r
    <2> QED BY <2>1, <2>2, <2>3, <2>4, NewReceipt DEF Asked
  <1> QED BY <1>0, <1>1, <1>2, <1>3, <1>4, <1>5, <1>6, <1>7, <1>8, <1>9 DEF StepOf, Steps

LEMMA BarredInvInit == Init => BarredInv
  BY StoryInvInit DEF Init, BarredInv, Barred, Idle, Asked, Stated

LEMMA BarredInvNext == BarredInv /\ [Next]_vars => BarredInv'
  <1> SUFFICES ASSUME BarredInv, [Next]_vars, adapter' \notin Unshielded, NEW b \in Calls
               PROVE  Barred(b)'
    BY StoryInvNext DEF BarredInv
  <1>0. TypeInv
    BY DEF BarredInv, StoryInv
  <1>1. ASSUME NEW c \in Calls, StepOf(c) PROVE Barred(b)'
    <2>1. Follows(c)
      BY <1>0, <1>1, StepsFollow
    <2>2. adapter \notin Unshielded
      BY <2>1 DEF Follows
    <2>3. CASE b = c
      BY <1>1, <2>2, <2>3, BarredFollows DEF BarredInv, StoryInv
    <2>4. CASE b # c
      BY <2>1, <2>2, <2>4, Frame DEF BarredInv, Follows
    <2> QED BY <2>3, <2>4
  <1>2. ASSUME NEW r \in late, Lands(r) PROVE Barred(b)'
    BY <1>2, LateLands, Frame DEF BarredInv
  <1>3. CASE UNCHANGED vars
    BY <1>3, Stutters, Frame DEF BarredInv
  <1> QED BY <1>1, <1>2, <1>3 DEF Next, StepOf

(***************************************************************************)
(* What an adapter in the call's way denies does not run, and none of its  *)
(* receipts shows a deny that was to be enforced beside an execution       *)
(* (openclaw.ts:58-59, verify.ts:97-102), but for the hooks whose failure  *)
(* leaves the call to the host.                                            *)
(***************************************************************************)
THEOREM WhatIsDeniedIsNotRun == Spec => []DenialsHold
  <1>1. BarredInv => DenialsHold
    BY DEF BarredInv, StoryInv, TypeInv, Barred, DenialsHold
  <1> QED BY <1>1, BarredInvInit, BarredInvNext, PTL DEF Spec

-----------------------------------------------------------------------------
(* What is handed back has its receipt.                                    *)
Shown(c) == IF call[c].seen = "returned" THEN "executed"
            ELSE IF call[c].seen = "threw" THEN "error" ELSE "denied"

\* Nothing of this call is handed back, or the receipt of it is in the log.
LEMMA HandsBack ==
    ASSUME TypeInv, NEW c \in Calls, StepOf(c), Returned(c),
           \/ This.place # "wraps"
           \/ call'[c].at # "ended"
           \/ call'[c].seen \notin {"returned", "threw", "denial"}
           \/ \E r \in log' : r.call = c /\ r.status = Shown(c)',
           <<c, c>> \in pending' =>
              /\ This.place = "observes" /\ call'[c].at # "idle"
              /\ call'[c].at = "ended" => adapter = "runner" /\ call'[c].ran = "threw"
    PROVE  Returned(c)'
  <1>1. This' = This /\ adapter' = adapter
    BY StepsFollow DEF Follows, This
  <1> QED BY <1>1 DEF Returned, At, Shown

LEMMA ReturnedFollows ==
    ASSUME TypeInv, NEW c \in Calls, StepOf(c), Path(c), Returned(c)
    PROVE  Returned(c)'
  <1>0. /\ adapter \in DOMAIN Adapters /\ call \in [Calls -> CallStates] /\ call[c] \in CallStates
        /\ pending \subseteq {<<b, b>> : b \in Calls}
    BY DEF TypeInv
  <1> USE DEF At
  <1>1. CASE Decide(c)
    <2>1. call'[c].at \in {"denying", "running", "host"}
      BY <1>0, <1>1, Goings DEF Decide, Points, Asked, Underway
    <2> QED BY <1>1, <2>1, HandsBack DEF Decide, Returned
  <1>2. CASE DecideFails(c)
    <2>1. This.place # "observes"
      BY <1>0, <1>2, Table DEF DecideFails
    <2>2. This.place = "wraps" => call'[c].at = "ended" /\ call'[c].seen = "failure"
      BY <1>0, <1>2, Endings DEF DecideFails
    <2> QED BY <1>2, <2>1, <2>2, HandsBack DEF DecideFails, Returned
  <1>3. CASE Start(c)
    <2>1. call'[c].at = "running"
      BY <1>0, <1>3, Goings DEF Start, Points, Underway
    <2> QED BY <1>3, <2>1, HandsBack DEF Start
  <1>4. CASE Deny(c)
    <2>1. This.place # "observes"
      BY <1>4 DEF Deny, Path
    <2>2. \E r \in log' : r.call = c /\ r.status = "denied"
      <3> DEFINE d == Receipt(c, c, "denied", Decision(c))
      <3>1. d.call = c /\ d.status = "denied"
        BY DEF Receipt
      <3>2. d \in log'
        BY <1>4 DEF Deny, Issued
      <3> QED BY <3>1, <3>2
    <2>3. call'[c].seen = "denial"
      BY <1>0, <1>4, Endings DEF Deny
    <2> QED BY <1>4, <2>1, <2>2, <2>3, HandsBack DEF Deny, Returned, Shown
  <1>5. CASE DenyFails(c)
    <2>1. This.place # "observes"
      BY <1>5 DEF DenyFails, Path
    <2>2. This.place = "wraps" => call'[c].seen = "failure"
      BY <1>0, <1>5, Endings DEF DenyFails
    <2> QED BY <1>5, <2>1, <2>2, HandsBack DEF DenyFails, Returned
  <1>6. CASE Host(c)
    <2>1. \/ call'[c].at = "running"
          \/ call'[c].at = "ended" /\ call'[c].seen = "declined"
      BY <1>0, <1>6, Goings, Endings DEF Host, Points, Underway
    <2>2. This.place # "observes"
      BY <1>6 DEF Host, Path
    <2> QED BY <1>6, <2>1, <2>2, HandsBack DEF Host, Returned
  <1>7. ASSUME NEW ran \in {"returned", "threw"}, Run(c, ran)
        PROVE  Returned(c)'
    <2>1. /\ call'[c].ran = ran
          /\ \/ call'[c].at = "recording"
             \/ call'[c].at = "ended" /\ Status(ran) = None
      BY <1>0, <1>7, Runnings
    <2>2. Status(ran) = None => adapter = "runner" /\ ran = "threw" /\ This.place = "observes"
      BY <1>0, Table, AdaptersAssumption DEF Status
    <2> QED BY <1>7, <2>1, <2>2, HandsBack DEF Run, Returned
  <1>8. CASE Ignore(c)
    <2>1. Of(c) = {}
      BY <1>8 DEF Ignore, Outcome
    <2>2. This.place = "observes" /\ Noted(c) = {}
      BY <2>1 DEF Of
    <2>3. <<c, c>> \notin pending
      BY <2>2 DEF Noted
    <2> QED BY <1>8, <2>2, <2>3, HandsBack DEF Ignore
  <1>9. ASSUME Record(c) \/ RecordFails(c)
        PROVE  Returned(c)'
    <2>1. <<c, c>> \notin pending'
      BY <1>9 DEF Record, RecordFails, Taken
    <2>2. call[c].ran \in {"returned", "threw"} /\ call[c].at = "recording"
      BY <1>0, <1>9 DEF Record, RecordFails, Path, CallStates, Runs
    <2>3. CASE Record(c)
      <3>1. PICK r \in Outcome(c) : Issued(r)
        BY <2>3 DEF Record
      <3>2. r \in log' /\ r.call = c /\ r.status = Status(call[c].ran)
        BY <1>0, <3>1, Outcomes DEF Issued
      <3>3. call'[c].seen = call[c].ran
        BY <1>0, <2>2, <2>3, Endings DEF Record, Runs
      <3>4. This.place = "wraps" => r.status = Shown(c)'
        BY <1>0, <2>2, <3>2, <3>3, Table DEF Status, Shown
      <3> QED BY <2>1, <3>2, <3>4, HandsBack
    <2>4. CASE RecordFails(c)
      <3>1. This.place = "wraps" => call'[c].at = "retelling" \/ call'[c].seen = "failure"
        BY <1>0, <2>4, Goings, Endings DEF RecordFails, Points
      <3> QED BY <2>1, <3>1, HandsBack
    <2> QED BY <1>9, <2>3, <2>4
  <1>10. CASE Retell(c)
    <2>1. This.place = "wraps"
      BY <1>0, <1>10, Table DEF Retell, Path
    <2>2. call'[c].seen = "failure"
      BY <1>0, <1>10, Endings DEF Retell
    <2> QED BY <1>10, <2>1, <2>2, HandsBack DEF Retell, Returned
  <1>11. CASE Replaced(c)
    BY <1>11, HandsBack DEF Replaced, Returned
  <1> QED BY <1>1, <1>2, <1>3, <1>4, <1>5, <1>6, <1>7, <1>8, <1>9, <1>10, <1>11 DEF StepOf, Steps

LEMMA ReturnInvInit == Init => ReturnInv
  BY StoryInvInit DEF Init, ReturnInv, Returned, Idle, At

LEMMA ReturnInvNext == ReturnInv /\ [Next]_vars => ReturnInv'
  <1> SUFFICES ASSUME ReturnInv, [Next]_vars, NEW b \in Calls
               PROVE  Returned(b)'
    BY StoryInvNext DEF ReturnInv
  <1>0. TypeInv
    BY DEF ReturnInv, StoryInv
  <1>1. ASSUME NEW c \in Calls, StepOf(c) PROVE Returned(b)'
    <2>1. CASE b = c
      BY <1>0, <1>1, <2>1, ReturnedFollows DEF ReturnInv, StoryInv
    <2>2. CASE b # c
      BY <1>0, <1>1, <2>2, StepsFollow, Frame DEF ReturnInv, Follows
    <2> QED BY <2>1, <2>2
  <1>2. ASSUME NEW r \in late, Lands(r) PROVE Returned(b)'
    BY <1>2, LateLands, Frame DEF ReturnInv
  <1>3. CASE UNCHANGED vars
    BY <1>3, Stutters, Frame DEF ReturnInv
  <1> QED BY <1>1, <1>2, <1>3 DEF Next, StepOf

(***************************************************************************)
(* A wrapper hands back a result, an error of the tool or a denial only    *)
(* under a receipt in the log that says so, and an observer forgets every  *)
(* run whose end it is told (sdk/index.ts:86-114, langchain.ts).           *)
(***************************************************************************)
THEOREM NothingUnreceipted == Spec => []HandedBackIsReceipted
  <1>1. ReturnInv => HandedBackIsReceipted
    <2> SUFFICES ASSUME ReturnInv PROVE HandedBackIsReceipted
      OBVIOUS
    <2>1. \A p \in pending : \E c \in Calls : p = <<c, c>>
      BY DEF ReturnInv, StoryInv, TypeInv
    <2>2. \A p \in pending : ~At(p[2], "ended") \/ (adapter = "runner" /\ call[p[2]].ran = "threw")
      BY <2>1 DEF ReturnInv, Returned
    <2> QED BY <2>2 DEF ReturnInv, Returned, HandedBackIsReceipted
  <1> QED BY <1>1, ReturnInvInit, ReturnInvNext, PTL DEF Spec
================================================================================
