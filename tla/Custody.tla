------------------------------- MODULE Custody -------------------------------
(***************************************************************************)
(* What a gateway in enforce mode promises about a tool call, apart from   *)
(* the mechanism: evidence of a consequential call exists before the call  *)
(* goes out, a call goes out at most once and never after something was    *)
(* stated about how it ended, a call has one story, and a story of denial  *)
(* or withholding is true for ever.  Gateway.tla is shown to implement it. *)
(***************************************************************************)
CONSTANT Calls

Withheld == {"denied", "withheld"}            \* the call never went out
Attempted == {"executed", "failed", "error"}  \* it did; "executed" needs an effect

VARIABLES
    grave,      \* calls in progress whose tool is consequential
    committed,  \* calls whose authorization is in the log
    forwarded,  \* calls handed to an upstream
    performed,  \* calls whose effect happened at the upstream
    told,       \* pairs <<call, status>>: the receipts in the log
    answered    \* calls whose caller was handed a receipt

vars == <<grave, committed, forwarded, performed, told, answered>>

Init ==
    /\ grave = {} /\ committed = {} /\ forwarded = {}
    /\ performed = {} /\ told = {} /\ answered = {}

(* A call arrives; consequential or not is settled here. *)
Begin(c) ==
    /\ c \notin grave \cup forwarded \cup committed
    /\ \A st \in Withheld \cup Attempted : <<c, st>> \notin told
    /\ grave' = grave \cup {c}
    /\ UNCHANGED <<committed, forwarded, performed, told, answered>>

(* Evidence may be late: a commit that was given up on can still land. *)
Commit(c) ==
    /\ committed' = committed \cup {c}
    /\ UNCHANGED <<grave, forwarded, performed, told, answered>>

Forward(c) ==
    /\ c \notin forwarded
    /\ c \in grave => c \in committed
    /\ \A st \in Withheld \cup Attempted : <<c, st>> \notin told
    /\ forwarded' = forwarded \cup {c}
    /\ UNCHANGED <<grave, committed, performed, told, answered>>

(* The upstream acts on a request it was sent, possibly after the gateway  *)
(* gave up waiting for it.                                                 *)
Perform(c) ==
    /\ c \in forwarded
    /\ performed' = performed \cup {c}
    /\ UNCHANGED <<grave, committed, forwarded, told, answered>>

Tell(c, st) ==
    /\ IF st \in Withheld THEN c \notin forwarded ELSE c \in forwarded
    /\ st = "executed" => c \in performed
    /\ \A other \in Withheld \cup Attempted : <<c, other>> \in told => other = st
    /\ told' = told \cup {<<c, st>>}
    /\ UNCHANGED <<grave, committed, forwarded, performed, answered>>

(* The caller learns the outcome only together with a logged receipt. *)
Answer(c, st) ==
    /\ IF st \in Withheld THEN c \notin forwarded ELSE c \in forwarded
    /\ st = "executed" => c \in performed
    /\ \A other \in Withheld \cup Attempted : <<c, other>> \in told => other = st
    /\ told' = told \cup {<<c, st>>}
    /\ answered' = answered \cup {c}
    /\ UNCHANGED <<grave, committed, forwarded, performed>>

CommitAndForward(c) ==
    /\ c \notin forwarded
    /\ \A st \in Withheld \cup Attempted : <<c, st>> \notin told
    /\ committed' = committed \cup {c}
    /\ forwarded' = forwarded \cup {c}
    /\ UNCHANGED <<grave, performed, told, answered>>

Next ==
    \E c \in Calls :
        \/ Begin(c) \/ Commit(c) \/ Forward(c) \/ Perform(c) \/ CommitAndForward(c)
        \/ \E st \in Withheld \cup Attempted : Tell(c, st) \/ Answer(c, st)

Spec == Init /\ [][Next]_vars
==============================================================================
