---------------------------- MODULE LedgerEvents ----------------------------
(***************************************************************************)
(* What the fact ledger (state/src/ledger.ts) reads from its log of        *)
(* events.  An event has a kind and the fact it is about; an assert also   *)
(* names the fact it supersedes, or None.  Every question is asked of the  *)
(* whole sequence E: the ledger keeps nothing else.                        *)
(***************************************************************************)
EXTENDS Naturals, Sequences

CONSTANT None   \* no superseded fact

Kinds == {"assert", "retract", "confirm", "forget", "hold", "release"}

AssertedIn(E, f)  == \E k \in DOMAIN E : E[k].kind = "assert" /\ E[k].fact = f
RetractedIn(E, f) == \E k \in DOMAIN E : E[k].kind \in {"retract", "forget"} /\ E[k].fact = f
ForgottenIn(E, f) == \E k \in DOMAIN E : E[k].kind = "forget" /\ E[k].fact = f
ConfirmedIn(E, f) == \E k \in DOMAIN E : E[k].kind = "confirm" /\ E[k].fact = f

(* The last hold or release of the fact is a hold.                         *)
HeldIn(E, f) ==
    \E k \in DOMAIN E :
        /\ E[k].kind = "hold" /\ E[k].fact = f
        /\ \A j \in DOMAIN E : j > k => ~(E[j].kind = "release" /\ E[j].fact = f)

(* The replacements of a fact: asserts that supersede it and still stand.  *)
ReplacementsIn(E, f) ==
    {k \in DOMAIN E : /\ E[k].kind = "assert" /\ E[k].supersedes = f
                      /\ ~RetractedIn(E, E[k].fact)}
SupersededIn(E, f) == ReplacementsIn(E, f) # {}

(* Believed now: asserted, not taken back, not replaced.                   *)
BelievedIn(E, f) == AssertedIn(E, f) /\ ~RetractedIn(E, f) /\ ~SupersededIn(E, f)

=============================================================================
