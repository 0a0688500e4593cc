------------------------- MODULE MemoryServer_proofs -------------------------
(***************************************************************************)
(* Safety of the memory server, for any calls, stores and attempts, on a   *)
(* shared server or not.                                                   *)
(***************************************************************************)
EXTENDS Stores, SequenceTheorems, FiniteSetTheorems, TLAPS

Forgetting == {"forget", "sweep"}
TakingBack == {"retract", "forget", "sweep"}
Working == {"validate", "put", "get", "look", "held?", "erase", "append",
            "remove", "verify"}

(* A call that has begun is of an operation its phase belongs to, works on *)
(* a fact, and names an actor.                                             *)
Sound(c, r) ==
    /\ r.pc # "idle" => r.op \in Ops /\ r.by \in Calls
    /\ r.pc \in {"validate", "put"} => r.op = "write"
    /\ r.pc \in {"get", "erase"} => r.op \in Forgetting
    /\ r.pc = "look" => r.op \notin {"write", "release"}
    /\ r.pc = "held?" => r.op \in Forgetting \cup {"hold", "release"}
    /\ r.pc \in {"remove", "verify"} => r.op \in TakingBack
    /\ r.pc \in {"collect", "sweep"} => r.op = "sweep"
    /\ r.op = "write" => r.fact = c
    /\ r.pc \in Working => r.fact \in Facts
    /\ r.pc = "validate" => r.at = 1
    /\ r.pc = "verify" => r.at \in Stores

Phased ==
    \A c \in Calls :
        /\ Sound(c, call[c])
        /\ call[c].began <= Len(events)
        /\ ~At(c, "idle") => current \in Calls

EventType == [kind : Kinds, fact : Facts, supersedes : Facts \cup {None},
              by : Facts, call : Facts]
CallType == [pc : Pcs, op : Ops \cup {"none"}, fact : Facts \cup {None},
             old : Facts \cup {None}, by : Calls \cup {None},
             at : 1..(NumStores + 1), tries : 0..(Attempts - 1),
             left : SUBSET Facts, kept : SUBSET Stores, began : Nat]

(* An event the ledger appends is well formed.                             *)
LEMMA EventTyped ==
    ASSUME TypeOK, Phased, NEW c \in Calls, At(c, "append")
    PROVE  Event(c) \in EventType
  BY DEF TypeOK, Phased, Sound, EventType, At, Event, Fact, Working, Ops, Kinds, Facts

(* What a call does to another is nothing.                                 *)
LEMMA OthersStand ==
    ASSUME TypeOK, NEW c \in Calls, Step(c), NEW d \in Calls, d # c
    PROVE  call'[d] = call[d]
  BY DEF TypeOK, Step, Retract, Confirm, Forget, Hold, Release, Write, Sweep, Begin,
         ValidateAssert, Proceed, Refused, Goto, Put, PutFails, AssertFact, Get, Look,
         AskHeld, Erase, AppendEvent, Fails, Remove, RemoveFails, VerifyGone, VerifyFound,
         VerifyFails, Removed, NextStore, Collect, SweepOne, Swept

(* The step of a call keeps its own record well formed, and no other's.    *)
LEMMA CallStep ==
    ASSUME TypeOK, Phased, NEW c \in Calls, Step(c)
    PROVE  /\ call'[c] \in CallType /\ Sound(c, call'[c])
           /\ call' = [call EXCEPT ![c] = call'[c]]
           /\ call'[c].pc # "idle" /\ call'[c].began <= Len(events)
  <1> DEFINE r == call[c]
  <1> DEFINE Kept == /\ call'[c] \in CallType /\ Sound(c, call'[c])
                     /\ call' = [call EXCEPT ![c] = call'[c]]
                     /\ call'[c].pc # "idle" /\ call'[c].began <= Len(events)
  <1>a. /\ call \in [Calls -> CallType] /\ r \in CallType /\ Len(events) \in Nat
        /\ Sound(c, r) /\ r.began <= Len(events) /\ (r.pc # "idle" => current \in Calls)
    BY DEF TypeOK, CallType, Phased, At
  <1>b. NumStores \in Nat /\ Attempts \in Nat \ {0} /\ None \notin Facts /\ Calls \subseteq Facts
    BY MemoryAssumption DEF Facts
  <1>c. ASSUME NEW x \in CallType, call' = [call EXCEPT ![c] = x], Sound(c, x),
               x.pc # "idle", x.began <= Len(events)
        PROVE  Kept
    BY <1>c, <1>a
  <1>d. ASSUME NEW p \in Pcs \ {"idle"}, call' = [call EXCEPT ![c].pc = p],
               Sound(c, [r EXCEPT !.pc = p])
        PROVE  Kept
    <2>1. [r EXCEPT !.pc = p] \in CallType
      BY <1>a DEF CallType
    <2>2. [r EXCEPT !.pc = p].pc = p /\ [r EXCEPT !.pc = p].began = r.began
      BY <1>a DEF CallType
    <2>3. call' = [call EXCEPT ![c] = [r EXCEPT !.pc = p]]
      BY <1>d
    <2> QED BY <2>1, <2>2, <2>3, <1>a, <1>c, <1>d
  <1>1. ASSUME NEW f \in Facts, Retract(c, f) PROVE Kept
    <2> DEFINE x == NewCall("look", "retract", f, None, c, Len(events))
    <2>1. call' = [call EXCEPT ![c] = x]
      BY <1>1 DEF Retract, Begin
    <2>2. x \in CallType
      BY <1>a, <1>b, MemoryAssumption DEF NewCall, CallType, Ops, Pcs, Ended, Facts
    <2>3. Sound(c, x) /\ x.pc # "idle" /\ x.began = Len(events)
      BY <1>a, <1>b DEF NewCall, Sound, Ops, Forgetting, TakingBack, Working
    <2> QED BY <2>1, <2>2, <2>3, <1>a, <1>c
  <1>2. ASSUME NEW f \in Facts, Confirm(c, f) PROVE Kept
    <2> DEFINE x == NewCall("look", "confirm", f, None, c, Len(events))
    <2>1. call' = [call EXCEPT ![c] = x]
      BY <1>2 DEF Confirm, Begin
    <2>2. x \in CallType
      BY <1>a, <1>b, MemoryAssumption DEF NewCall, CallType, Ops, Pcs, Ended, Facts
    <2>3. Sound(c, x) /\ x.pc # "idle" /\ x.began = Len(events)
      BY <1>a, <1>b DEF NewCall, Sound, Ops, Forgetting, TakingBack, Working
    <2> QED BY <2>1, <2>2, <2>3, <1>a, <1>c
  <1>3. ASSUME NEW f \in Facts, Forget(c, f) PROVE Kept
    <2> DEFINE x == NewCall("get", "forget", f, None, c, Len(events))
    <2>1. call' = [call EXCEPT ![c] = x]
      BY <1>3 DEF Forget, Begin
    <2>2. x \in CallType
      BY <1>a, <1>b, MemoryAssumption DEF NewCall, CallType, Ops, Pcs, Ended, Facts
    <2>3. Sound(c, x) /\ x.pc # "idle" /\ x.began = Len(events)
      BY <1>a, <1>b DEF NewCall, Sound, Ops, Forgetting, TakingBack, Working
    <2> QED BY <2>1, <2>2, <2>3, <1>a, <1>c
  <1>4. ASSUME NEW f \in Facts, Hold(c, f) PROVE Kept
    <2> DEFINE x == NewCall("look", "hold", f, None, c, Len(events))
    <2>1. call' = [call EXCEPT ![c] = x]
      BY <1>4 DEF Hold, Begin
    <2>2. x \in CallType
      BY <1>a, <1>b, MemoryAssumption DEF NewCall, CallType, Ops, Pcs, Ended, Facts
    <2>3. Sound(c, x) /\ x.pc # "idle" /\ x.began = Len(events)
      BY <1>a, <1>b DEF NewCall, Sound, Ops, Forgetting, TakingBack, Working
    <2> QED BY <2>1, <2>2, <2>3, <1>a, <1>c
  <1>5. ASSUME NEW f \in Facts, Release(c, f) PROVE Kept
    <2> DEFINE x == NewCall("held?", "release", f, None, c, Len(events))
    <2>1. call' = [call EXCEPT ![c] = x]
      BY <1>5 DEF Release, Begin
    <2>2. x \in CallType
      BY <1>a, <1>b, MemoryAssumption DEF NewCall, CallType, Ops, Pcs, Ended, Facts
    <2>3. Sound(c, x) /\ x.pc # "idle" /\ x.began = Len(events)
      BY <1>a, <1>b DEF NewCall, Sound, Ops, Forgetting, TakingBack, Working
    <2> QED BY <2>1, <2>2, <2>3, <1>a, <1>c
  <1>6. ASSUME NEW f \in Facts \cup {None}, Write(c, f) PROVE Kept
    <2> DEFINE x == NewCall("validate", "write", c, f, c, Len(events))
    <2>1. call' = [call EXCEPT ![c] = x]
      BY <1>6 DEF Write, Begin
    <2>2. x \in CallType
      BY <1>a, <1>b, MemoryAssumption DEF NewCall, CallType, Ops, Pcs, Ended, Facts
    <2>3. Sound(c, x) /\ x.pc # "idle" /\ x.began = Len(events)
      BY <1>a, <1>b DEF NewCall, Sound, Ops, Forgetting, TakingBack, Working
    <2> QED BY <2>1, <2>2, <2>3, <1>a, <1>c
  <1>7. CASE Sweep(c)
    <2> DEFINE x == NewCall("collect", "sweep", None, None, c, Len(events))
    <2>1. call' = [call EXCEPT ![c] = x]
      BY <1>7 DEF Sweep, Begin
    <2>2. x \in CallType
      BY <1>a, <1>b, MemoryAssumption DEF NewCall, CallType, Ops, Pcs, Ended, Facts
    <2>3. Sound(c, x) /\ x.pc # "idle" /\ x.began = Len(events)
      BY <1>a, <1>b DEF NewCall, Sound, Ops, Forgetting, TakingBack, Working
    <2> QED BY <2>1, <2>2, <2>3, <1>a, <1>c
  <1>8. CASE ValidateAssert(c)
    <2>1. PICK p \in {"put", "refused"} : call' = [call EXCEPT ![c].pc = p]
      BY <1>8, <1>a DEF ValidateAssert, At, Proceed, Refused, Goto
    <2>2. r.pc = "validate"
      BY <1>8 DEF ValidateAssert, At
    <2>3. p \in Pcs \ {"idle"}
      BY <2>1 DEF Pcs, Ended
    <2>4. Sound(c, [r EXCEPT !.pc = p])
      BY <2>1, <2>2, <1>a, Zenon DEF CallType, Sound, Ops, Forgetting, TakingBack,
         Working
    <2> QED BY <2>1, <2>3, <2>4, <1>d
  <1>9. CASE PutFails(c)
    <2>1. PICK p \in {"refused"} : call' = [call EXCEPT ![c].pc = p]
      BY <1>9, <1>a DEF PutFails, At, Goto
    <2>2. r.pc = "put"
      BY <1>9 DEF PutFails, At
    <2>3. p \in Pcs \ {"idle"}
      BY <2>1 DEF Pcs, Ended
    <2>4. Sound(c, [r EXCEPT !.pc = p])
      BY <2>1, <2>2, <1>a, Zenon DEF CallType, Sound, Ops, Forgetting, TakingBack,
         Working
    <2> QED BY <2>1, <2>3, <2>4, <1>d
  <1>10. CASE AssertFact(c)
    <2>1. PICK p \in {"append", "refused"} : call' = [call EXCEPT ![c].pc = p]
      BY <1>10, <1>a DEF AssertFact, At, Proceed, Refused, Goto
    <2>2. r.pc = "put"
      BY <1>10 DEF AssertFact, At
    <2>3. p \in Pcs \ {"idle"}
      BY <2>1 DEF Pcs, Ended
    <2>4. Sound(c, [r EXCEPT !.pc = p])
      BY <2>1, <2>2, <1>a, Zenon DEF CallType, Sound, Ops, Forgetting, TakingBack,
         Working
    <2> QED BY <2>1, <2>3, <2>4, <1>d
  <1>11. CASE Look(c)
    <2>1. PICK p \in {"append", "held?", "refused"} : call' = [call EXCEPT ![c].pc = p]
                    /\ (p = "held?" => r.op \notin {"retract", "confirm"})
      BY <1>11, <1>a DEF Look, At, Proceed, Refused, Goto
    <2>2. r.pc = "look"
      BY <1>11 DEF Look, At
    <2>3. p \in Pcs \ {"idle"}
      BY <2>1 DEF Pcs, Ended
    <2>4. Sound(c, [r EXCEPT !.pc = p])
      BY <2>1, <2>2, <1>a, Zenon DEF CallType, Sound, Ops, Forgetting, TakingBack,
         Working
    <2> QED BY <2>1, <2>3, <2>4, <1>d
  <1>12. CASE AskHeld(c)
    <2>1. PICK p \in {"append", "erase", "refused"} : call' = [call EXCEPT ![c].pc = p]
                    /\ (p = "erase" => r.op \notin {"hold", "release"})
      BY <1>12, <1>a DEF AskHeld, At, Proceed, Refused, Goto
    <2>2. r.pc = "held?"
      BY <1>12 DEF AskHeld, At
    <2>3. p \in Pcs \ {"idle"}
      BY <2>1 DEF Pcs, Ended
    <2>4. Sound(c, [r EXCEPT !.pc = p])
      BY <2>1, <2>2, <1>a, Zenon DEF CallType, Sound, Ops, Forgetting, TakingBack,
         Working
    <2> QED BY <2>1, <2>3, <2>4, <1>d
  <1>13. CASE Erase(c)
    <2>1. PICK p \in {"append"} : call' = [call EXCEPT ![c].pc = p]
      BY <1>13, <1>a DEF Erase, At, Goto
    <2>2. r.pc = "erase"
      BY <1>13 DEF Erase, At
    <2>3. p \in Pcs \ {"idle"}
      BY <2>1 DEF Pcs, Ended
    <2>4. Sound(c, [r EXCEPT !.pc = p])
      BY <2>1, <2>2, <1>a, Zenon DEF CallType, Sound, Ops, Forgetting, TakingBack,
         Working
    <2> QED BY <2>1, <2>3, <2>4, <1>d
  <1>14. CASE Fails(c)
    <2>1. PICK p \in {"refused"} : call' = [call EXCEPT ![c].pc = p]
      BY <1>14, <1>a DEF Fails, At, Goto, Ended
    <2>2. r.pc # "idle"
      BY <1>14 DEF Fails, At
    <2>3. p \in Pcs \ {"idle"}
      BY <2>1 DEF Pcs, Ended
    <2>4. Sound(c, [r EXCEPT !.pc = p])
      BY <2>1, <2>2, <1>a, Zenon DEF CallType, Sound, Ops, Forgetting, TakingBack,
         Working
    <2> QED BY <2>1, <2>3, <2>4, <1>d
  <1>15. CASE Removed(c)
    <2>1. PICK p \in {"sweep", "partly", "done"} : call' = [call EXCEPT ![c].pc = p]
                    /\ (p = "sweep" => r.op = "sweep")
      BY <1>15, <1>a DEF Removed, At, Proceed, Goto, Outcome
    <2>2. r.pc = "remove"
      BY <1>15 DEF Removed, At
    <2>3. p \in Pcs \ {"idle"}
      BY <2>1 DEF Pcs, Ended
    <2>4. Sound(c, [r EXCEPT !.pc = p])
      BY <2>1, <2>2, <1>a, Zenon DEF CallType, Sound, Ops, Forgetting, TakingBack,
         Working
    <2> QED BY <2>1, <2>3, <2>4, <1>d
  <1>16. CASE Swept(c)
    <2>1. PICK p \in {"partly", "done"} : call' = [call EXCEPT ![c].pc = p]
      BY <1>16, <1>a DEF Swept, At, Proceed, Goto, Outcome
    <2>2. r.pc = "sweep"
      BY <1>16 DEF Swept, At
    <2>3. p \in Pcs \ {"idle"}
      BY <2>1 DEF Pcs, Ended
    <2>4. Sound(c, [r EXCEPT !.pc = p])
      BY <2>1, <2>2, <1>a, Zenon DEF CallType, Sound, Ops, Forgetting, TakingBack,
         Working
    <2> QED BY <2>1, <2>3, <2>4, <1>d
  <1>17. CASE Put(c)
    <2> DEFINE x == [r EXCEPT !.at = @ + 1]
    <2>1. call' = [call EXCEPT ![c] = x] /\ r.pc = "put" /\ r.at \in Stores
      BY <1>17, <1>a DEF Put, At, CallType
    <2>e. r.at + 1 \in 1..(NumStores + 1)
      BY <2>1, <1>a, <1>b DEF Stores, Sound
    <2>2. x \in CallType
      BY <2>1, <2>e, <1>a, <1>b, MemoryAssumption DEF CallType, Pcs, Ended
    <2>3. Sound(c, x) /\ x.pc # "idle" /\ x.began = r.began
      BY <2>1, <2>e, <1>a, <1>b DEF Sound, CallType, Ops, Forgetting, TakingBack,
         Working
    <2> QED BY <2>1, <2>2, <2>3, <1>a, <1>c
  <1>18. CASE Get(c)
    <2>1. PICK y \in Calls : call' = [call EXCEPT ![c] = [r EXCEPT !.pc = "look", !.by = y]]
      BY <1>18, <1>a DEF Get, At
    <2>2. r.pc = "get"
      BY <1>18 DEF Get, At
    <2> DEFINE x == [r EXCEPT !.pc = "look", !.by = y]
    <2>3. x \in CallType
      BY <1>a DEF CallType, Pcs, Ended
    <2>4. Sound(c, x) /\ x.pc # "idle" /\ x.began = r.began
      BY <2>2, <1>a DEF Sound, CallType, Ops, Forgetting, TakingBack, Working
    <2> QED BY <2>1, <2>3, <2>4, <1>a, <1>c
  <1>19. CASE AppendEvent(c)
    <2>1. r.pc = "append"
      BY <1>19 DEF AppendEvent, At
    <2>2. CASE r.op \in TakingBack
      <3> DEFINE x == [r EXCEPT !.pc = "remove", !.at = 1]
      <3>1. call' = [call EXCEPT ![c] = x]
        BY <1>19, <2>2, <1>a DEF AppendEvent, TakingBack
      <3>e. 1 \in 1..(NumStores + 1)
        BY <1>b
      <3>2. x \in CallType
        BY <3>e, <1>a DEF CallType, Pcs, Ended
      <3>3. Sound(c, x) /\ x.pc # "idle" /\ x.began = r.began
        BY <2>1, <2>2, <1>a DEF Sound, CallType, Ops, Forgetting, TakingBack, Working
      <3> QED BY <3>1, <3>2, <3>3, <1>a, <1>c
    <2>3. CASE r.op \notin TakingBack
      <3>1. call' = [call EXCEPT ![c].pc = "done"]
        BY <1>19, <2>3 DEF AppendEvent, TakingBack, Goto
      <3>2. Sound(c, [r EXCEPT !.pc = "done"]) /\ "done" \in Pcs \ {"idle"}
        BY <2>1, <1>a DEF Sound, CallType, Ops, Forgetting, TakingBack, Working,
           Pcs, Ended
      <3> QED BY <3>1, <3>2, <1>d
    <2> QED BY <2>2, <2>3
  <1>20. CASE Remove(c)
    <2> DEFINE x == [r EXCEPT !.pc = "verify", !.tries = 0]
    <2>1. call' = [call EXCEPT ![c] = x] /\ r.pc = "remove" /\ r.at \in Stores
      BY <1>20, <1>a DEF Remove, At, CallType, Removing
    <2>e. 0 \in 0..(Attempts - 1)
      BY <1>b
    <2>2. x \in CallType
      BY <2>1, <2>e, <1>a, <1>b, MemoryAssumption DEF CallType, Pcs, Ended
    <2>3. Sound(c, x) /\ x.pc # "idle" /\ x.began = r.began
      BY <2>1, <2>e, <1>a, <1>b DEF Sound, CallType, Ops, Forgetting, TakingBack,
         Working
    <2> QED BY <2>1, <2>2, <2>3, <1>a, <1>c
  <1>21. CASE RemoveFails(c)
    <2> DEFINE x == [r EXCEPT !.at = @ + 1, !.kept = @ \cup {r.at}]
    <2>1. call' = [call EXCEPT ![c] = x] /\ r.pc = "remove" /\ r.at \in Stores
      BY <1>21, <1>a DEF RemoveFails, At, CallType, Removing
    <2>e. r.at + 1 \in 1..(NumStores + 1)
      BY <2>1, <1>a, <1>b DEF Stores, Sound
    <2>2. x \in CallType
      BY <2>1, <2>e, <1>a, <1>b, MemoryAssumption DEF CallType, Pcs, Ended
    <2>3. Sound(c, x) /\ x.pc # "idle" /\ x.began = r.began
      BY <2>1, <2>e, <1>a, <1>b DEF Sound, CallType, Ops, Forgetting, TakingBack,
         Working
    <2> QED BY <2>1, <2>2, <2>3, <1>a, <1>c
  <1>22. CASE VerifyGone(c)
    <2> DEFINE x == [r EXCEPT !.pc = "remove", !.at = @ + 1]
    <2>1. call' = [call EXCEPT ![c] = x] /\ r.pc = "verify"
      BY <1>22, <1>a DEF VerifyGone, At, CallType, NextStore
    <2>e. r.at + 1 \in 1..(NumStores + 1)
      BY <2>1, <1>a, <1>b DEF Stores, Sound
    <2>2. x \in CallType
      BY <2>1, <2>e, <1>a, <1>b, MemoryAssumption DEF CallType, Pcs, Ended
    <2>3. Sound(c, x) /\ x.pc # "idle" /\ x.began = r.began
      BY <2>1, <2>e, <1>a, <1>b DEF Sound, CallType, Ops, Forgetting, TakingBack,
         Working
    <2> QED BY <2>1, <2>2, <2>3, <1>a, <1>c
  <1>23. CASE VerifyFound(c)
    <2>1. r.pc = "verify"
      BY <1>23 DEF VerifyFound, At
    <2>2. CASE r.tries + 1 < Attempts
      <3> DEFINE x == [r EXCEPT !.tries = @ + 1]
      <3>1. call' = [call EXCEPT ![c] = x]
        BY <1>23, <2>2, <1>a DEF VerifyFound, CallType
      <3>e. r.tries + 1 \in 0..(Attempts - 1)
        BY <2>2, <1>a, <1>b DEF CallType
      <3>2. x \in CallType
        BY <3>e, <1>a DEF CallType
      <3>3. Sound(c, x) /\ x.pc # "idle" /\ x.began = r.began
        BY <2>1, <1>a DEF Sound, CallType, Ops, Forgetting, TakingBack, Working
      <3> QED BY <3>1, <3>2, <3>3, <1>a, <1>c
    <2>3. CASE ~(r.tries + 1 < Attempts)
      <3> DEFINE x == [r EXCEPT !.pc = "remove", !.at = @ + 1]
      <3>1. call' = [call EXCEPT ![c] = x]
        BY <1>23, <2>3, <1>a DEF VerifyFound, NextStore, CallType
      <3>e. r.at + 1 \in 1..(NumStores + 1)
        BY <2>1, <1>a, <1>b DEF Stores, Sound
      <3>2. x \in CallType
        BY <3>e, <1>a DEF CallType, Pcs, Ended
      <3>3. Sound(c, x) /\ x.pc # "idle" /\ x.began = r.began
        BY <2>1, <1>a DEF Sound, CallType, Ops, Forgetting, TakingBack, Working
      <3> QED BY <3>1, <3>2, <3>3, <1>a, <1>c
    <2> QED BY <2>2, <2>3
  <1>24. CASE VerifyFails(c)
    <2> DEFINE x == [r EXCEPT !.pc = "remove", !.at = @ + 1]
    <2>1. call' = [call EXCEPT ![c] = x] /\ r.pc = "verify"
      BY <1>24, <1>a DEF VerifyFails, At, CallType, NextStore
    <2>e. r.at + 1 \in 1..(NumStores + 1)
      BY <2>1, <1>a, <1>b DEF Stores, Sound
    <2>2. x \in CallType
      BY <2>1, <2>e, <1>a, <1>b, MemoryAssumption DEF CallType, Pcs, Ended
    <2>3. Sound(c, x) /\ x.pc # "idle" /\ x.began = r.began
      BY <2>1, <2>e, <1>a, <1>b DEF Sound, CallType, Ops, Forgetting, TakingBack,
         Working
    <2> QED BY <2>1, <2>2, <2>3, <1>a, <1>c
  <1>25. ASSUME NEW k \in 0..Len(events), Collect(c, k) PROVE Kept
    <2> DEFINE x == [r EXCEPT !.pc = "sweep",
                              !.left = {f \in Facts \ erased :
                                           AssertedIn(SubSeq(events, 1, k), f)}]
    <2>1. call' = [call EXCEPT ![c] = x] /\ r.pc = "collect"
      BY <1>25, <1>a DEF Collect, At, CallType
    <2>2. x \in CallType
      BY <2>1, <1>a, <1>b, MemoryAssumption DEF CallType, Pcs, Ended
    <2>3. Sound(c, x) /\ x.pc # "idle" /\ x.began = r.began
      BY <2>1, <1>a, <1>b DEF Sound, CallType, Ops, Forgetting, TakingBack, Working
    <2> QED BY <2>1, <2>2, <2>3, <1>a, <1>c
  <1>26. ASSUME NEW f \in Facts, SweepOne(c, f) PROVE Kept
    <2>1. r.pc = "sweep" /\ f \in r.left
      BY <1>26 DEF SweepOne, At
    <2>2. PICK p \in {"sweep", "get"} :
              call' = [call EXCEPT ![c] = [r EXCEPT !.left = @ \ {f}, !.fact = f, !.pc = p]]
      BY <1>26, <1>a DEF SweepOne
    <2> DEFINE x == [r EXCEPT !.left = @ \ {f}, !.fact = f, !.pc = p]
    <2>3. x \in CallType
      BY <1>a DEF CallType, Pcs, Ended
    <2>4. Sound(c, x) /\ x.pc # "idle" /\ x.began = r.began
      BY <2>1, <1>a DEF Sound, CallType, Ops, Forgetting, TakingBack, Working
    <2> QED BY <2>2, <2>3, <2>4, <1>a, <1>c
  <1> QED
    BY <1>1, <1>2, <1>3, <1>4, <1>5, <1>6, <1>7, <1>8, <1>9, <1>10, <1>11, <1>12,
       <1>13, <1>14, <1>15, <1>16, <1>17, <1>18, <1>19, <1>20, <1>21, <1>22,
       <1>23, <1>24, <1>25, <1>26 DEF Step

(* What a step does to the ledger.                                         *)
LEMMA LedgerStep ==
    ASSUME TypeOK, Phased, NEW c \in Calls, Step(c)
    PROVE  /\ \/ events' = events
              \/ At(c, "append") /\ events' = Append(events, Event(c))
           /\ \/ erased' = erased
              \/ At(c, "erase") /\ erased' = erased \cup {Fact(c)}
           /\ current' \in {current, c} /\ (At(c, "idle") => current' = c)
  <1>1. /\ \/ events' = events
           \/ At(c, "append") /\ events' = Append(events, Event(c))
        /\ \/ erased' = erased
           \/ At(c, "erase") /\ erased' = erased \cup {Fact(c)}
        /\ current' \in {current, c}
    BY DEF Step, ledgerVars, storeVars, Retract, Confirm, Forget, Hold, Release, Write,
           Sweep, Begin, ValidateAssert, Proceed, Refused, Put, PutFails, AssertFact, Get,
           Look, AskHeld, Erase, AppendEvent, Fails, Remove, RemoveFails, VerifyGone,
           VerifyFound, VerifyFails, Removed, Collect, SweepOne, Swept
  <1>2. ASSUME At(c, "idle") PROVE current' = c
    BY <1>2 DEF At, Step, Retract, Confirm, Forget, Hold, Release, Write, Sweep, Begin,
           ValidateAssert, Put, PutFails, AssertFact, Get, Look, AskHeld, Erase,
           AppendEvent, Fails, Remove, RemoveFails, Removing, VerifyGone, VerifyFound,
           VerifyFails, Removed, Collect, SweepOne, Swept
  <1> QED BY <1>1, <1>2

(* What a step does to the stores.                                         *)
LEMMA StoreStep ==
    ASSUME TypeOK, Phased, NEW c \in Calls, Step(c)
    PROVE  /\ \/ copies' = copies
              \/ /\ At(c, "put") /\ call[c].at \in Stores
                 /\ copies' = [copies EXCEPT ![call[c].at] = @ \cup {Fact(c)}]
              \/ /\ At(c, "remove") /\ call[c].at \in Stores
                 /\ copies' = [copies EXCEPT ![call[c].at] = @ \ {Fact(c)}]
           /\ indexed' = indexed
           /\ \/ certified' = certified
              \/ /\ At(c, "verify") /\ Fact(c) \notin indexed[call[c].at]
                 /\ certified' = certified \cup {<<Fact(c), call[c].at>>}
  BY DEF Step, ledgerVars, storeVars, Retract, Confirm, Forget, Hold, Release,
     Write, Sweep,
         Begin, ValidateAssert, Proceed, Refused, Put, PutFails, AssertFact, Get, Look,
         AskHeld, Erase, AppendEvent, Fails, Remove, RemoveFails, VerifyGone, VerifyFound,
         VerifyFails, Removed, Collect, SweepOne, Swept, Removing

(* The index changes with no call.                                         *)
LEMMA Cases ==
    ASSUME [Next]_vars
    PROVE  \/ \E c \in Calls : Step(c)
           \/ \E s \in Stores : IndexCatchesUp(s)
           \/ UNCHANGED vars
  BY DEF Next

(* Types and phases are kept by every step.                                *)
LEMMA TypeStep == TypeOK /\ Phased /\ [Next]_vars => TypeOK' /\ Phased'
  <1> SUFFICES ASSUME TypeOK, Phased, [Next]_vars PROVE TypeOK' /\ Phased'
    OBVIOUS
  <1>1. ASSUME NEW c \in Calls, Step(c) PROVE TypeOK' /\ Phased'
    <2>1. /\ call'[c] \in CallType /\ Sound(c, call'[c])
          /\ call' = [call EXCEPT ![c] = call'[c]]
          /\ call'[c].pc # "idle" /\ call'[c].began <= Len(events)
      BY <1>1, CallStep
    <2>2. call \in [Calls -> CallType] /\ events \in Seq(EventType)
      BY DEF TypeOK, CallType, EventType
    <2>3. call' \in [Calls -> CallType]
      BY <2>1, <2>2
    <2>4. events' \in Seq(EventType) /\ Len(events) \in Nat /\ Len(events') \in Nat
          /\ Len(events) <= Len(events')
      <3>1. CASE events' = events
        BY <3>1, <2>2
      <3>2. CASE At(c, "append") /\ events' = Append(events, Event(c))
        <4>1. Event(c) \in EventType
          BY <3>2, EventTyped
        <4> QED BY <4>1, <3>2, <2>2
      <3> QED BY <3>1, <3>2, <1>1, LedgerStep
    <2>5. erased' \subseteq Facts
      BY <1>1, LedgerStep DEF TypeOK, Phased, Sound, Working, At, Fact
    <2>6. current' \in Calls \cup {None}
      BY <1>1, LedgerStep DEF TypeOK
    <2>7. copies' \in [Stores -> SUBSET Facts] /\ indexed' \in [Stores -> SUBSET Facts]
      BY <1>1, StoreStep DEF TypeOK, Phased, Sound, Working, At, Fact
    <2>8. certified' \subseteq Facts \X Stores
      <3>1. At(c, "verify") => Fact(c) \in Facts /\ call[c].at \in Stores
        BY DEF Phased, Sound, Working, At, Fact
      <3> QED BY <3>1, <1>1, StoreStep DEF TypeOK
    <2>9. TypeOK'
      BY <2>3, <2>4, <2>5, <2>6, <2>7, <2>8 DEF TypeOK, CallType, EventType
    <2>10. ASSUME NEW d \in Calls
           PROVE  /\ Sound(d, call'[d]) /\ call'[d].began <= Len(events')
                  /\ call'[d].pc # "idle" => current' \in Calls
      <3>1. CASE d = c
        <4>1. call'[c].began <= Len(events')
          BY <2>1, <2>4 DEF CallType
        <4>2. current' \in Calls
          BY <1>1, LedgerStep DEF Phased
        <4> QED BY <3>1, <2>1, <4>1, <4>2
      <3>2. CASE d # c
        <4>1. call'[d] = call[d] /\ current' \in {current, c}
          BY <3>2, <1>1, OthersStand, LedgerStep
        <4>2. Sound(d, call[d]) /\ call[d].began <= Len(events) /\ call[d].began \in Nat
              /\ (call[d].pc # "idle" => current \in Calls)
          BY <2>2 DEF Phased, At, CallType
        <4> QED BY <4>1, <4>2, <2>4
      <3> QED BY <3>1, <3>2
    <2> QED BY <2>9, <2>10 DEF Phased, At
  <1>2. ASSUME NEW s \in Stores, IndexCatchesUp(s) PROVE TypeOK' /\ Phased'
    BY <1>2 DEF IndexCatchesUp, TypeOK, Phased, At, ledgerVars
  <1>3. CASE UNCHANGED vars
    BY <1>3 DEF vars, ledgerVars, storeVars, TypeOK, Phased, At
  <1> QED BY <1>1, <1>2, <1>3, Cases

LEMMA TypeInit == Init => TypeOK /\ Phased
  <1> SUFFICES ASSUME Init PROVE TypeOK /\ Phased
    OBVIOUS
  <1> USE DEF Init
  <1>1. Past \in Facts /\ Calls \subseteq Facts /\ NumStores \in Nat /\ Attempts \in Nat \ {0}
    BY MemoryAssumption DEF Facts
  <1>2. events \in Seq(EventType)
    BY <1>1 DEF EventType, Kinds
  <1>3. Idle \in CallType
    <2>1. 1 \in 1..(NumStores + 1) /\ 0 \in 0..(Attempts - 1)
      BY <1>1
    <2> QED BY <2>1 DEF Idle, NewCall, CallType, Pcs
  <1>4. TypeOK
    BY <1>1, <1>2, <1>3 DEF TypeOK, CallType, EventType
  <1>5. ASSUME NEW c \in Calls PROVE Sound(c, call[c]) /\ call[c].began <= Len(events) /\ At(c, "idle")
    BY <1>2 DEF Sound, Idle, NewCall, Working, At
  <1> QED BY <1>4, <1>5 DEF Phased

(* The server's state stays well formed, whatever calls run beside each    *)
(* other and whichever of their steps fail.                                *)
THEOREM TypeCorrect == Spec => []TypeOK
  <1>1. Spec => [](TypeOK /\ Phased)
    BY TypeInit, TypeStep, PTL DEF Spec
  <1> QED BY <1>1, PTL

-----------------------------------------------------------------------------
(* How a call comes to each phase.                                         *)

(* It works on what it began with, but for a sweep, which goes from fact   *)
(* to fact.                                                                *)
SameWork(c) ==
    /\ At(c, "idle") => /\ call'[c].began = Len(events) /\ call'[c].kept = {}
                        /\ call'[c].pc \in {"validate", "look", "get", "held?", "collect"}
    /\ ~At(c, "idle") => /\ call'[c].op = call[c].op /\ call'[c].old = call[c].old
                         /\ call'[c].began = call[c].began
                         /\ call'[c].fact = call[c].fact \/ At(c, "sweep")
    /\ At(c, "sweep") => call'[c].pc \notin {"held?", "erase", "append", "remove", "verify"}
    /\ call'[c].pc = "validate" => At(c, "idle")

(* A write comes to the stores one after the other, its checks made.       *)
IntoPut(c) ==
    call'[c].pc = "put" =>
        /\ call[c].op = "write"
        /\ \/ At(c, "validate") /\ call'[c].at = call[c].at /\ copies' = copies
           \/ /\ At(c, "put") /\ call[c].at \in Stores /\ call'[c].at = call[c].at + 1
              /\ copies' = [copies EXCEPT ![call[c].at] = @ \cup {Fact(c)}]

(* Whether the fact is on hold is asked when it was found in the ledger.   *)
IntoHeld(c) ==
    call'[c].pc = "held?" =>
        \/ call'[c].op = "release"
        \/ At(c, "look") /\ AssertedIn(events, Fact(c))

IntoErase(c) ==
    call'[c].pc = "erase" => At(c, "held?") /\ ~HeldIn(events, Fact(c))

(* An event is to be appended when every check has passed, and in a forget *)
(* the value is gone.                                                      *)
IntoAppend(c) ==
    call'[c].pc = "append" =>
        \/ /\ At(c, "put") /\ call[c].at \notin Stores /\ Supersedable(call[c].old)
           /\ copies' = copies
        \/ At(c, "look") /\ call[c].op \notin Forgetting /\ AssertedIn(events, Fact(c))
        \/ At(c, "held?") /\ call[c].op \in {"hold", "release"}
        \/ At(c, "erase") /\ erased' = erased \cup {Fact(c)}

(* The stores are gone through when the event is in the log; one that      *)
(* fails is noted.                                                         *)
IntoRemove(c) ==
    call'[c].pc = "remove" =>
        \/ /\ At(c, "append") /\ call'[c].at = 1
           /\ events' = Append(events, Event(c)) /\ copies' = copies
        \/ /\ At(c, "remove") /\ call'[c].at = call[c].at + 1
           /\ call[c].at \in Stores /\ call'[c].kept = call[c].kept \cup {call[c].at}
        \/ /\ At(c, "verify") /\ call'[c].at = call[c].at + 1
           /\ call'[c].kept = call[c].kept /\ copies' = copies

IntoVerify(c) ==
    call'[c].pc = "verify" =>
        /\ call'[c].at = call[c].at /\ call'[c].kept = call[c].kept
        /\ \/ At(c, "verify") /\ copies' = copies
           \/ /\ At(c, "remove") /\ call[c].at \in Stores
              /\ copies' = [copies EXCEPT ![call[c].at] = @ \ {Fact(c)}]

(* A removal is done when every store has been gone through, and none      *)
(* failed.                                                                 *)
IntoDone(c) ==
    call'[c].pc = "done" /\ call[c].op \in {"retract", "forget"} =>
        /\ At(c, "remove") /\ call[c].at \notin Stores /\ call[c].kept = {}
        /\ copies' = copies

Path(c) ==
    /\ SameWork(c) /\ IntoPut(c) /\ IntoHeld(c) /\ IntoErase(c)
    /\ IntoAppend(c) /\ IntoRemove(c) /\ IntoVerify(c) /\ IntoDone(c)

LEMMA PathStep ==
    ASSUME TypeOK, Phased, NEW c \in Calls, Step(c)
    PROVE  Path(c)
  <1>a. call \in [Calls -> CallType] /\ call[c] \in CallType /\ Sound(c, call[c])
    BY DEF TypeOK, CallType, Phased
  <1> USE DEF Path, SameWork, IntoPut, IntoHeld, IntoErase, IntoAppend, IntoRemove,
              IntoVerify, IntoDone, At, Fact, ledgerVars, storeVars
  <1>1. ASSUME NEW f \in Facts, Retract(c, f) PROVE Path(c)
    BY <1>1, <1>a DEF Retract, CallType, Sound, Forgetting, TakingBack, Begin, NewCall
  <1>2. ASSUME NEW f \in Facts, Confirm(c, f) PROVE Path(c)
    BY <1>2, <1>a DEF Confirm, CallType, Sound, Forgetting, TakingBack, Begin, NewCall
  <1>3. ASSUME NEW f \in Facts, Forget(c, f) PROVE Path(c)
    BY <1>3, <1>a DEF Forget, CallType, Sound, Forgetting, TakingBack, Begin, NewCall
  <1>4. ASSUME NEW f \in Facts, Hold(c, f) PROVE Path(c)
    BY <1>4, <1>a DEF Hold, CallType, Sound, Forgetting, TakingBack, Begin, NewCall
  <1>5. ASSUME NEW f \in Facts, Release(c, f) PROVE Path(c)
    BY <1>5, <1>a DEF Release, CallType, Sound, Forgetting, TakingBack, Begin, NewCall
  <1>6. ASSUME NEW f \in Facts \cup {None}, Write(c, f) PROVE Path(c)
    BY <1>6, <1>a DEF Write, CallType, Sound, Forgetting, TakingBack, Begin, NewCall
  <1>7. CASE Sweep(c)
    BY <1>7, <1>a DEF Sweep, CallType, Sound, Forgetting, TakingBack, Begin, NewCall
  <1>8. CASE ValidateAssert(c)
    BY <1>8, <1>a DEF ValidateAssert, CallType, Sound, Forgetting, TakingBack,
       Proceed, Refused, Goto
  <1>9. CASE PutFails(c)
    BY <1>9, <1>a DEF PutFails, CallType, Sound, Forgetting, TakingBack, Goto
  <1>10. CASE AssertFact(c)
    BY <1>10, <1>a DEF AssertFact, CallType, Sound, Forgetting, TakingBack,
       Proceed, Refused, Goto
  <1>11. CASE Look(c)
    BY <1>11, <1>a DEF Look, CallType, Sound, Forgetting, TakingBack, Proceed,
       Refused, Goto, Allowed
  <1>12. CASE AskHeld(c)
    BY <1>12, <1>a DEF AskHeld, CallType, Sound, Forgetting, TakingBack, Proceed,
       Refused, Goto, HeldAllows
  <1>13. CASE Erase(c)
    BY <1>13, <1>a DEF Erase, CallType, Sound, Forgetting, TakingBack, Goto
  <1>14. CASE Fails(c)
    BY <1>14, <1>a DEF Fails, CallType, Sound, Forgetting, TakingBack, Goto, Ended
  <1>15. CASE Removed(c)
    BY <1>15, <1>a DEF Removed, CallType, Sound, Forgetting, TakingBack, Proceed,
       Goto, Outcome
  <1>16. CASE Swept(c)
    BY <1>16, <1>a DEF Swept, CallType, Sound, Forgetting, TakingBack, Proceed,
       Goto, Outcome
  <1>17. CASE Put(c)
    BY <1>17, <1>a DEF Put, CallType, Sound, Forgetting, TakingBack
  <1>18. CASE Get(c)
    BY <1>18, <1>a DEF Get, CallType, Sound, Forgetting, TakingBack
  <1>19. CASE AppendEvent(c)
    BY <1>19, <1>a DEF AppendEvent, CallType, Sound, Forgetting, TakingBack, Goto
  <1>20. CASE Remove(c)
    BY <1>20, <1>a DEF Remove, CallType, Sound, Forgetting, TakingBack, Removing
  <1>21. CASE RemoveFails(c)
    BY <1>21, <1>a DEF RemoveFails, CallType, Sound, Forgetting, TakingBack, Removing
  <1>22. CASE VerifyGone(c)
    BY <1>22, <1>a DEF VerifyGone, CallType, Sound, Forgetting, TakingBack, NextStore
  <1>23. CASE VerifyFound(c)
    BY <1>23, <1>a DEF VerifyFound, CallType, Sound, Forgetting, TakingBack, NextStore
  <1>24. CASE VerifyFails(c)
    BY <1>24, <1>a DEF VerifyFails, CallType, Sound, Forgetting, TakingBack, NextStore
  <1>25. ASSUME NEW k \in 0..Len(events), Collect(c, k) PROVE Path(c)
    BY <1>25, <1>a DEF Collect, CallType, Sound, Forgetting, TakingBack
  <1>26. ASSUME NEW f \in Facts, SweepOne(c, f) PROVE Path(c)
    BY <1>26, <1>a DEF SweepOne, CallType, Sound, Forgetting, TakingBack
  <1> QED
    BY <1>1, <1>2, <1>3, <1>4, <1>5, <1>6, <1>7, <1>8, <1>9, <1>10, <1>11, <1>12,
       <1>13, <1>14, <1>15, <1>16, <1>17, <1>18, <1>19, <1>20, <1>21, <1>22,
       <1>23, <1>24, <1>25, <1>26 DEF Step

-----------------------------------------------------------------------------
(* The ledger.                                                             *)

(* What one more event changes.                                            *)
LEMMA Appended ==
    ASSUME NEW E \in Seq(EventType), NEW e \in EventType, NEW E2, E2 = Append(E, e)
    PROVE  /\ \A f : AssertedIn(E2, f) <=> AssertedIn(E, f) \/ (e.kind = "assert" /\ e.fact = f)
           /\ \A f : RetractedIn(E2, f) <=>
                         RetractedIn(E, f) \/ (e.kind \in {"retract", "forget"} /\ e.fact = f)
           /\ \A f : ForgottenIn(E2, f) <=> ForgottenIn(E, f) \/ (e.kind = "forget" /\ e.fact = f)
           /\ \A f : \A k \in ReplacementsIn(E2, f) :
                 \/ k \in ReplacementsIn(E, f) /\ k \in DOMAIN E
                 \/ k = Len(E) + 1 /\ e.kind = "assert" /\ e.supersedes = f
           /\ \A n \in 0..Len(E) : SubSeq(E2, 1, n) = SubSeq(E, 1, n)
  <1>1. /\ E2 \in Seq(EventType) /\ Len(E) \in Nat /\ Len(E2) = Len(E) + 1
        /\ DOMAIN E = 1..Len(E) /\ DOMAIN E2 = 1..(Len(E) + 1)
        /\ \A k \in DOMAIN E : E2[k] = E[k]
        /\ E2[Len(E) + 1] = e
    OBVIOUS
  <1>2. /\ \A k \in DOMAIN E : k \in DOMAIN E2 /\ k # Len(E) + 1
        /\ Len(E) + 1 \in DOMAIN E2
        /\ \A k \in DOMAIN E2 : k \in DOMAIN E \/ k = Len(E) + 1
    BY <1>1
  <1>3. \A f : AssertedIn(E2, f) <=> AssertedIn(E, f) \/ (e.kind = "assert" /\ e.fact = f)
    BY <1>1, <1>2, Zenon DEF AssertedIn
  <1>4. \A f : RetractedIn(E2, f) <=>
                   RetractedIn(E, f) \/ (e.kind \in {"retract", "forget"} /\ e.fact = f)
    BY <1>1, <1>2, Zenon DEF RetractedIn
  <1>5. \A f : ForgottenIn(E2, f) <=> ForgottenIn(E, f) \/ (e.kind = "forget" /\ e.fact = f)
    BY <1>1, <1>2, Zenon DEF ForgottenIn
  <1>6. ASSUME NEW f, NEW k \in ReplacementsIn(E2, f)
        PROVE  \/ k \in ReplacementsIn(E, f) /\ k \in DOMAIN E
               \/ k = Len(E) + 1 /\ e.kind = "assert" /\ e.supersedes = f
    <2>1. k \in DOMAIN E2 /\ E2[k].kind = "assert" /\ E2[k].supersedes = f
          /\ ~RetractedIn(E2, E2[k].fact)
      BY DEF ReplacementsIn
    <2>2. CASE k \in DOMAIN E
      <3>1. E2[k] = E[k] /\ ~RetractedIn(E, E[k].fact)
        BY <2>1, <2>2, <1>1, <1>4
      <3> QED BY <2>1, <2>2, <3>1 DEF ReplacementsIn
    <2>3. CASE k = Len(E) + 1
      BY <2>1, <2>3, <1>1
    <2> QED BY <2>1, <2>2, <2>3, <1>2
  <1>7. \A n \in 0..Len(E) : SubSeq(E2, 1, n) = SubSeq(E, 1, n)
    <2> TAKE n \in 0..Len(E)
    <2>1. SubSeq(E2, 1, n) = [i \in 1..n |-> E2[i]] /\ SubSeq(E, 1, n) = [i \in 1..n |-> E[i]]
      BY <1>1
    <2>2. \A i \in 1..n : E2[i] = E[i]
      BY <1>1
    <2> QED BY <2>1, <2>2
  <1> QED BY <1>3, <1>4, <1>5, <1>6, <1>7

(* What a call adds to the log is what it is there to add.                 *)
LEMMA Growth ==
    ASSUME TypeOK, Phased, NEW c \in Calls, Step(c)
    PROVE  /\ \A f : AssertedIn(events, f) => AssertedIn(events', f)
           /\ \A f : RetractedIn(events, f) => RetractedIn(events', f)
           /\ \A f : AssertedIn(events', f) =>
                 AssertedIn(events, f) \/ (At(c, "append") /\ call[c].op = "write" /\ f = c)
           /\ \A f : ForgottenIn(events', f) =>
                 \/ ForgottenIn(events, f)
                 \/ At(c, "append") /\ call[c].op \in Forgetting /\ f = Fact(c)
           /\ call[c].op \in TakingBack /\ events' = Append(events, Event(c)) /\ At(c, "append")
                 => RetractedIn(events', Fact(c))
           /\ erased \subseteq erased'
  <1>1. CASE events' = events /\ ~At(c, "append")
    BY <1>1, LedgerStep
  <1>2. CASE events' = events /\ At(c, "append")
    <2>1. events \in Seq(EventType) /\ Event(c) \in EventType
      BY <1>2, EventTyped DEF TypeOK, EventType
    <2>2. Append(events, Event(c)) # events
      BY <2>1
    <2> QED BY <1>2, <2>2, LedgerStep
  <1>3. CASE At(c, "append") /\ events' = Append(events, Event(c))
    <2>1. events \in Seq(EventType) /\ Event(c) \in EventType
      BY <1>3, EventTyped DEF TypeOK, EventType
    <2>2. /\ \A f : AssertedIn(events', f) <=>
                AssertedIn(events, f) \/ (Event(c).kind = "assert" /\ Event(c).fact = f)
          /\ \A f : RetractedIn(events', f) <=>
                RetractedIn(events, f) \/ (Event(c).kind \in {"retract", "forget"} /\ Event(c).fact = f)
          /\ \A f : ForgottenIn(events', f) <=>
                ForgottenIn(events, f) \/ (Event(c).kind = "forget" /\ Event(c).fact = f)
      BY <2>1, <1>3, Appended, Zenon
    <2>3. /\ Event(c).fact = Fact(c)
          /\ Event(c).kind = "assert" => call[c].op = "write"
          /\ Event(c).kind = "forget" => call[c].op \in Forgetting
          /\ call[c].op \in TakingBack => Event(c).kind \in {"retract", "forget"}
      BY <1>3 DEF Event, Phased, Sound, At, Ops, Forgetting, TakingBack
    <2>4. call[c].op = "write" => Fact(c) = c
      BY DEF Phased, Sound, Fact
    <2>5. erased \subseteq erased'
      BY LedgerStep
    <2> QED BY <1>3, <2>2, <2>3, <2>4, <2>5
  <1> QED BY <1>1, <1>2, <1>3, LedgerStep

(* A fact is asserted by its own write only; what is taken back was        *)
(* asserted before; a forget erases before it is recorded.                 *)
Fresh(c) ==
    At(c, "idle") \/ (call[c].op = "write" /\ call[c].pc \in {"validate", "put", "append"})

LedgerInv ==
    /\ \A c \in Calls :
        /\ Fresh(c) => ~AssertedIn(events, c)
        /\ call[c].op \in TakingBack
           /\ call[c].pc \in {"held?", "erase", "append", "remove", "verify"}
              => AssertedIn(events, Fact(c))
        /\ call[c].op \in Forgetting /\ call[c].pc \in {"append", "remove", "verify"}
              => Fact(c) \in erased
        /\ call[c].op = "forget" /\ At(c, "done") => Fact(c) \in erased
        /\ call[c].pc \in {"remove", "verify"} => RetractedIn(events, Fact(c))
        /\ call[c].op \in {"retract", "forget"} /\ At(c, "done")
              => RetractedIn(events, Fact(c)) /\ AssertedIn(events, Fact(c))
    /\ ForgottenIsErased

LEMMA LedgerInvInit == Init => LedgerInv
  <1> SUFFICES ASSUME Init PROVE LedgerInv
    OBVIOUS
  <1>1. \A c \in Calls : call[c] = Idle
    BY DEF Init
  <1>2. /\ \A c \in Calls : ~AssertedIn(events, c)
        /\ \A f : ~ForgottenIn(events, f)
    BY MemoryAssumption DEF Init, AssertedIn, ForgottenIn
  <1> QED BY <1>1, <1>2 DEF LedgerInv, Fresh, ForgottenIsErased, Idle, NewCall,
             At, TakingBack, Forgetting

LEMMA LedgerInvStep == TypeOK /\ Phased /\ LedgerInv /\ [Next]_vars => LedgerInv'
  <1> SUFFICES ASSUME TypeOK, Phased, LedgerInv, [Next]_vars PROVE LedgerInv'
    OBVIOUS
  <1>1. ASSUME NEW c \in Calls, Step(c) PROVE LedgerInv'
    <2>g. /\ \A f : AssertedIn(events, f) => AssertedIn(events', f)
          /\ \A f : RetractedIn(events, f) => RetractedIn(events', f)
          /\ \A f : AssertedIn(events', f) =>
                AssertedIn(events, f) \/ (At(c, "append") /\ call[c].op = "write" /\ f = c)
          /\ \A f : ForgottenIn(events', f) =>
                \/ ForgottenIn(events, f)
                \/ At(c, "append") /\ call[c].op \in Forgetting /\ f = Fact(c)
          /\ call[c].op \in TakingBack /\ events' = Append(events, Event(c)) /\ At(c, "append")
                => RetractedIn(events', Fact(c))
          /\ erased \subseteq erased'
      BY <1>1, Growth
    <2>p. /\ Path(c) /\ Sound(c, call[c]) /\ Sound(c, call'[c]) /\ call'[c].pc # "idle"
      BY <1>1, PathStep, CallStep DEF Phased
    <2>1. ForgottenIsErased'
      BY <2>g DEF LedgerInv, ForgottenIsErased, At
    <2>2. ASSUME NEW d \in Calls, d # c
          PROVE  /\ Fresh(d)' => ~AssertedIn(events', d)
                 /\ call'[d].op \in TakingBack
                    /\ call'[d].pc \in {"held?", "erase", "append", "remove", "verify"}
                       => AssertedIn(events', Fact(d)')
                 /\ call'[d].op \in Forgetting /\ call'[d].pc \in {"append", "remove", "verify"}
                       => Fact(d)' \in erased'
                 /\ call'[d].op = "forget" /\ At(d, "done")' => Fact(d)' \in erased'
                 /\ call'[d].pc \in {"remove", "verify"} => RetractedIn(events', Fact(d)')
                 /\ call'[d].op \in {"retract", "forget"} /\ At(d, "done")'
                       => RetractedIn(events', Fact(d)') /\ AssertedIn(events', Fact(d)')
      <3>1. call'[d] = call[d]
        BY <1>1, <2>2, OthersStand
      <3> QED BY <3>1, <2>2, <2>g DEF LedgerInv, Fresh, At, Fact
    <2>3. Fresh(c)' => ~AssertedIn(events', c)
      <3> SUFFICES ASSUME Fresh(c)' PROVE ~AssertedIn(events', c)
        OBVIOUS
      <3>1. call'[c].op = "write" /\ call'[c].pc \in {"validate", "put", "append"}
        BY <2>p DEF Fresh, At
      <3>2. Fresh(c) /\ ~At(c, "append")
        BY <3>1, <2>p DEF Path, SameWork, IntoPut, IntoAppend, Fresh, At, Sound,
           Forgetting
      <3> QED BY <3>2, <2>g DEF LedgerInv
    <2>4. call'[c].op \in TakingBack
            /\ call'[c].pc \in {"held?", "erase", "append", "remove", "verify"}
              => AssertedIn(events', Fact(c)')
      <3> SUFFICES ASSUME call'[c].op \in TakingBack,
                          call'[c].pc \in {"held?", "erase", "append", "remove", "verify"}
                   PROVE  AssertedIn(events', Fact(c)')
        OBVIOUS
      <3>1. /\ call'[c].op = call[c].op /\ Fact(c)' = Fact(c) /\ ~At(c, "idle") /\ ~At(c, "sweep")
        BY <2>p DEF Path, SameWork, IntoHeld, IntoErase, IntoAppend, IntoRemove,
           IntoVerify, At, Fact, TakingBack
      <3>2. AssertedIn(events, Fact(c))
        BY <3>1, <2>p DEF Path, IntoHeld, IntoErase, IntoAppend, IntoRemove,
           IntoVerify, At, TakingBack, Sound, LedgerInv
      <3> QED BY <3>1, <3>2, <2>g
    <2>5. /\ call'[c].op \in Forgetting /\ call'[c].pc \in {"append", "remove", "verify"}
                => Fact(c)' \in erased'
          /\ call'[c].op = "forget" /\ At(c, "done")' => Fact(c)' \in erased'
      <3>1. ASSUME call'[c].op \in Forgetting, call'[c].pc \in {"append", "remove", "verify"}
            PROVE  Fact(c)' \in erased'
        <4>1. /\ call'[c].op = call[c].op /\ Fact(c)' = Fact(c) /\ ~At(c, "idle")
          BY <3>1, <2>p DEF Path, SameWork, IntoAppend, IntoRemove, IntoVerify, At, Fact
        <4>2. Fact(c) \in erased'
          BY <3>1, <4>1, <2>p, <2>g DEF Path, IntoAppend, IntoRemove, IntoVerify,
             At, Forgetting, Sound, LedgerInv
        <4> QED BY <4>1, <4>2
      <3>2. ASSUME call'[c].op = "forget", At(c, "done")' PROVE Fact(c)' \in erased'
        <4>1. /\ call[c].op = "forget" /\ Fact(c)' = Fact(c) /\ At(c, "remove")
          BY <3>2, <2>p DEF Path, SameWork, IntoDone, At, Fact
        <4>2. Fact(c) \in erased
          BY <4>1 DEF LedgerInv, At, Forgetting
        <4> QED BY <4>1, <4>2, <2>g
      <3> QED BY <3>1, <3>2
    <2>6. /\ call'[c].pc \in {"remove", "verify"} => RetractedIn(events', Fact(c)')
          /\ call'[c].op \in {"retract", "forget"} /\ At(c, "done")'
                => RetractedIn(events', Fact(c)') /\ AssertedIn(events', Fact(c)')
      <3>1. ASSUME call'[c].pc \in {"remove", "verify"} PROVE RetractedIn(events', Fact(c)')
        <4>1. /\ call'[c].op = call[c].op /\ Fact(c)' = Fact(c)
              /\ call[c].op \in TakingBack
          BY <3>1, <2>p DEF Path, SameWork, IntoRemove, IntoVerify, At, Fact, Sound
        <4>2. RetractedIn(events', Fact(c))
          BY <3>1, <4>1, <2>p, <2>g DEF Path, IntoRemove, IntoVerify, At, LedgerInv
        <4> QED BY <4>1, <4>2
      <3>2. ASSUME call'[c].op \in {"retract", "forget"}, At(c, "done")'
            PROVE  RetractedIn(events', Fact(c)') /\ AssertedIn(events', Fact(c)')
        <4>1. /\ call[c].op \in {"retract", "forget"} /\ Fact(c)' = Fact(c) /\ At(c, "remove")
          BY <3>2, <2>p DEF Path, SameWork, IntoDone, At, Fact
        <4>2. RetractedIn(events, Fact(c)) /\ AssertedIn(events, Fact(c))
          BY <4>1 DEF LedgerInv, At, TakingBack
        <4> QED BY <4>1, <4>2, <2>g
      <3> QED BY <3>1, <3>2
    <2> QED BY <2>1, <2>2, <2>3, <2>4, <2>5, <2>6 DEF LedgerInv
  <1>2. ASSUME NEW s \in Stores, IndexCatchesUp(s) PROVE LedgerInv'
    BY <1>2 DEF IndexCatchesUp, ledgerVars, LedgerInv, Fresh, At, Fact,
       ForgottenIsErased
  <1>3. CASE UNCHANGED vars
    BY <1>3 DEF vars, ledgerVars, LedgerInv, Fresh, At, Fact, ForgottenIsErased
  <1> QED BY <1>1, <1>2, <1>3, Cases

(* A forget in the ledger's log certifies the erasure.                     *)
THEOREM ForgottenErased == Spec => []ForgottenIsErased
  <1>1. Spec => [](TypeOK /\ Phased /\ LedgerInv)
    BY TypeInit, TypeStep, LedgerInvInit, LedgerInvStep, PTL DEF Spec
  <1>2. LedgerInv => ForgottenIsErased
    BY DEF LedgerInv
  <1> QED BY <1>1, <1>2, PTL

-----------------------------------------------------------------------------
(* The stores.                                                             *)

(* A store gains only a fact that is not in the ledger yet, and loses only *)
(* one that was taken back.                                                *)
LEMMA CopiesStep ==
    ASSUME TypeOK, Phased, LedgerInv, NEW c \in Calls, Step(c), NEW s \in Stores
    PROVE  /\ \A f : f \in copies'[s] /\ f \notin copies[s] =>
                 f = c /\ At(c, "put") /\ ~AssertedIn(events, c)
           /\ \A f : f \in copies[s] /\ f \notin copies'[s] =>
                 f = Fact(c) /\ RetractedIn(events, f) /\ AssertedIn(events, f)
  <1>1. copies \in [Stores -> SUBSET Facts] /\ Sound(c, call[c])
    BY DEF TypeOK, Phased
  <1>2. CASE copies' = copies
    BY <1>2
  <1>3. CASE /\ At(c, "put") /\ call[c].at \in Stores
             /\ copies' = [copies EXCEPT ![call[c].at] = @ \cup {Fact(c)}]
    <2>1. Fact(c) = c /\ Fresh(c)
      BY <1>1, <1>3 DEF Sound, Fact, Fresh, At
    <2> QED BY <2>1, <1>1, <1>3 DEF LedgerInv
  <1>4. CASE /\ At(c, "remove") /\ call[c].at \in Stores
             /\ copies' = [copies EXCEPT ![call[c].at] = @ \ {Fact(c)}]
    <2>1. RetractedIn(events, Fact(c)) /\ AssertedIn(events, Fact(c))
      BY <1>1, <1>4 DEF Sound, LedgerInv, At
    <2> QED BY <2>1, <1>1, <1>4
  <1> QED BY <1>2, <1>3, <1>4, StoreStep

(* A write has reached the stores before its store, a removal has emptied  *)
(* those that did not fail, and a verified removal is for good.            *)
Reached(c) ==
    /\ At(c, "put") => \A s \in Stores : s < call[c].at => c \in copies[s]
    /\ At(c, "append") /\ call[c].op = "write" => \A s \in Stores : c \in copies[s]
Emptied(c) ==
    /\ At(c, "verify") => Fact(c) \notin copies[call[c].at]
    /\ call[c].pc \in {"remove", "verify"} =>
          \A s \in Stores : s < call[c].at /\ s \notin call[c].kept => Fact(c) \notin copies[s]
    /\ At(c, "done") /\ call[c].op \in {"retract", "forget"} =>
          \A s \in Stores : Fact(c) \notin copies[s]
Gone ==
    \A p \in certified :
        AssertedIn(events, p[1]) /\ p[1] \notin copies[p[2]] /\ p[1] \notin indexed[p[2]]

StoreInv ==
    /\ \A c \in Calls : Reached(c) /\ Emptied(c)
    /\ WrittenThrough
    /\ Gone

LEMMA StoreInvInit == Init => StoreInv
  <1> SUFFICES ASSUME Init PROVE StoreInv
    OBVIOUS
  <1>1. \A c \in Calls : Reached(c) /\ Emptied(c)
    BY DEF Init, Idle, NewCall, At, Reached, Emptied
  <1>2. WrittenThrough
    <2>1. \A f : AssertedIn(events, f) => f = Past
      BY DEF Init, AssertedIn
    <2> QED BY <2>1 DEF Init, WrittenThrough
  <1>3. Gone
    BY DEF Init, Gone
  <1> QED BY <1>1, <1>2, <1>3 DEF StoreInv

LEMMA StoreInvStep == TypeOK /\ Phased /\ LedgerInv /\ StoreInv /\ [Next]_vars => StoreInv'
  <1> SUFFICES ASSUME TypeOK, Phased, LedgerInv, StoreInv, [Next]_vars PROVE StoreInv'
    OBVIOUS
  <1>1. ASSUME NEW c \in Calls, Step(c) PROVE StoreInv'
    <2>g. /\ \A f : AssertedIn(events, f) => AssertedIn(events', f)
          /\ \A f : RetractedIn(events, f) => RetractedIn(events', f)
          /\ \A f : AssertedIn(events', f) =>
                AssertedIn(events, f) \/ (At(c, "append") /\ call[c].op = "write" /\ f = c)
      BY <1>1, Growth
    <2>p. /\ Path(c) /\ Sound(c, call[c]) /\ Sound(c, call'[c]) /\ call'[c].pc # "idle"
          /\ call[c] \in CallType /\ call'[c] \in CallType
      BY <1>1, PathStep, CallStep DEF Phased, TypeOK, CallType
    <2>s. ASSUME NEW s \in Stores
          PROVE  /\ \A f : f \in copies'[s] /\ f \notin copies[s] =>
                       f = c /\ At(c, "put") /\ ~AssertedIn(events, c)
                 /\ \A f : f \in copies[s] /\ f \notin copies'[s] =>
                       f = Fact(c) /\ RetractedIn(events, f) /\ AssertedIn(events, f)
      BY <1>1, CopiesStep
    <2>d. copies \in [Stores -> SUBSET Facts]
      BY DEF TypeOK
    <2>1. ASSUME NEW d \in Calls, d # c PROVE Reached(d)' /\ Emptied(d)'
      <3>1. call'[d] = call[d]
        BY <1>1, <2>1, OthersStand
      <3>2. Reached(d)'
        <4>1. Fresh(d) => ~AssertedIn(events, d)
          BY DEF LedgerInv
        <4>2. \A s \in Stores : Fresh(d) /\ d \in copies[s] => d \in copies'[s]
          BY <4>1, <2>s
        <4> QED BY <3>1, <4>2 DEF StoreInv, Reached, Fresh, At, Sound, Phased
      <3>3. Emptied(d)'
        <4>1. call[d].pc \in {"remove", "verify"} \/ (At(d, "done") /\ call[d].op \in {"retract", "forget"})
                => AssertedIn(events, Fact(d))
          BY DEF LedgerInv, Phased, Sound, At
        <4>2. \A s \in Stores : AssertedIn(events, Fact(d)) /\ Fact(d) \notin copies[s]
                => Fact(d) \notin copies'[s]
          BY <2>s
        <4>3. At(d, "verify") => call[d].at \in Stores
          BY DEF Phased, Sound, At
        <4> QED BY <3>1, <4>1, <4>2, <4>3 DEF StoreInv, Emptied, At, Fact
      <3> QED BY <3>2, <3>3
    <2>2. Reached(c)'
      <3>1. ASSUME At(c, "put")', NEW s \in Stores, s < call'[c].at PROVE c \in copies'[s]
        <4>1. CASE At(c, "validate") /\ call'[c].at = call[c].at
          BY <4>1, <3>1, <2>p DEF Sound, At, CallType, Stores
        <4>2. CASE /\ At(c, "put") /\ call[c].at \in Stores /\ call'[c].at = call[c].at + 1
                   /\ copies' = [copies EXCEPT ![call[c].at] = @ \cup {Fact(c)}]
          <5>1. Fact(c) = c
            BY <4>2, <2>p DEF Sound, Fact, At
          <5>2. CASE s = call[c].at
            BY <5>1, <5>2, <4>2, <2>d
          <5>3. CASE s < call[c].at
            BY <5>3, <4>2, <2>d DEF StoreInv, Reached
          <5> QED BY <5>2, <5>3, <4>2, <3>1 DEF Stores
        <4> QED BY <4>1, <4>2, <3>1, <2>p DEF Path, IntoPut, At
      <3>2. ASSUME At(c, "append")', call'[c].op = "write", NEW s \in Stores PROVE c \in copies'[s]
        <4>1. At(c, "put") /\ call[c].at \notin Stores /\ copies' = copies
          BY <3>2, <2>p DEF Path, SameWork, IntoAppend, At, Sound, Forgetting
        <4>2. s < call[c].at
          BY <4>1, <2>p, MemoryAssumption DEF CallType, Stores
        <4> QED BY <4>1, <4>2 DEF StoreInv, Reached
      <3> QED BY <3>1, <3>2 DEF Reached
    <2>3. Emptied(c)'
      <3>1. ASSUME At(c, "verify")' PROVE Fact(c)' \notin copies'[call'[c].at]
        <4>1. Fact(c)' = Fact(c) /\ call'[c].at = call[c].at /\ call[c].at \in Stores
          BY <3>1, <2>p DEF Path, SameWork, IntoVerify, At, Fact, Sound
        <4>2. Fact(c) \notin copies'[call[c].at]
          BY <4>1, <3>1, <2>p, <2>d DEF Path, IntoVerify, At, StoreInv, Emptied
        <4> QED BY <4>1, <4>2
      <3>2. ASSUME call'[c].pc = "verify", NEW s \in Stores, s < call'[c].at, s \notin call'[c].kept
            PROVE  Fact(c)' \notin copies'[s]
        <4>1. /\ Fact(c)' = Fact(c) /\ call[c].pc \in {"remove", "verify"}
              /\ s < call[c].at /\ s \notin call[c].kept
          BY <3>2, <2>p DEF Path, SameWork, IntoVerify, At, Fact
        <4>2. Fact(c) \notin copies[s] /\ ~At(c, "put")
          BY <4>1 DEF StoreInv, Emptied, At
        <4> QED BY <4>1, <4>2, <2>s
      <3>3. ASSUME call'[c].pc = "remove", NEW s \in Stores, s < call'[c].at, s \notin call'[c].kept
            PROVE  Fact(c)' \notin copies'[s]
        <4>0. call'[c].at \in Nat /\ call[c].at \in Nat /\ s \in Nat /\ s >= 1
          BY <2>p, MemoryAssumption DEF CallType, Stores
        <4>1. CASE At(c, "append") /\ call'[c].at = 1
          BY <4>0, <4>1, <3>3
        <4>2. CASE /\ At(c, "remove") /\ call'[c].at = call[c].at + 1
                   /\ call'[c].kept = call[c].kept \cup {call[c].at}
          <5>1. s < call[c].at /\ s \notin call[c].kept /\ Fact(c)' = Fact(c)
            BY <4>0, <4>2, <3>3, <2>p DEF Path, SameWork, At, Fact
          <5>2. Fact(c) \notin copies[s] /\ ~At(c, "put")
            BY <5>1, <4>2 DEF StoreInv, Emptied, At
          <5> QED BY <5>1, <5>2, <2>s
        <4>3. CASE /\ At(c, "verify") /\ call'[c].at = call[c].at + 1
                   /\ call'[c].kept = call[c].kept /\ copies' = copies
          <5>1. s <= call[c].at /\ s \notin call[c].kept /\ Fact(c)' = Fact(c)
            BY <4>0, <4>3, <3>3, <2>p DEF Path, SameWork, At, Fact
          <5>2. CASE s = call[c].at
            BY <5>1, <5>2, <4>3 DEF StoreInv, Emptied
          <5>3. CASE s < call[c].at
            BY <5>1, <5>3, <4>3 DEF StoreInv, Emptied, At
          <5> QED BY <5>1, <5>2, <5>3, <4>0
        <4> QED BY <4>1, <4>2, <4>3, <3>3, <2>p DEF Path, IntoRemove
      <3>4. ASSUME At(c, "done")', call'[c].op \in {"retract", "forget"}, NEW s \in Stores
            PROVE  Fact(c)' \notin copies'[s]
        <4>1. /\ Fact(c)' = Fact(c) /\ At(c, "remove") /\ call[c].at \notin Stores
              /\ call[c].kept = {} /\ copies' = copies
          BY <3>4, <2>p DEF Path, SameWork, IntoDone, At, Fact
        <4>2. s < call[c].at
          BY <4>1, <2>p, MemoryAssumption DEF CallType, Stores
        <4> QED BY <4>1, <4>2 DEF StoreInv, Emptied, At
      <3> QED BY <3>1, <3>2, <3>3, <3>4 DEF Emptied, At
    <2>4. WrittenThrough'
      <3> SUFFICES ASSUME NEW f \in Facts, AssertedIn(events', f), ~RetractedIn(events', f), NEW s \in Stores
                   PROVE  f \in copies'[s]
        BY DEF WrittenThrough
      <3>1. ~RetractedIn(events, f)
        BY <2>g
      <3>2. f \in copies[s]
        <4>1. CASE AssertedIn(events, f)
          BY <4>1, <3>1 DEF StoreInv, WrittenThrough
        <4>2. CASE At(c, "append") /\ call[c].op = "write" /\ f = c
          BY <4>2 DEF StoreInv, Reached
        <4> QED BY <4>1, <4>2, <2>g
      <3> QED BY <3>1, <3>2, <2>s
    <2>5. Gone'
      <3> SUFFICES ASSUME NEW p \in certified'
                   PROVE  AssertedIn(events', p[1]) /\ p[1] \notin copies'[p[2]] /\ p[1] \notin indexed'[p[2]]
        BY DEF Gone
      <3>1. /\ AssertedIn(events, p[1]) /\ p[1] \notin copies[p[2]] /\ p[1] \notin indexed[p[2]]
            /\ p[2] \in Stores
        <4>1. CASE p \in certified
          BY <4>1 DEF StoreInv, Gone, TypeOK
        <4>2. CASE At(c, "verify") /\ Fact(c) \notin indexed[call[c].at] /\ p = <<Fact(c), call[c].at>>
          <5>1. Fact(c) \notin copies[call[c].at] /\ AssertedIn(events, Fact(c)) /\ call[c].at \in Stores
            BY <4>2, <2>p DEF StoreInv, Emptied, LedgerInv, Sound, At
          <5> QED BY <5>1, <4>2
        <4> QED BY <4>1, <4>2, <1>1, StoreStep
      <3>2. indexed' = indexed
        BY <1>1, StoreStep
      <3> QED BY <3>1, <3>2, <2>g, <2>s
    <2> QED BY <2>1, <2>2, <2>3, <2>4, <2>5 DEF StoreInv
  <1>2. ASSUME NEW s \in Stores, IndexCatchesUp(s) PROVE StoreInv'
    <2>1. /\ UNCHANGED <<events, copies, call, certified>>
          /\ indexed' = [indexed EXCEPT ![s] = copies[s]]
      BY <1>2 DEF IndexCatchesUp, ledgerVars
    <2>2. Gone'
      BY <2>1 DEF StoreInv, Gone, TypeOK
    <2> QED BY <2>1, <2>2 DEF StoreInv, Reached, Emptied, WrittenThrough, At, Fact
  <1>3. CASE UNCHANGED vars
    BY <1>3 DEF vars, ledgerVars, storeVars, StoreInv, Reached, Emptied,
       WrittenThrough, Gone, At, Fact
  <1> QED BY <1>1, <1>2, <1>3, Cases

LEMMA Invariant == Spec => [](TypeOK /\ Phased /\ LedgerInv /\ StoreInv)
  BY TypeInit, TypeStep, LedgerInvInit, LedgerInvStep, StoreInvInit, StoreInvStep,
     PTL DEF Spec

(* A removal reported as verified holds for good: whatever else runs, the  *)
(* store has no row of the fact and its search never returns it again.     *)
THEOREM VerifiedForGood == Spec => []VerifiedIsGone
  <1>1. StoreInv => VerifiedIsGone
    BY DEF StoreInv, Gone, VerifiedIsGone
  <1> QED BY <1>1, Invariant, PTL

(* A fact the ledger holds is in every store, until it is taken back.      *)
THEOREM StoresHaveFacts == Spec => []WrittenThrough
  <1>1. StoreInv => WrittenThrough
    BY DEF StoreInv
  <1> QED BY <1>1, Invariant, PTL

(* A retraction or a forget that is answered without an error has done all *)
(* it answers for.                                                         *)
THEOREM AnswersAreTruthful == Spec => []AnswersTruthful
  <1>1. LedgerInv /\ StoreInv => AnswersTruthful
    BY DEF LedgerInv, StoreInv, Emptied, AnswersTruthful, BelievedIn, At
  <1> QED BY <1>1, Invariant, PTL

-----------------------------------------------------------------------------
(* Holds and replacements.                                                 *)

(* A call about to erase has seen the fact not on hold since it began.     *)
Barred ==
    \A c \in Calls : At(c, "erase") =>
        \E n \in call[c].began..Len(events) : ~HeldIn(SubSeq(events, 1, n), Fact(c))

(* What is in the log stays there, and the log's beginnings with it.       *)
LEMMA EventsStep ==
    ASSUME TypeOK, Phased, NEW c \in Calls, Step(c)
    PROVE  /\ events \in Seq(EventType) /\ events' \in Seq(EventType)
           /\ Len(events) \in Nat /\ Len(events') \in Nat /\ Len(events) <= Len(events')
           /\ \A n \in 0..Len(events) : SubSeq(events', 1, n) = SubSeq(events, 1, n)
           /\ \A f : \A k \in ReplacementsIn(events', f) :
                 \/ k \in ReplacementsIn(events, f) /\ k \in DOMAIN events /\ events'[k] = events[k]
                 \/ /\ k = Len(events) + 1 /\ At(c, "append") /\ call[c].op = "write"
                    /\ call[c].old = f /\ events'[k].call = c
  <1>1. events \in Seq(EventType)
    BY DEF TypeOK, EventType
  <1>2. CASE events' = events
    BY <1>1, <1>2 DEF ReplacementsIn
  <1>3. CASE At(c, "append") /\ events' = Append(events, Event(c))
    <2>1. Event(c) \in EventType
      BY <1>3, EventTyped
    <2>2. /\ \A f : \A k \in ReplacementsIn(events', f) :
                \/ k \in ReplacementsIn(events, f) /\ k \in DOMAIN events
                \/ k = Len(events) + 1 /\ Event(c).kind = "assert" /\ Event(c).supersedes = f
          /\ \A n \in 0..Len(events) : SubSeq(events', 1, n) = SubSeq(events, 1, n)
      BY <1>1, <1>3, <2>1, Appended
    <2>3. /\ Event(c).kind = "assert" => call[c].op = "write"
          /\ Event(c).supersedes = call[c].old /\ Event(c).call = c
      BY <1>3 DEF Event, Phased, Sound, At, Ops
    <2>4. /\ events' \in Seq(EventType) /\ Len(events) \in Nat /\ Len(events') = Len(events) + 1
          /\ events'[Len(events) + 1] = Event(c)
          /\ \A k \in DOMAIN events : events'[k] = events[k]
      BY <1>1, <1>3, <2>1
    <2> QED BY <1>1, <1>3, <2>2, <2>3, <2>4
  <1> QED BY <1>2, <1>3, LedgerStep

LEMMA BarredStep == TypeOK /\ Phased /\ Barred /\ [Next]_vars => Barred'
  <1> SUFFICES ASSUME TypeOK, Phased, Barred, [Next]_vars PROVE Barred'
    OBVIOUS
  <1>1. ASSUME NEW c \in Calls, Step(c) PROVE Barred'
    <2>e. /\ events \in Seq(EventType)
          /\ Len(events) \in Nat /\ Len(events') \in Nat /\ Len(events) <= Len(events')
          /\ \A n \in 0..Len(events) : SubSeq(events', 1, n) = SubSeq(events, 1, n)
      BY <1>1, EventsStep
    <2> SUFFICES ASSUME NEW d \in Calls, At(d, "erase")'
                 PROVE  \E n \in call'[d].began..Len(events') : ~HeldIn(SubSeq(events', 1, n), Fact(d)')
      BY DEF Barred
    <2>1. call[d].began \in Nat /\ call[d].began <= Len(events)
      BY DEF Phased, TypeOK
    <2>2. PICK n \in call[d].began..Len(events) :
              /\ ~HeldIn(SubSeq(events, 1, n), Fact(d)')
              /\ call'[d].began = call[d].began
      <3>1. CASE d # c
        <4>1. call'[d] = call[d]
          BY <1>1, <3>1, OthersStand
        <4> QED BY <4>1 DEF Barred, At, Fact
      <3>2. CASE d = c
        <4>1. At(c, "held?") /\ ~HeldIn(events, Fact(c)) /\ Fact(c)' = Fact(c)
              /\ call'[c].began = call[c].began
          BY <1>1, <3>2, PathStep DEF Path, SameWork, IntoErase, At, Fact
        <4>2. SubSeq(events, 1, Len(events)) = events
          BY <2>e
        <4>3. Len(events) \in call[c].began..Len(events)
          BY <3>2, <2>1, <2>e
        <4> QED BY <3>2, <4>1, <4>2, <4>3
      <3> QED BY <3>1, <3>2
    <2>3. n \in 0..Len(events) /\ n \in call'[d].began..Len(events')
      BY <2>1, <2>2, <2>e
    <2> QED BY <2>2, <2>3, <2>e
  <1>2. ASSUME NEW s \in Stores, IndexCatchesUp(s) PROVE Barred'
    BY <1>2 DEF IndexCatchesUp, ledgerVars, Barred, At, Fact
  <1>3. CASE UNCHANGED vars
    BY <1>3 DEF vars, ledgerVars, Barred, At, Fact
  <1> QED BY <1>1, <1>2, <1>3, Cases

(* A hold that has stood since before a call began bars that call from     *)
(* erasing the fact.                                                       *)
THEOREM HoldsBar == Spec => HoldBars
  <1>1. Init => Barred
    BY DEF Init, Barred, At, Idle, NewCall
  <1>2. TypeOK /\ Phased /\ Barred /\ [Next]_vars =>
            [\A f \in erased' \ erased :
                \E c \in Calls : /\ At(c, "erase") /\ Fact(c) = f
                                 /\ ~StoodThroughout(c, f)]_vars
    <2> SUFFICES ASSUME TypeOK, Phased, Barred, [Next]_vars, NEW f \in erased' \ erased
                 PROVE  \E c \in Calls : /\ At(c, "erase") /\ Fact(c) = f
                                         /\ ~StoodThroughout(c, f)
      OBVIOUS
    <2>1. PICK c \in Calls : Step(c)
      BY Cases DEF IndexCatchesUp, ledgerVars, vars
    <2>2. At(c, "erase") /\ Fact(c) = f
      BY <2>1, LedgerStep
    <2> QED BY <2>2 DEF Barred, StoodThroughout
  <1> QED BY <1>1, <1>2, TypeInit, TypeStep, BarredStep, PTL DEF Spec, HoldBars

(* A write about to be appended has seen no replacement of what it         *)
(* replaces since it began; the writer of a replacement has begun.         *)
Replaced ==
    /\ \A c \in Calls : At(c, "append") /\ call[c].op = "write" /\ call[c].old # None =>
          \A j \in ReplacementsIn(events, call[c].old) : call[c].began < j
    /\ \A f \in Facts : \A k \in ReplacementsIn(events, f) :
          events[k].call \in Calls /\ ~At(events[k].call, "idle")
    /\ OneReplacement

LEMMA ReplacedStep == TypeOK /\ Phased /\ Replaced /\ [Next]_vars => Replaced'
  <1> SUFFICES ASSUME TypeOK, Phased, Replaced, [Next]_vars PROVE Replaced'
    OBVIOUS
  <1>1. ASSUME NEW c \in Calls, Step(c) PROVE Replaced'
    <2>e. /\ events \in Seq(EventType) /\ Len(events) \in Nat
          /\ \A f : \A k \in ReplacementsIn(events', f) :
                \/ k \in ReplacementsIn(events, f) /\ k \in DOMAIN events /\ events'[k] = events[k]
                \/ /\ k = Len(events) + 1 /\ At(c, "append") /\ call[c].op = "write"
                   /\ call[c].old = f /\ events'[k].call = c
      BY <1>1, EventsStep
    <2>b. ASSUME NEW d \in Calls
          PROVE  /\ call[d].began \in Nat /\ call[d].began <= Len(events)
                 /\ ~At(d, "idle") => call'[d].pc # "idle" /\ call'[d].began = call[d].began
      <3>1. call[d].began \in Nat /\ call[d].began <= Len(events)
        BY DEF Phased, TypeOK
      <3>2. CASE d # c
        BY <3>1, <3>2, <1>1, OthersStand DEF At
      <3>3. CASE d = c
        BY <3>1, <3>3, <1>1, PathStep, CallStep DEF Path, SameWork, At
      <3> QED BY <3>2, <3>3
    <2>1. ASSUME NEW d \in Calls, At(d, "append")', call'[d].op = "write", call'[d].old # None,
                 NEW j \in ReplacementsIn(events', call'[d].old)
          PROVE  call'[d].began < j
      <3>1. CASE d # c
        <4>1. call'[d] = call[d]
          BY <1>1, <3>1, OthersStand
        <4>2. CASE j \in ReplacementsIn(events, call[d].old)
          BY <4>1, <4>2, <2>1 DEF Replaced, At
        <4>3. CASE j = Len(events) + 1
          BY <4>1, <4>3, <2>b, <2>e
        <4> QED BY <4>1, <4>2, <4>3, <2>e
      <3>2. CASE d = c
        <4>1. /\ At(c, "put") /\ Supersedable(call[c].old) /\ call'[c].old = call[c].old
          BY <1>1, <2>1, <3>2, PathStep DEF Path, SameWork, IntoAppend, At,
             Phased, Sound, Forgetting
        <4>2. ReplacementsIn(events, call[c].old) = {}
          BY <4>1, <2>1, <3>2 DEF Supersedable, SupersededIn
        <4>3. ~At(c, "append")
          BY <4>1 DEF At
        <4> QED BY <4>1, <4>2, <4>3, <3>2, <2>e
      <3> QED BY <3>1, <3>2
    <2>2. ASSUME NEW f \in Facts, NEW k \in ReplacementsIn(events', f)
          PROVE  events'[k].call \in Calls /\ call'[events'[k].call].pc # "idle"
      <3>1. CASE k \in ReplacementsIn(events, f) /\ events'[k] = events[k]
        BY <3>1, <2>b DEF Replaced, At
      <3>2. CASE At(c, "append") /\ events'[k].call = c
        BY <3>2, <2>b DEF At
      <3> QED BY <3>1, <3>2, <2>e
    <2>3. ASSUME NEW f \in Facts, NEW j \in ReplacementsIn(events', f),
                 NEW k \in ReplacementsIn(events', f), j < k
          PROVE  call'[events'[k].call].began < j
      <3>1. CASE /\ k \in ReplacementsIn(events, f) /\ k \in DOMAIN events /\ events'[k] = events[k]
        <4>1. j # Len(events) + 1
          BY <3>1, <2>3, <2>e
        <4>2. j \in ReplacementsIn(events, f)
          BY <4>1, <2>e
        <4>3. call[events[k].call].began < j
          BY <3>1, <4>2, <2>3 DEF Replaced, OneReplacement
        <4>4. events[k].call \in Calls /\ ~At(events[k].call, "idle")
          BY <3>1 DEF Replaced
        <4> QED BY <3>1, <4>3, <4>4, <2>b
      <3>2. CASE /\ k = Len(events) + 1 /\ At(c, "append") /\ call[c].op = "write"
                 /\ call[c].old = f /\ events'[k].call = c
        <4>0. j # Len(events) + 1
          BY <3>2, <2>3, <2>e
        <4>1. j \in ReplacementsIn(events, f)
          BY <4>0, <2>e
        <4>2. f # None
          BY MemoryAssumption
        <4>3. call[c].began < j
          BY <3>2, <4>1, <4>2 DEF Replaced
        <4> QED BY <3>2, <4>3, <2>b DEF At
      <3> QED BY <3>1, <3>2, <2>e
    <2> QED BY <2>1, <2>2, <2>3 DEF Replaced, OneReplacement, At
  <1>2. ASSUME NEW s \in Stores, IndexCatchesUp(s) PROVE Replaced'
    BY <1>2 DEF IndexCatchesUp, ledgerVars, Replaced, OneReplacement, At
  <1>3. CASE UNCHANGED vars
    BY <1>3 DEF vars, ledgerVars, Replaced, OneReplacement, At
  <1> QED BY <1>1, <1>2, <1>3, Cases

(* Two standing replacements of one fact come only of overlapping writes.  *)
THEOREM ReplacedOnce == Spec => []OneReplacement
  <1>1. Init => Replaced
    <2> SUFFICES ASSUME Init PROVE Replaced
      OBVIOUS
    <2>1. \A f \in Facts : ReplacementsIn(events, f) = {}
      BY MemoryAssumption DEF Init, ReplacementsIn
    <2>2. \A c \in Calls : ~At(c, "append")
      BY DEF Init, At, Idle, NewCall
    <2> QED BY <2>1, <2>2 DEF Replaced, OneReplacement
  <1>2. Replaced => OneReplacement
    BY DEF Replaced
  <1> QED BY <1>1, <1>2, TypeInit, TypeStep, ReplacedStep, PTL DEF Spec

-----------------------------------------------------------------------------
(* Whose name an event carries.                                            *)

(* A call works under its own name, or it is a forget on a shared server.  *)
Named ==
    \A c \in Calls : ~At(c, "idle") =>
        call[c].by = c \/ (Shared /\ call[c].op \in Forgetting)

(* A call's name is set when it begins, and once more when forgetOne has   *)
(* read the fact.                                                          *)
LEMMA NameStep ==
    ASSUME TypeOK, Phased, NEW c \in Calls, Step(c)
    PROVE  \/ /\ ~At(c, "idle") /\ call'[c].op = call[c].op
              /\ \/ call'[c].by = call[c].by
                 \/ /\ call[c].op \in Forgetting
                    /\ call'[c].by = IF Shared THEN current ELSE c
           \/ call'[c].by = c
  <1>1. call \in [Calls -> CallType] /\ Sound(c, call[c])
    BY DEF TypeOK, CallType, Phased
  <1>2. CASE Get(c)
    BY <1>1, <1>2 DEF Get, At, CallType, Sound, Forgetting
  <1>3. CASE At(c, "idle")
    <2>1. \/ \E f \in Facts : Retract(c, f) \/ Confirm(c, f) \/ Forget(c, f)
                               \/ Hold(c, f) \/ Release(c, f)
          \/ \E f \in Facts \cup {None} : Write(c, f)
          \/ Sweep(c)
      BY <1>3 DEF At, Step, ValidateAssert, Put, PutFails, AssertFact, Get, Look, AskHeld, Erase,
             AppendEvent, Fails, Remove, RemoveFails, Removing, VerifyGone, VerifyFound,
             VerifyFails, Removed, Collect, SweepOne, Swept
    <2> QED BY <2>1, <1>1 DEF Retract, Confirm, Forget, Hold, Release, Write, Sweep, Begin, NewCall
  <1>4. CASE ~At(c, "idle") /\ ~Get(c)
    <2> DEFINE Same == call'[c].by = call[c].by /\ call'[c].op = call[c].op
    <2>1. ASSUME NEW p, call' = [call EXCEPT ![c].pc = p] PROVE Same
      BY <2>1, <1>1 DEF CallType
    <2>2. ASSUME ValidateAssert(c) \/ AssertFact(c) \/ Look(c) \/ AskHeld(c) \/ Erase(c)
               \/ Fails(c) \/ Removed(c) \/ Swept(c) \/ PutFails(c) PROVE Same
      BY <2>1, <2>2 DEF ValidateAssert, AssertFact, Look, AskHeld, Erase, Fails, Removed, Swept,
             PutFails, Proceed, Refused, Goto
    <2>3. ASSUME Put(c) \/ Remove(c) \/ RemoveFails(c) PROVE Same
      BY <2>3, <1>1 DEF Put, Remove, RemoveFails, CallType
    <2>4. ASSUME AppendEvent(c) PROVE Same
      BY <2>4, <1>1 DEF AppendEvent, Goto, CallType
    <2>5. ASSUME VerifyGone(c) \/ VerifyFound(c) \/ VerifyFails(c) PROVE Same
      BY <2>5, <1>1 DEF VerifyGone, VerifyFound, VerifyFails, NextStore, CallType
    <2>6. ASSUME \E k \in 0..Len(events) : Collect(c, k) PROVE Same
      BY <2>6, <1>1 DEF Collect, CallType
    <2>7. ASSUME \E f \in Facts : SweepOne(c, f) PROVE Same
      BY <2>7, <1>1 DEF SweepOne, CallType
    <2>8. Same
      BY <2>2, <2>3, <2>4, <2>5, <2>6, <2>7, <1>4 DEF Step, Retract, Confirm, Forget, Hold,
             Release, Write, Sweep, Begin, At
    <2> QED BY <2>8, <1>4
  <1> QED BY <1>2, <1>3, <1>4

LEMMA NamedStep == TypeOK /\ Phased /\ Named /\ Attributed /\ [Next]_vars => Named' /\ Attributed'
  <1> SUFFICES ASSUME TypeOK, Phased, Named, Attributed, [Next]_vars PROVE Named' /\ Attributed'
    OBVIOUS
  <1>1. ASSUME NEW c \in Calls, Step(c) PROVE Named' /\ Attributed'
    <2>1. Named'
      <3>1. ASSUME NEW d \in Calls, ~At(d, "idle")'
            PROVE  call'[d].by = d \/ (Shared /\ call'[d].op \in Forgetting)
        <4>1. CASE d = c
          BY <4>1, <1>1, NameStep DEF Named
        <4>2. CASE d # c
          BY <4>2, <3>1, <1>1, OthersStand DEF Named, At
        <4> QED BY <4>1, <4>2
      <3> QED BY <3>1 DEF Named
    <2>2. Attributed'
      <3>1. CASE events' = events
        BY <3>1 DEF Attributed
      <3>2. CASE At(c, "append") /\ events' = Append(events, Event(c))
        <4>1. events \in Seq(EventType) /\ Event(c) \in EventType
          BY <3>2, EventTyped DEF TypeOK, EventType
        <4>2. Event(c).call = c /\ Event(c).by = call[c].by
              /\ (call[c].op \in Forgetting => Event(c).kind = "forget")
          BY DEF Event, Forgetting
        <4>3. call[c].by = c \/ (Shared /\ call[c].op \in Forgetting)
          BY <3>2 DEF Named, At
        <4>4. ASSUME NEW k \in DOMAIN events', events'[k].by # events'[k].call
              PROVE  Shared /\ events'[k].kind = "forget"
          <5>1. CASE k = Len(events) + 1
            BY <5>1, <4>1, <4>2, <4>3, <4>4, <3>2
          <5>2. CASE k # Len(events) + 1
            BY <5>2, <4>1, <4>4, <3>2 DEF Attributed
          <5> QED BY <5>1, <5>2
        <4> QED BY <4>4 DEF Attributed
      <3> QED BY <3>1, <3>2, <1>1, LedgerStep
    <2> QED BY <2>1, <2>2
  <1>2. CASE \E s \in Stores : IndexCatchesUp(s)
    BY <1>2 DEF IndexCatchesUp, ledgerVars, Named, Attributed, At
  <1>3. CASE UNCHANGED vars
    BY <1>3 DEF vars, ledgerVars, storeVars, Named, Attributed, At
  <1> QED BY <1>1, <1>2, <1>3, Cases

(* Every event is its own call's, except that on a server shared by all    *)
(* calls a forget may carry another's receipt; and with that the ledger    *)
(* and the stores agree, for any calls, stores and attempts.               *)
THEOREM LedgerAndStores == Spec => []Consistent
  <1>1. Init => Named /\ Attributed
    BY DEF Init, Named, Attributed, At, Idle, NewCall
  <1>2. Spec => [](TypeOK /\ Phased /\ LedgerInv /\ StoreInv)
    BY Invariant
  <1>3. Spec => [](Named /\ Attributed)
    BY <1>1, <1>2, NamedStep, PTL DEF Spec
  <1>4. Spec => [](WrittenThrough /\ ForgottenIsErased)
    BY StoresHaveFacts, ForgottenErased, PTL
  <1>5. TypeOK /\ WrittenThrough /\ ForgottenIsErased /\ Attributed => Consistent
    BY DEF Consistent
  <1> QED BY <1>2, <1>3, <1>4, <1>5, PTL

-----------------------------------------------------------------------------
(* The vendors' adapters (Stores).                                         *)

RowsOf(v, F, text) == {Row(v, g, text) : g \in F}

(* The id that is recorded leads to one fact.                              *)
LEMMA OneId ==
  ASSUME NEW v, NEW f, NEW g, ExternalId(v, f) = ExternalId(v, g)
  PROVE  f = g
  BY DEF ExternalId

LEMMA RowIs ==
  ASSUME NEW v, NEW g, NEW text
  PROVE  /\ Row(v, g, text).id = ExternalId(v, g) /\ Row(v, g, text).fact = g
         /\ Row(v, g, text).text = text[g]
  BY DEF Row

(* A removal by the recorded id takes the fact's row and no other.         *)
LEMMA RemovedRow ==
  ASSUME NEW v, NEW f, NEW F, NEW text
  PROVE  RemoveRow(PutRow(v, RowsOf(v, F, text), f, text), ExternalId(v, f)) = RowsOf(v, F \ {f}, text)
  BY OneId, RowIs DEF RemoveRow, PutRow, RowsOf

LEMMA FiniteRows ==
  ASSUME NEW v, NEW F, IsFiniteSet(F), NEW text
  PROVE  IsFiniteSet(RowsOf(v, F, text))
  <1> DEFINE row == [g \in F |-> Row(v, g, text)]
  <1>1. row \in Surjection(F, RowsOf(v, F, text))
    BY DEF Surjection, RowsOf
  <1> QED
    BY <1>1, FS_Surjection

(* A fact that is indexed is found, unless more rows say the same than the *)
(* search returns.                                                         *)
LEMMA Found ==
  ASSUME NEW v, NEW f, NEW F, f \in F, IsFiniteSet(F), NEW text,
         NEW H \in Answers(v, RowsOf(v, F, text), f, text), ~Hit(v, H, f, text)
  PROVE  v.reach = "nearest" /\ Cardinality({g \in F : text[g] = text[f]}) > TopK
  <1> DEFINE R == RowsOf(v, F, text)
             same == {r \in R : r.text = text[f]}
             Same == {g \in F : text[g] = text[f]}
  <1>1. Row(v, f, text) \in R /\ Row(v, f, text) \notin H
    BY RowIs DEF RowsOf, Hit
  <1>2. v.reach = "nearest"
    BY <1>1, RowIs DEF Answers
  <1>3. /\ H \in SUBSET R /\ Cardinality(H) = IF Cardinality(R) < TopK THEN Cardinality(R) ELSE TopK
        /\ H \subseteq same \/ same \subseteq H
    BY <1>2 DEF Answers
  <1>4. H \subseteq same
    BY <1>1, <1>3, RowIs
  <1>5. Cardinality(H) = TopK /\ TopK \in Nat
    <2>1. IsFiniteSet(R)
      BY FiniteRows
    <2>2. Cardinality(H) # Cardinality(R)
      BY <1>1, <1>3, <2>1, FS_Subset
    <2> QED
      BY <1>3, <2>2, StoresAssumption
  <1>6. IsFiniteSet(Same) /\ f \in Same
    BY FS_Subset
  <1>7. /\ IsFiniteSet(Same \ {f}) /\ Cardinality(Same \ {f}) = Cardinality(Same) - 1
        /\ Cardinality(Same) \in Nat
    BY <1>6, FS_RemoveElement, FS_CardinalityType
  <1>8. Cardinality(H) <= Cardinality(Same \ {f})
    <2> DEFINE fact == [r \in H |-> r.fact]
    <2>1. \A r \in H : \E g \in F : r = Row(v, g, text) /\ r.fact = g /\ text[g] = text[f]
      BY <1>4, RowIs DEF RowsOf
    <2>2. \A r \in H : r.fact \in Same \ {f}
      BY <1>1, <2>1
    <2>3. \A r, s \in H : r.fact = s.fact => r = s
      BY <2>1
    <2>4. fact \in Injection(H, Same \ {f})
      BY <2>2, <2>3 DEF Injection, IsInjective
    <2> QED
      BY <1>7, <2>4, FS_Injection
  <1> QED
    BY <1>2, <1>5, <1>7, <1>8

(* One that is not indexed is not found, but by a vendor that compares     *)
(* words, in a row that has the same.                                      *)
LEMMA NotFound ==
  ASSUME NEW v \in Vendors, NEW f, NEW F, f \notin F, NEW text,
         NEW H \in Answers(v, RowsOf(v, F, text), f, text), Hit(v, H, f, text)
  PROVE  v = mem0Store /\ {g \in F : text[g] = text[f]} # {}
  <1>1. H \subseteq RowsOf(v, F, text)
    BY DEF Answers
  <1>2. PICK r \in H : \/ r.id = ExternalId(v, f)
                       \/ "text" \in v.hit /\ r.text = text[f]
                       \/ "fact" \in v.hit /\ r.fact = f
    BY DEF Hit
  <1>3. PICK g \in F : r = Row(v, g, text)
    BY <1>1 DEF RowsOf
  <1>4. g # f /\ r.fact = g /\ r.id # ExternalId(v, f)
    BY <1>3, RowIs, OneId
  <1>5. "text" \in v.hit /\ text[g] = text[f]
    BY <1>2, <1>3, <1>4, RowIs
  <1>6. v # lettaStore
    <2> SUFFICES ASSUME v = lettaStore PROVE FALSE
      OBVIOUS
    <2>1. v.reach = "tagged"
      BY DEF lettaStore
    <2>2. r.fact = f
      BY <2>1 DEF Answers
    <2> QED
      BY <1>4, <2>2
  <1>7. v = mem0Store
    BY <1>5, <1>6 DEF Vendors, zepStore, pgvectorStore, langgraphStore, cogneeStore
  <1> QED
    BY <1>5, <1>7

(* A store indexes finitely many facts: its rows were written one by one.  *)
FiniteStores == \A s \in Stores : IsFiniteSet(copies[s]) /\ IsFiniteSet(indexed[s])

LEMMA FiniteStoresInit == Init => FiniteStores
  <1>1. IsFiniteSet({Past}) /\ IsFiniteSet({})
    BY FS_Singleton, FS_EmptySet
  <1> QED BY <1>1 DEF Init, FiniteStores

LEMMA FiniteStoresStep == TypeOK /\ Phased /\ FiniteStores /\ [Next]_vars => FiniteStores'
  <1> SUFFICES ASSUME TypeOK, Phased, FiniteStores, [Next]_vars PROVE FiniteStores'
    OBVIOUS
  <1>0. copies \in [Stores -> SUBSET Facts] /\ indexed \in [Stores -> SUBSET Facts]
    BY DEF TypeOK
  <1>1. ASSUME NEW c \in Calls, Step(c), NEW s \in Stores
        PROVE  IsFiniteSet(copies'[s]) /\ IsFiniteSet(indexed'[s])
    <2>1. indexed' = indexed /\ copies'[s] \in {copies[s], copies[s] \cup {Fact(c)}, copies[s] \ {Fact(c)}}
      BY <1>0, <1>1, StoreStep
    <2> QED
      BY <2>1, FS_AddElement, FS_RemoveElement DEF FiniteStores
  <1>2. ASSUME NEW t \in Stores, IndexCatchesUp(t), NEW s \in Stores
        PROVE  IsFiniteSet(copies'[s]) /\ IsFiniteSet(indexed'[s])
    <2>1. copies' = copies /\ indexed'[s] \in {indexed[s], copies[s]}
      BY <1>0, <1>2 DEF IndexCatchesUp
    <2> QED
      BY <2>1 DEF FiniteStores
  <1>3. CASE UNCHANGED vars
    BY <1>3 DEF vars, storeVars, FiniteStores
  <1> QED BY <1>1, <1>2, <1>3, Cases DEF FiniteStores

LEMMA VendorsDo ==
  ASSUME TypeOK, Phased, FiniteStores
  PROVE  VendorsFit
  <1> SUFFICES ASSUME NEW c \in Calls, NEW v \in Vendors, NEW text \in Texts
               PROVE  LET f == Fact(c)
                          s == call[c].at
                          Rows(F) == {Row(v, g, text) : g \in F}
                          Same(F) == {g \in F : text[g] = text[f]}
                      IN /\ Removing(c) =>
                                RemoveRow(PutRow(v, Rows(copies[s]), f, text), ExternalId(v, f))
                                    = Rows(copies[s] \ {f})
                         /\ At(c, "verify") =>
                                \A H \in Answers(v, Rows(indexed[s]), f, text) :
                                    IF f \in indexed[s]
                                    THEN \/ Hit(v, H, f, text)
                                         \/ v.reach = "nearest" /\ Cardinality(Same(indexed[s])) > TopK
                                    ELSE \/ ~Hit(v, H, f, text)
                                         \/ v = mem0Store /\ Same(indexed[s]) # {}
    BY DEF VendorsFit
  <1> DEFINE f == Fact(c)
             s == call[c].at
  <1>1. RemoveRow(PutRow(v, {Row(v, g, text) : g \in copies[s]}, f, text), ExternalId(v, f))
          = {Row(v, g, text) : g \in copies[s] \ {f}}
    BY RemovedRow DEF RowsOf
  <1>2. ASSUME At(c, "verify"), NEW H \in Answers(v, {Row(v, g, text) : g \in indexed[s]}, f, text)
        PROVE  /\ f \in indexed[s] =>
                      \/ Hit(v, H, f, text)
                      \/ v.reach = "nearest" /\ Cardinality({g \in indexed[s] : text[g] = text[f]}) > TopK
               /\ f \notin indexed[s] =>
                      \/ ~Hit(v, H, f, text)
                      \/ v = mem0Store /\ {g \in indexed[s] : text[g] = text[f]} # {}
    <2>1. IsFiniteSet(indexed[s])
      BY <1>2 DEF Phased, Sound, At, FiniteStores
    <2>2. H \in Answers(v, RowsOf(v, indexed[s], text), f, text)
      BY <1>2 DEF RowsOf
    <2>3. PICK F : F = indexed[s]
      OBVIOUS
    <2> HIDE DEF f, s
    <2>4. ASSUME f \in F, ~Hit(v, H, f, text)
          PROVE  v.reach = "nearest" /\ Cardinality({g \in F : text[g] = text[f]}) > TopK
      <3>1. IsFiniteSet(F) /\ H \in Answers(v, RowsOf(v, F, text), f, text)
        BY <2>1, <2>2, <2>3
      <3>2. v.reach = "nearest" /\ Cardinality({g \in F : text[g] = text[f]}) > TopK
        BY ONLY <2>4, <3>1, Found
      <3> QED
        BY <3>2
    <2>5. ASSUME f \notin F, Hit(v, H, f, text)
          PROVE  v = mem0Store /\ {g \in F : text[g] = text[f]} # {}
      BY <2>2, <2>3, <2>5, NotFound
    <2> QED
      BY <2>3, <2>4, <2>5
  <1> QED
    BY <1>1, <1>2

(* Each of the six vendors does for the server what it takes a store to    *)
(* do, in every index any calls bring about, however many facts say the    *)
(* same and however many rows a search returns.                            *)
THEOREM EveryVendorFits == Spec => []VendorsFit
  <1>1. Spec => [](TypeOK /\ Phased /\ LedgerInv /\ StoreInv)
    BY Invariant
  <1>2. Spec => []FiniteStores
    BY <1>1, FiniteStoresInit, FiniteStoresStep, PTL DEF Spec
  <1>3. TypeOK /\ Phased /\ FiniteStores => VendorsFit
    BY VendorsDo
  <1> QED
    BY <1>1, <1>2, <1>3, PTL
=============================================================================
