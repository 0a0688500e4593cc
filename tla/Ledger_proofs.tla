--------------------------- MODULE Ledger_proofs ---------------------------
(***************************************************************************)
(* What the ledger guarantees for every set of facts, subjects, writers    *)
(* and times: the past it has settled stays as it was, a retraction undoes *)
(* what it retracts, its stores and its ways of asking agree, and what is  *)
(* reported about it accounts for everything that happened.                *)
(*                                                                         *)
(* Ledger.tla's steps need one invariant, LedgerInv.  The rest is about    *)
(* what the queries compute of a log the invariant allows, and they are    *)
(* recursive functions, so the first section proves, from the order of the *)
(* naturals, the inductions the others need.                               *)
(***************************************************************************)
EXTENDS EventStores, Reports, SequenceTheorems, FiniteSetTheorems, WellFoundedInduction, TLAPS

-------------------------------------------------------------------------------
(* Recursion and the naturals.                                             *)

(* Induction over data. tlapm has no induction theorem that it can be      *)
(* given a property of, but it has the order of the naturals: a set of     *)
(* naturals that is not empty has a least member.                          *)
LEMMA LeastNatural ==
    ASSUME NEW T \in SUBSET Nat, T # {}
    PROVE  \E n \in T : \A m \in T : n <= m
  <1> DEFINE R == {ss \in Nat \X Nat : ss[1] < ss[2]}
  <1>1. OpToRel(<, Nat) = R
    BY Zenon DEF OpToRel
  <1>2. IsWellFoundedOn(R, Nat)
    <2> HIDE DEF R
    <2> QED BY <1>1, NatLessThanWellFounded, Zenon
  <1>3. PICK n \in T : \A m \in T : <<m, n>> \notin R
    <2> HIDE DEF R
    <2> QED BY <1>2, WFMin
  <1>4. ASSUME NEW m \in T PROVE n <= m
    <2>1. <<m, n>> \in Nat \X Nat /\ <<m, n>>[1] = m /\ <<m, n>>[2] = n
      OBVIOUS
    <2>2. ~(m < n)
      BY <1>3, <2>1
    <2> QED BY <2>2
  <1> QED BY <1>4

(* A set with 0 and with every successor of its members has every natural. *)
LEMMA UpFromZero ==
    ASSUME NEW S, 0 \in S, \A n \in Nat : n \in S => n + 1 \in S
    PROVE  \A n \in Nat : n \in S
  <1> SUFFICES ASSUME Nat \ S # {} PROVE FALSE
    OBVIOUS
  <1>1. PICK n \in Nat \ S : \A m \in Nat \ S : n <= m
    BY LeastNatural
  <1>2. n - 1 \in Nat /\ n - 1 \notin S
    BY <1>1
  <1> QED BY <1>1, <1>2

(* Max, by its definition, is a member that no member exceeds.             *)
LEMMA GreatestBelow ==
    ASSUME NEW n \in Nat, NEW T \in SUBSET (0..n), T # {}
    PROVE  /\ Max(T) \in T
           /\ \A m \in T : m <= Max(T)
  <1> DEFINE U == {m \in Nat : \A k \in T : k <= m}
  <1>1. n \in U
    OBVIOUS
  <1>2. PICK u \in U : \A m \in U : u <= m
    BY <1>1, LeastNatural
  <1>3. u \in T
    <2> SUFFICES ASSUME u \notin T PROVE FALSE
      OBVIOUS
    <2>1. PICK k \in T : TRUE
      OBVIOUS
    <2>2. \A j \in T : j <= u /\ j # u
      BY <1>2
    <2>3. u - 1 \in U
      BY <2>1, <2>2, <1>2
    <2> QED BY <2>3, <1>2
  <1>4. \E x \in T : \A y \in T : x >= y
    BY <1>2, <1>3
  <1>5. Max(T) \in T /\ \A y \in T : Max(T) >= y
    BY <1>4 DEF Max
  <1> QED BY <1>5

(* f iterates Step from v, n times.                                        *)
IsIteration(f, V, v, n, Step) ==
    f \in [0..n -> V] /\ f[0] = v /\ \A k \in 1..n : f[k] = Step[<<k, f[k - 1]>>]

(* An iteration exists, so that a recursive function over 0..n is what its *)
(* equation says.                                                          *)
LEMMA Iterates ==
    ASSUME NEW V, NEW v \in V, NEW n \in Nat, NEW Step \in [(1..n) \X V -> V]
    PROVE  \E f : IsIteration(f, V, v, n, Step)
  <1> DEFINE Upto(m) == \E f \in [0..m -> V] : f[0] = v /\ \A k \in 1..m : f[k] = Step[<<k, f[k - 1]>>]
             S == {m \in Nat : m <= n => Upto(m)}
  <1>1. Upto(0)
    <2> DEFINE f == [k \in 0..0 |-> v]
    <2>1. f \in [0..0 -> V] /\ f[0] = v /\ \A k \in 1..0 : f[k] = Step[<<k, f[k - 1]>>]
      OBVIOUS
    <2> QED BY <2>1
  <1>2. ASSUME NEW m \in Nat, Upto(m), m + 1 <= n PROVE Upto(m + 1)
    <2>1. PICK g \in [0..m -> V] : g[0] = v /\ \A k \in 1..m : g[k] = Step[<<k, g[k - 1]>>]
      BY <1>2
    <2> DEFINE f == [k \in 0..m + 1 |-> IF k <= m THEN g[k] ELSE Step[<<m + 1, g[m]>>]]
    <2>2. Step[<<m + 1, g[m]>>] \in V
      BY <1>2
    <2>3. f \in [0..m + 1 -> V]
      BY <2>1, <2>2
    <2>4. \A k \in 0..m : f[k] = g[k]
      OBVIOUS
    <2>5. f[m + 1] = Step[<<m + 1, f[m]>>]
      <3>1. f[m + 1] = Step[<<m + 1, g[m]>>]
        OBVIOUS
      <3> HIDE DEF f
      <3> QED BY <3>1, <2>4
    <2>6. ASSUME NEW k \in 1..m + 1 PROVE f[k] = Step[<<k, f[k - 1]>>]
      <3>1. CASE k = m + 1
        BY <3>1, <2>5
      <3>2. CASE k \in 1..m
        BY <3>2, <2>1, <2>4
      <3> QED BY <3>1, <3>2
    <2>7. f[0] = v
      BY <2>1, <2>4
    <2> HIDE DEF f
    <2> QED BY <2>3, <2>6, <2>7
  <1> HIDE DEF Upto
  <1>3. 0 \in S
    BY <1>1
  <1>4. \A m \in Nat : m \in S => m + 1 \in S
    BY <1>2
  <1>5. n \in S
    <2> HIDE DEF S
    <2> QED BY <1>3, <1>4, UpFromZero
  <1> QED BY <1>5 DEF Upto, IsIteration

-------------------------------------------------------------------------------
(* selectIds: which facts a query is about.                                *)

(* What the SELECT adds at line k: a fact that supersedes one of those     *)
(* found so far.                                                           *)
Later(E, k, I) ==
    {E[j].fact : j \in {i \in DOMAIN E : i = k /\ E[i].kind = "assert" /\ E[i].supersedes \in I}}
End(E) == Max({0} \cup DOMAIN E)
IsPass(E, q, f) ==
    f = [k \in 0..End(E) |-> IF k = 0 THEN MatchedIn(E, q) ELSE f[k-1] \cup Later(E, k, f[k-1])]

(* SelectIds is the last of the sets its recursion runs through.           *)
LEMMA Passes ==
    ASSUME NEW E, NEW q, NEW n \in Nat, DOMAIN E \subseteq 1..n
    PROVE  \E f : IsPass(E, q, f) /\ SelectIds(E, q) = f[End(E)]
  <1> DEFINE V == SUBSET {E[k].fact : k \in DOMAIN E}
             Step == [p \in (1..End(E)) \X V |-> p[2] \cup Later(E, p[1], p[2])]
  <1>1. End(E) \in Nat
    <2>1. {0} \cup DOMAIN E \subseteq 0..n
      OBVIOUS
    <2>2. Max({0} \cup DOMAIN E) \in {0} \cup DOMAIN E
      BY <2>1, GreatestBelow
    <2> QED BY <2>1, <2>2 DEF End
  <1>2. MatchedIn(E, q) \in V
    BY DEF MatchedIn
  <1>3. Step \in [(1..End(E)) \X V -> V]
    BY DEF Later
  <1>4. PICK f : IsIteration(f, V, MatchedIn(E, q), End(E), Step)
    <2> HIDE DEF V, Step
    <2> QED BY <1>1, <1>2, <1>3, Iterates
  <1>5. ASSUME NEW k \in 1..End(E) PROVE f[k] = f[k-1] \cup Later(E, k, f[k-1])
    <2>1. <<k, f[k-1]>> \in (1..End(E)) \X V
      BY <1>1, <1>4 DEF IsIteration
    <2>2. f[k] = Step[<<k, f[k - 1]>>]
      BY <1>4 DEF IsIteration
    <2> QED BY <2>1, <2>2
  <1>6. IsPass(E, q, f)
    <2>1. f = [k \in 0..End(E) |-> f[k]]
      BY <1>4 DEF IsIteration
    <2>2. \A k \in 0..End(E) : f[k] = IF k = 0 THEN MatchedIn(E, q) ELSE f[k-1] \cup Later(E, k, f[k-1])
      BY <1>1, <1>4, <1>5 DEF IsIteration
    <2> QED BY <2>1, <2>2, Zenon DEF IsPass
  <1>7. SelectIds(E, q) = (CHOOSE g : IsPass(E, q, g))[End(E)]
    BY Zenon DEF SelectIds, IsPass, End, Later
  <1>8. IsPass(E, q, CHOOSE g : IsPass(E, q, g))
    BY <1>6, Zenon
  <1> QED BY <1>7, <1>8

(* The sets only grow.                                                     *)
LEMMA PassKeeps ==
    ASSUME NEW E, NEW q, NEW f, End(E) \in Nat, IsPass(E, q, f)
    PROVE  \A k \in 0..End(E) : \A j \in 0..k : f[j] \subseteq f[k]
  <1> DEFINE S == {k \in Nat : k <= End(E) => \A j \in 0..k : f[j] \subseteq f[k]}
  <1>1. 0 \in S
    OBVIOUS
  <1>2. ASSUME NEW k \in Nat, k \in S PROVE k + 1 \in S
    <2> SUFFICES ASSUME k + 1 <= End(E), NEW j \in 0..k + 1 PROVE f[j] \subseteq f[k + 1]
      OBVIOUS
    <2>1. f[k + 1] = f[k] \cup Later(E, k + 1, f[k])
      <3>1. k + 1 \in 0..End(E) /\ k + 1 # 0 /\ (k + 1) - 1 = k
        OBVIOUS
      <3> QED BY <3>1 DEF IsPass
    <2>2. CASE j = k + 1
      BY <2>2
    <2>3. CASE j \in 0..k
      BY <1>2, <2>1, <2>3
    <2> QED BY <2>2, <2>3
  <1>3. \A k \in Nat : k \in S
    <2> HIDE DEF S
    <2> QED BY <1>1, <1>2, UpFromZero
  <1> QED BY <1>3

(* selectIds finds what matches, and what supersedes what matches,         *)
(* whatever the order of the lines.                                        *)
LEMMA SelectedAre ==
    ASSUME NEW E, NEW q, NEW n \in Nat, DOMAIN E \subseteq 1..n
    PROVE  /\ MatchedIn(E, q) \subseteq SelectIds(E, q)
           /\ \A k \in DOMAIN E : E[k].kind = "assert" /\ E[k].supersedes \in MatchedIn(E, q) =>
                 E[k].fact \in SelectIds(E, q)
  <1>1. PICK f : IsPass(E, q, f) /\ SelectIds(E, q) = f[End(E)]
    BY Passes
  <1>2. End(E) \in Nat /\ \A k \in DOMAIN E : k \in 1..End(E)
    <2>1. {0} \cup DOMAIN E \in SUBSET (0..n) /\ {0} \cup DOMAIN E # {}
      OBVIOUS
    <2>2. Max({0} \cup DOMAIN E) \in {0} \cup DOMAIN E /\ \A k \in {0} \cup DOMAIN E : k <= Max({0} \cup DOMAIN E)
      BY <2>1, GreatestBelow
    <2> QED BY <2>1, <2>2 DEF End
  <1>3. f[0] = MatchedIn(E, q)
    BY <1>1, <1>2 DEF IsPass
  <1>4. MatchedIn(E, q) \subseteq f[End(E)]
    BY <1>1, <1>2, <1>3, PassKeeps
  <1>5. ASSUME NEW k \in DOMAIN E, E[k].kind = "assert", E[k].supersedes \in MatchedIn(E, q)
        PROVE  E[k].fact \in f[End(E)]
    <2>1. k \in 0..End(E) /\ k # 0 /\ k - 1 \in 0..End(E) /\ 0 \in 0..k - 1
      BY <1>2
    <2>2. f[k] = f[k-1] \cup Later(E, k, f[k-1])
      BY <1>1, <2>1 DEF IsPass
    <2>3. E[k].supersedes \in f[k-1]
      BY <1>1, <1>2, <1>3, <1>5, <2>1, PassKeeps
    <2>4. E[k].fact \in f[k]
      BY <1>5, <2>2, <2>3 DEF Later
    <2>5. f[k] \subseteq f[End(E)]
      BY <1>1, <1>2, <2>1, PassKeeps
    <2> QED BY <2>4, <2>5
  <1> QED BY <1>1, <1>4, <1>5

-------------------------------------------------------------------------------
(* Answers from a selection.                                               *)

(* The events known at t.                                                  *)
Known(E, t) == Restrict(E, {k \in DOMAIN E : E[k].tx <= t})

(* A selection of lines is those lines.                                    *)
LEMMA RestrictIs ==
    ASSUME NEW E, NEW K, K \subseteq DOMAIN E
    PROVE  DOMAIN Restrict(E, K) = K /\ \A k \in K : Restrict(E, K)[k] = E[k]
  BY DEF Restrict

(* What the reference answers, an assert at a time: asOf with its loop     *)
(* opened up.                                                              *)
Answers(A, q, k) ==
    /\ k \in DOMAIN A /\ A[k].kind = "assert"
    /\ ~RetractedIn(A, A[k].fact)
    /\ Matches(q, A[k].subject)
    /\ A[k].from <= q.valid
    /\ q.valid < ValidTo(A, A[k].fact)

LEMMA AsOfIs ==
    ASSUME NEW E, NEW A, NEW q, DOMAIN A \subseteq DOMAIN E, \A k \in DOMAIN A : A[k] = E[k]
    PROVE  AsOf(A, q) = {E[k].fact : k \in {j \in DOMAIN E : Answers(A, q, j)}}
  <1>1. ASSUME NEW f PROVE f \in AsOf(A, q) <=> \E k \in DOMAIN A : Answers(A, q, k) /\ f = A[k].fact
    BY DEF AsOf, Answers
  <1>2. \A k : Answers(A, q, k) => k \in DOMAIN A
    BY DEF Answers
  <1> QED BY <1>1, <1>2

(* A belief asked of a selection is the belief asked of everything known   *)
(* then, if the selection has what matches and what supersedes it: no      *)
(* other event can change the answer.                                      *)
LEMMA AnySelection ==
    ASSUME NEW E, NEW q, NEW ids, NEW n \in Nat, DOMAIN E \subseteq 1..n,
           \A k \in DOMAIN E : E[k].tx \in Nat,
           q.tx \in Nat, q.before \in Nat, q.tx < q.before,
           MatchedIn(E, q) \subseteq ids,
           \A k \in DOMAIN E : E[k].kind = "assert" /\ E[k].supersedes \in MatchedIn(E, q) => E[k].fact \in ids
    PROVE  AsOf(About(E, ids, q), q) = AsOf(Known(E, q.tx), q)
  <1> DEFINE A == About(E, ids, q)
             N == Known(E, q.tx)
             J == {k \in DOMAIN E : E[k].fact \in ids /\ E[k].tx <= q.tx}
             K == {k \in DOMAIN E : E[k].tx <= q.tx}
  <1>1. DOMAIN A = J /\ (\A k \in J : A[k] = E[k]) /\ DOMAIN N = K /\ (\A k \in K : N[k] = E[k])
    <2>1. J \subseteq DOMAIN E /\ K \subseteq DOMAIN E
      OBVIOUS
    <2>2. A = Restrict(E, J) /\ N = Restrict(E, K)
      BY DEF About, Known
    <2> HIDE DEF A, N, J, K
    <2> QED BY <2>1, <2>2, RestrictIs
  <1> HIDE DEF A, N
  <1>2. ASSUME NEW f \in ids PROVE RetractedIn(A, f) <=> RetractedIn(N, f)
    BY <1>1 DEF RetractedIn
  <1>3. ASSUME NEW k \in K, E[k].kind = "assert", Matches(q, E[k].subject)
        PROVE  E[k].fact \in MatchedIn(E, q) /\ E[k].fact \in ids
    <2>1. Within(q, E[k].tx)
      BY DEF Within
    <2> QED BY <1>3, <2>1 DEF MatchedIn
  <1>4. ASSUME NEW f \in MatchedIn(E, q) PROVE ReplacementsIn(A, f) = ReplacementsIn(N, f)
    <2>1. ASSUME NEW k \in K, E[k].kind = "assert", E[k].supersedes = f
          PROVE  k \in J /\ (RetractedIn(A, E[k].fact) <=> RetractedIn(N, E[k].fact))
      <3>1. E[k].fact \in ids
        BY <2>1
      <3> QED BY <3>1, <1>2
    <2>2. ReplacementsIn(A, f) = {k \in J : E[k].kind = "assert" /\ E[k].supersedes = f /\ ~RetractedIn(A, E[k].fact)}
      BY <1>1 DEF ReplacementsIn
    <2>3. ReplacementsIn(N, f) = {k \in K : E[k].kind = "assert" /\ E[k].supersedes = f /\ ~RetractedIn(N, E[k].fact)}
      BY <1>1 DEF ReplacementsIn
    <2> QED BY <2>1, <2>2, <2>3
  <1>5. ASSUME NEW f \in MatchedIn(E, q) PROVE ValidTo(A, f) = ValidTo(N, f)
    <2> DEFINE R == ReplacementsIn(N, f)
    <2>1. ReplacementsIn(A, f) = R
      BY <1>4
    <2>2. CASE R = {}
      BY <2>1, <2>2 DEF ValidTo
    <2>3. CASE R # {}
      <3>1. R \subseteq J
        BY <1>1, <2>1 DEF ReplacementsIn
      <3>2. R \subseteq 0..n
        BY <3>1
      <3>3. Max(R) \in R
        <4> HIDE DEF R
        <4> QED BY <2>3, <3>2, GreatestBelow
      <3>4. A[Max(R)] = N[Max(R)]
        BY <1>1, <3>1, <3>3
      <3> HIDE DEF R
      <3>5. ValidTo(A, f) = A[Max(R)].from
        BY <2>1, <2>3 DEF ValidTo
      <3>6. ValidTo(N, f) = N[Max(R)].from
        BY <2>3 DEF ValidTo, R
      <3> QED BY <3>4, <3>5, <3>6
    <2> QED BY <2>2, <2>3
  <1>6. ASSUME NEW k \in DOMAIN E
        PROVE  Answers(A, q, k) <=> Answers(N, q, k)
    <2>1. CASE k \in K /\ E[k].kind = "assert" /\ Matches(q, E[k].subject)
      <3>1. E[k].fact \in MatchedIn(E, q) /\ E[k].fact \in ids /\ k \in J
        BY <2>1, <1>3
      <3>2. A[k] = E[k] /\ N[k] = E[k]
        BY <1>1, <3>1
      <3>3. ValidTo(A, E[k].fact) = ValidTo(N, E[k].fact)
        BY <1>5, <3>1
      <3>4. RetractedIn(A, E[k].fact) <=> RetractedIn(N, E[k].fact)
        BY <1>2, <3>1
      <3> QED BY <1>1, <3>1, <3>2, <3>3, <3>4 DEF Answers
    <2>2. CASE ~(k \in K /\ E[k].kind = "assert" /\ Matches(q, E[k].subject))
      BY <1>1, <2>2 DEF Answers
    <2> QED BY <2>1, <2>2
  <1>7. AsOf(A, q) = {E[k].fact : k \in {j \in DOMAIN E : Answers(A, q, j)}}
    BY <1>1, AsOfIs
  <1>8. AsOf(N, q) = {E[k].fact : k \in {j \in DOMAIN E : Answers(N, q, j)}}
    BY <1>1, AsOfIs
  <1>9. AsOf(A, q) = AsOf(N, q)
    BY <1>6, <1>7, <1>8
  <1> QED BY <1>9 DEF A, N

(* The query the model takes as reference is asOf of what was known at its *)
(* time.                                                                   *)
LEMMA ReferenceIs ==
    ASSUME NEW E, NEW q, NEW n \in Nat, DOMAIN E \subseteq 1..n, \A k \in DOMAIN E : E[k].tx \in Nat,
           q.tx \in Nat, q.before \in Nat, q.tx < q.before
    PROVE  Reference(E, q) = AsOf(Known(E, q.tx), q)
  <1>1. AsOf(About(E, SelectIds(E, q), q), q) = AsOf(Known(E, q.tx), q)
    <2>1. /\ MatchedIn(E, q) \subseteq SelectIds(E, q)
          /\ \A k \in DOMAIN E : E[k].kind = "assert" /\ E[k].supersedes \in MatchedIn(E, q) =>
                 E[k].fact \in SelectIds(E, q)
      BY SelectedAre
    <2> QED BY <2>1, AnySelection
  <1> QED BY <1>1 DEF Reference

-------------------------------------------------------------------------------
(* The inductive invariant of the ledger.                                  *)

(* An event that stands on earlier ones: what it supersedes, retracts or   *)
(* forgets was asserted before it, and what is superseded began no later.  *)
Proper(E, n, e) ==
    /\ e.supersedes # None =>
          \E j \in 1..n : E[j].kind = "assert" /\ E[j].fact = e.supersedes /\ E[j].from <= e.from
    /\ e.kind # "assert" =>
          /\ e.supersedes = None
          /\ \E j \in 1..n : E[j].kind = "assert" /\ E[j].fact = e.fact
    /\ e.kind = "assert" => e.subject \in Subjects

Asserts(e, f) == e.kind = "assert" /\ e.fact = f

(* No event, written or on its way, is of a time to come.                  *)
LedgerTypes ==
    /\ log \in Seq(Event) /\ clock \in Times
    /\ pending \in [Writers -> Event \cup {None}]
    /\ \A k \in 1..Len(log) : log[k].tx <= clock
    /\ \A w \in Stamped : pending[w].tx <= clock

(* A fact is asserted by one event at most, and that event is written      *)
(* once.                                                                   *)
AssertedOnce ==
    \A f \in Facts :
        /\ \A j, k \in 1..Len(log) : Asserts(log[j], f) /\ Asserts(log[k], f) => j = k
        /\ \A w \in Stamped : Asserts(pending[w], f) =>
              /\ \A k \in 1..Len(log) : ~Asserts(log[k], f)
              /\ \A v \in Stamped : Asserts(pending[v], f) => v = w

AllProper ==
    /\ \A k \in 1..Len(log) : Proper(log, k - 1, log[k])
    /\ \A w \in Stamped : Proper(log, Len(log), pending[w])

(* The inductive invariant of the ledger.                                  *)
LedgerInv == LedgerTypes /\ AssertedOnce /\ AllProper

LEMMA LedgerInvInit == Init => LedgerInv
  <1> SUFFICES ASSUME Init PROVE LedgerInv
    OBVIOUS
  <1>1. Stamped = {} /\ 1..Len(log) = {}
    BY DEF Init, Stamped
  <1>2. log \in Seq(Event) /\ clock \in Times /\ pending \in [Writers -> Event \cup {None}]
    BY LedgerAssumption DEF Init, Times
  <1> QED BY <1>1, <1>2 DEF LedgerInv, LedgerTypes, AssertedOnce, AllProper

\* What a writer stamps, and what the stamping leaves as it was.
LEMMA StampIs ==
    ASSUME LedgerInv, NEW w \in Writers, NEW e \in Event, Stamp(w, e), e.tx = clock,
           Proper(log, Len(log), e),
           e.kind = "assert" => e.fact \notin Used
    PROVE  LedgerInv'
  <1>1. /\ pending' = [pending EXCEPT ![w] = e] /\ log' = log /\ clock' = clock /\ pending[w] = None
    BY DEF Stamp
  <1>2. Stamped' \subseteq Stamped \cup {w} /\ w \notin Stamped
    BY <1>1 DEF Stamped, LedgerInv, LedgerTypes
  <1>3. \A v \in Stamped : v # w /\ pending'[v] = pending[v]
    BY <1>1, <1>2 DEF LedgerInv, LedgerTypes, Stamped
  <1>4. pending'[w] = e
    BY <1>1 DEF LedgerInv, LedgerTypes
  <1>5. LedgerTypes'
    <2>1. e.tx <= clock /\ pending' \in [Writers -> Event \cup {None}]
      BY <1>1 DEF LedgerInv, LedgerTypes, Times
    <2> QED BY <1>1, <1>2, <1>3, <1>4, <2>1 DEF LedgerInv, LedgerTypes
  <1>6. AssertedOnce'
    <2>1. ASSUME NEW f \in Facts, Asserts(e, f)
          PROVE  (\A k \in 1..Len(log) : ~Asserts(log[k], f)) /\ \A v \in Stamped : ~Asserts(pending[v], f)
      <3>1. f \notin Used
        BY <2>1 DEF Asserts
      <3> QED BY <3>1 DEF Used, Stamped, Asserts, LedgerInv, LedgerTypes
    <2> QED BY <1>1, <1>2, <1>3, <1>4, <2>1 DEF LedgerInv, AssertedOnce
  <1>7. AllProper'
    BY <1>1, <1>2, <1>3, <1>4 DEF LedgerInv, AllProper
  <1> QED BY <1>5, <1>6, <1>7 DEF LedgerInv

LEMMA LedgerInvNext == LedgerInv /\ [Next]_vars => LedgerInv'
  <1> SUFFICES ASSUME LedgerInv, [Next]_vars PROVE LedgerInv'
    OBVIOUS
  <1>t. log \in Seq(Event) /\ clock \in Times /\ pending \in [Writers -> Event \cup {None}] /\ Len(log) \in Nat
        /\ DOMAIN log = 1..Len(log)
    BY DEF LedgerInv, LedgerTypes
  <1>1. ASSUME NEW w \in Writers, NEW old \in Facts \cup {None}, NEW s \in Subjects, NEW from \in Times,
               AssertFact(w, old, s, from)
        PROVE  LedgerInv'
    <2> DEFINE e == [kind |-> "assert", fact |-> Min(Facts \ Used), supersedes |-> old,
                     subject |-> s, from |-> from, tx |-> clock]
    <2>1. Used \subseteq Facts /\ Used # Facts
      <3>1. \A k \in DOMAIN log : log[k] \in Event
        BY <1>t
      <3>2. \A v \in Writers : pending[v] # None => pending[v] \in Event
        BY <1>t
      <3>3. \A x \in Event : x.fact \in Facts
        BY DEF Event
      <3> QED BY <1>1, <3>1, <3>2, <3>3 DEF AssertFact, Used
    <2>2. Min(Facts \ Used) \in Facts \ Used
      <3>a. Facts \subseteq Nat
        BY LedgerAssumption DEF Facts
      <3>b. Facts \ Used # {}
        BY <2>1, Zenon
      <3>1. Facts \ Used \in SUBSET Nat /\ Facts \ Used # {}
        BY <3>a, <3>b
      <3>2. \E x \in Facts \ Used : \A y \in Facts \ Used : x <= y
        BY <3>1, LeastNatural
      <3> QED BY <3>2 DEF Min
    <2>3. e \in Event
      BY <2>2, <1>t DEF Event
    <2>4. Proper(log, Len(log), e)
      <3>1. CASE old = None
        BY <3>1 DEF Proper
      <3>2. CASE old # None
        <4>1. AssertedIn(log, old) /\ log[AssertOf(log, old)].from <= from
          BY <1>1, <3>2 DEF AssertFact, Supersedable
        <4>2. \E k \in DOMAIN log : log[k].kind = "assert" /\ log[k].fact = old
          BY <4>1 DEF AssertedIn
        <4>3. AssertOf(log, old) \in DOMAIN log /\ log[AssertOf(log, old)].kind = "assert"
              /\ log[AssertOf(log, old)].fact = old
          BY <4>2 DEF AssertOf
        <4> QED BY <4>1, <4>3, <1>t DEF Proper
      <3> QED BY <3>1, <3>2
    <2>5. Stamp(w, e)
      BY <1>1 DEF AssertFact
    <2>6. e.tx = clock /\ (e.kind = "assert" => e.fact \notin Used)
      BY <2>2
    <2> HIDE DEF e
    <2> QED BY <2>3, <2>4, <2>5, <2>6, StampIs
  <1>2. ASSUME NEW w \in Writers, NEW f \in Facts, Retract(w, f) \/ Forget(w, f)
        PROVE  LedgerInv'
    <2>1. PICK kind \in {"retract", "forget"} :
            Stamp(w, [kind |-> kind, fact |-> f, supersedes |-> None,
                      subject |-> Whatever, from |-> clock, tx |-> clock])
      BY <1>2 DEF Retract, Forget, TakeBack
    <2> DEFINE e == [kind |-> kind, fact |-> f, supersedes |-> None, subject |-> Whatever, from |-> clock, tx |-> clock]
    <2>2. e \in Event
      BY <1>t DEF Event
    <2>3. \E k \in DOMAIN log : log[k].kind = "assert" /\ log[k].fact = f
      BY <1>2 DEF Retract, Forget, TakeBack, AssertedIn
    <2>4. Proper(log, Len(log), e)
      BY <2>3, <1>t DEF Proper
    <2>5. Stamp(w, e) /\ e.tx = clock /\ e.kind # "assert"
      BY <2>1
    <2> HIDE DEF e
    <2> QED BY <2>2, <2>4, <2>5, StampIs
  <1>3. ASSUME NEW w \in Writers, AppendEvent(w) PROVE LedgerInv'
    <2> DEFINE e == pending[w]
    <2>1. e \in Event /\ w \in Stamped
      BY <1>3, <1>t DEF AppendEvent, Stamped
    <2>2. log' = Append(log, e) /\ pending' = [pending EXCEPT ![w] = None] /\ clock' = clock
      BY <1>3 DEF AppendEvent
    <2>3. log' \in Seq(Event) /\ Len(log') = Len(log) + 1 /\ log'[Len(log) + 1] = e
          /\ \A k \in 1..Len(log) : log'[k] = log[k]
      BY <2>1, <2>2, <1>t, AppendProperties
    <2>4. Stamped' = Stamped \ {w} /\ \A v \in Stamped' : v \in Stamped /\ v # w /\ pending'[v] = pending[v]
      BY <2>2, <1>t DEF Stamped
    <2> HIDE DEF e
    <2>5. LedgerTypes'
      <3>1. pending' \in [Writers -> Event \cup {None}]
        BY <2>2, <1>t
      <3>2. e.tx <= clock
        BY <2>1 DEF LedgerInv, LedgerTypes, e
      <3> QED BY <1>t, <2>2, <2>3, <2>4, <3>1, <3>2 DEF LedgerInv, LedgerTypes
    <2>6. AssertedOnce'
      <3> SUFFICES ASSUME NEW f \in Facts
            PROVE  /\ \A j, k \in 1..Len(log') : Asserts(log'[j], f) /\ Asserts(log'[k], f) => j = k
                   /\ \A v \in Stamped' : Asserts(pending'[v], f) =>
                         /\ \A k \in 1..Len(log') : ~Asserts(log'[k], f)
                         /\ \A u \in Stamped' : Asserts(pending'[u], f) => u = v
        BY DEF AssertedOnce
      <3>1. \A k \in 1..Len(log') : k \in 1..Len(log) \/ k = Len(log) + 1
        BY <2>3, <1>t
      <3>2. Asserts(e, f) => (\A k \in 1..Len(log) : ~Asserts(log[k], f)) /\ \A v \in Stamped : Asserts(pending[v], f) => v = w
        BY <2>1 DEF LedgerInv, AssertedOnce, e
      <3> QED BY <2>3, <2>4, <3>1, <3>2 DEF LedgerInv, AssertedOnce
    <2>7. AllProper'
      <3>1. ASSUME NEW n \in 0..Len(log), NEW x, Proper(log, n, x)
            PROVE  Proper(log', n, x) /\ Proper(log', Len(log'), x)
        <4>1. \A j \in 1..n : j \in 1..Len(log') /\ log'[j] = log[j]
          BY <2>3, <1>t
        <4> QED BY <3>1, <4>1 DEF Proper
      <3>2. ASSUME NEW k \in 1..Len(log') PROVE Proper(log', k - 1, log'[k])
        <4>1. CASE k = Len(log) + 1
          <5>1. Proper(log, Len(log), e)
            BY <2>1 DEF LedgerInv, AllProper, e
          <5>2. k - 1 = Len(log) /\ Len(log) \in 0..Len(log)
            BY <4>1, <1>t
          <5> QED BY <4>1, <5>1, <5>2, <3>1, <2>3
        <4>2. CASE k \in 1..Len(log)
          <5>1. Proper(log, k - 1, log[k])
            BY <4>2 DEF LedgerInv, AllProper
          <5>2. k - 1 \in 0..Len(log)
            BY <4>2, <1>t
          <5> QED BY <4>2, <5>1, <5>2, <3>1, <2>3
        <4> QED BY <4>1, <4>2, <2>3, <1>t
      <3>3. ASSUME NEW v \in Stamped' PROVE Proper(log', Len(log'), pending'[v])
        <4>1. Proper(log, Len(log), pending[v])
          BY <2>4 DEF LedgerInv, AllProper
        <4> QED BY <4>1, <3>1, <2>4, <1>t
      <3> QED BY <3>2, <3>3 DEF AllProper
    <2> QED BY <2>5, <2>6, <2>7 DEF LedgerInv
  <1>4. ASSUME NEW w \in Writers, Drop(w) PROVE LedgerInv'
    <2>1. log' = log /\ clock' = clock /\ pending' = [pending EXCEPT ![w] = None]
      BY <1>4 DEF Drop
    <2>2. Stamped' = Stamped \ {w} /\ \A v \in Stamped' : v \in Stamped /\ pending'[v] = pending[v]
      BY <2>1, <1>t DEF Stamped
    <2>3. LedgerTypes'
      <3>1. pending' \in [Writers -> Event \cup {None}]
        BY <2>1, <1>t
      <3> QED BY <2>1, <2>2, <3>1 DEF LedgerInv, LedgerTypes
    <2> QED BY <2>1, <2>2, <2>3 DEF LedgerInv, AssertedOnce, AllProper
  <1>5. CASE Tick
    <2>1. log' = log /\ pending' = pending /\ clock' \in Times /\ clock <= clock' /\ clock' \in Nat
      BY <1>5, <1>t, LedgerAssumption DEF Tick, Times
    <2>2. Stamped' = Stamped
      BY <2>1 DEF Stamped
    <2>3. LedgerTypes'
      <3>1. \A e \in Event : e.tx \in Nat /\ (e.tx <= clock => e.tx <= clock')
        BY <2>1, <1>t DEF Event, Times
      <3>2. \A k \in 1..Len(log) : log[k] \in Event
        BY <1>t
      <3>3. \A w \in Stamped : pending[w] \in Event
        BY <1>t DEF Stamped
      <3> QED BY <2>1, <2>2, <3>1, <3>2, <3>3 DEF LedgerInv, LedgerTypes
    <2> QED BY <2>1, <2>2, <2>3 DEF LedgerInv, AssertedOnce, AllProper
  <1>6. CASE UNCHANGED vars
    <2>1. log' = log /\ pending' = pending /\ clock' = clock
      BY <1>6 DEF vars
    <2>2. Stamped' = Stamped
      BY <2>1 DEF Stamped
    <2> QED BY <2>1, <2>2 DEF LedgerInv, LedgerTypes, AssertedOnce, AllProper
  <1> QED BY <1>1, <1>2, <1>3, <1>4, <1>5, <1>6 DEF Next

LEMMA LedgerInvariant == Spec => []LedgerInv
  BY LedgerInvInit, LedgerInvNext, PTL DEF Spec

-------------------------------------------------------------------------------
(* The past, and retractions.                                              *)

(* What the invariant says of the lines, in the form the proofs below use. *)
LEMMA LogIs ==
    ASSUME LedgerInv
    PROVE  /\ log \in Seq(Event) /\ Len(log) \in Nat /\ DOMAIN log = 1..Len(log)
           /\ \A k \in 1..Len(log) : log[k] \in Event /\ log[k].tx \in Nat /\ log[k].tx <= clock
                                     /\ log[k].fact \in Facts /\ log[k].from \in Times
           /\ clock \in Times /\ clock \in Nat /\ Times \subseteq Nat /\ MaxTime \in Nat
           /\ Facts \subseteq Nat
  <1>1. log \in Seq(Event) /\ \A k \in 1..Len(log) : log[k].tx <= clock
    BY DEF LedgerInv, LedgerTypes
  <1>2. Times \subseteq Nat /\ MaxTime \in Nat /\ Facts \subseteq Nat
    BY LedgerAssumption DEF Times, Facts
  <1>3. \A k \in 1..Len(log) : log[k] \in Event
    BY <1>1
  <1>4. \A e \in Event : e.tx \in Times /\ e.fact \in Facts /\ e.from \in Times
    BY DEF Event
  <1>5. clock \in Times
    BY DEF LedgerInv, LedgerTypes
  <1>6. Len(log) \in Nat /\ DOMAIN log = 1..Len(log)
    BY <1>1
  <1>7. \A k \in 1..Len(log) : log[k].tx \in Nat /\ log[k].fact \in Facts /\ log[k].from \in Times
    BY <1>2, <1>3, <1>4
  <1> QED BY <1>1, <1>2, <1>3, <1>5, <1>6, <1>7

LEMMA AskedIs ==
    ASSUME NEW t \in Times, NEW v \in Times, NEW s
    PROVE  /\ Asked(t, v, s).tx = t /\ Asked(t, v, s).valid = v /\ Asked(t, v, s).subject = s
           /\ Asked(t, v, s).tx \in Nat /\ Asked(t, v, s).before \in Nat
           /\ Asked(t, v, s).tx < Asked(t, v, s).before
  BY LedgerAssumption DEF Asked, Times

LEMMA QueriesAre ==
    ASSUME NEW q \in Queries
    PROVE  q.tx \in Nat /\ q.before \in Nat /\ q.tx < q.before
  BY LedgerAssumption DEF Queries, Times

(* A line stamped after t changes nothing that was known at t.             *)
LEMMA KnownStays ==
    ASSUME LedgerInv, NEW e \in Event, NEW t \in Nat, e.tx > t, log' = Append(log, e)
    PROVE  Known(log', t) = Known(log, t)
  <1>1. /\ Len(log') = Len(log) + 1 /\ DOMAIN log' = 1..Len(log) + 1 /\ log'[Len(log) + 1] = e
        /\ \A k \in 1..Len(log) : log'[k] = log[k]
    <2>1. log' \in Seq(Event)
      BY LogIs, AppendProperties
    <2> QED BY <2>1, LogIs, AppendProperties
  <1>2. ~(e.tx <= t)
    BY LedgerAssumption DEF Event, Times
  <1>3. {k \in DOMAIN log' : log'[k].tx <= t} = {k \in DOMAIN log : log[k].tx <= t}
    <2>1. \A k \in DOMAIN log' : k = Len(log) + 1 \/ k \in DOMAIN log
      BY <1>1, LogIs
    <2> QED BY <1>1, <1>2, <2>1, LogIs
  <1>4. \A k \in {j \in DOMAIN log : log[j].tx <= t} : log'[k] = log[k]
    BY <1>1, LogIs
  <1> QED BY <1>3, <1>4 DEF Known, Restrict

LEMMA SettledStands ==
    ASSUME LedgerInv, LedgerInv', [Next]_vars, log' # log, NEW q \in Queries, Settled(q.tx)
    PROVE  Reference(log', q) = Reference(log, q)
  <1>1. PICK w \in Writers : AppendEvent(w)
    BY DEF Next, vars, AssertFact, Retract, Forget, TakeBack, Stamp, Drop, Tick
  <1>2. log' = Append(log, pending[w]) /\ w \in Stamped
    BY <1>1 DEF AppendEvent, Stamped
  <1>3. pending[w] \in Event
    BY <1>2 DEF LedgerInv, LedgerTypes, Stamped
  <1>4. pending[w].tx > q.tx
    BY <1>2 DEF Settled
  <1>5. Known(log', q.tx) = Known(log, q.tx)
    BY <1>2, <1>3, <1>4, QueriesAre, KnownStays
  <1>6. Reference(log, q) = AsOf(Known(log, q.tx), q)
    BY LogIs, QueriesAre, ReferenceIs
  <1>7. Reference(log', q) = AsOf(Known(log', q.tx), q)
    <2>1. LedgerInv' => Len(log') \in Nat /\ DOMAIN log' = 1..Len(log') /\ \A k \in 1..Len(log') : log'[k].tx \in Nat
      <3>1. LedgerInv' => log' \in Seq(Event)
        BY DEF LedgerInv, LedgerTypes
      <3>2. \A x \in Event : x.tx \in Nat
        BY LedgerAssumption DEF Event, Times
      <3> QED BY <3>1, <3>2
    <2> QED BY <2>1, QueriesAre, ReferenceIs
  <1> QED BY <1>5, <1>6, <1>7

(* What the ledger answers about a time that is settled, no clock reading  *)
(* it or any writer still having an event of it, never changes again       *)
(* (Ledger.PastStands; believesAsOf, ledger.ts).                           *)
THEOREM PastIsSettled == Spec => PastStands
  <1>1. LedgerInv /\ LedgerInv' /\ [Next]_vars =>
            [log' # log => \A q \in Queries : Settled(q.tx) => Reference(log', q) = Reference(log, q)]_vars
    BY SettledStands
  <1> QED BY <1>1, LedgerInvariant, PTL DEF Spec, PastStands

LEMMA AllKnown ==
    ASSUME LedgerInv
    PROVE  DOMAIN Known(log, clock) = 1..Len(log) /\ \A k \in 1..Len(log) : Known(log, clock)[k] = log[k]
  <1>1. {k \in DOMAIN log : log[k].tx <= clock} = 1..Len(log)
    BY LogIs
  <1> QED BY <1>1, LogIs, RestrictIs DEF Known

(* A fact that is retracted has no more part in any answer about now than  *)
(* if it had never been asserted: its own answer is gone, and what it      *)
(* superseded is valid as it was.                                          *)
LEMMA Undone ==
    ASSUME LedgerInv, NEW f \in Facts, RetractedIn(log, f), NEW v \in Times, NEW s \in Subjects \cup {Whatever}
    PROVE  Reference(log, Asked(clock, v, s)) = Reference(Without(log, f), Asked(clock, v, s))
  <1> DEFINE q == Asked(clock, v, s)
             W == Without(log, f)
             N == Known(log, clock)
             M == Known(W, clock)
             K == {k \in 1..Len(log) : log[k].fact # f}
  <1>q. q.tx = clock /\ q.valid = v /\ q.tx \in Nat /\ q.before \in Nat /\ q.tx < q.before
    BY LogIs, AskedIs
  <1>1. DOMAIN W = K /\ \A k \in K : W[k] = log[k]
    <2>1. W = Restrict(log, K) /\ K \subseteq DOMAIN log
      BY LogIs DEF Without
    <2> HIDE DEF W, K
    <2> QED BY <2>1, RestrictIs
  <1>2. DOMAIN N = 1..Len(log) /\ \A k \in 1..Len(log) : N[k] = log[k]
    BY AllKnown
  <1>3. DOMAIN M = K /\ \A k \in K : M[k] = log[k]
    <2>1. {k \in DOMAIN W : W[k].tx <= clock} = K
      BY <1>1, LogIs
    <2> HIDE DEF W, K
    <2>2. M = Restrict(W, K)
      BY <2>1 DEF Known
    <2>3. DOMAIN M = K /\ \A k \in K : M[k] = W[k]
      BY <1>1, <2>2, RestrictIs
    <2> QED BY <1>1, <2>3
  <1>4. Reference(log, q) = AsOf(N, q)
    <2> HIDE DEF q
    <2>1. Reference(log, q) = AsOf(Known(log, q.tx), q)
      BY LogIs, <1>q, ReferenceIs
    <2> QED BY <2>1, <1>q
  <1>5. Reference(W, q) = AsOf(M, q)
    <2> HIDE DEF q, W
    <2>1. DOMAIN W \subseteq 1..Len(log) /\ \A k \in DOMAIN W : W[k].tx \in Nat
      BY <1>1, LogIs
    <2>2. Reference(W, q) = AsOf(Known(W, q.tx), q)
      BY <2>1, LogIs, <1>q, ReferenceIs
    <2> QED BY <2>2, <1>q
  <1> HIDE DEF q, W, N, M
  <1>6. \A g : g # f => (RetractedIn(N, g) <=> RetractedIn(M, g))
    BY <1>2, <1>3 DEF RetractedIn
  <1>7. RetractedIn(N, f)
    BY <1>2, LogIs DEF RetractedIn
  <1>8. \A g : ReplacementsIn(N, g) = ReplacementsIn(M, g)
    <2> TAKE g
    <2>1. ReplacementsIn(N, g) \subseteq K /\ ReplacementsIn(M, g) \subseteq K
      BY <1>2, <1>3, <1>7 DEF ReplacementsIn
    <2>2. \A k \in K : k \in ReplacementsIn(N, g) <=> k \in ReplacementsIn(M, g)
      BY <1>2, <1>3, <1>6 DEF ReplacementsIn
    <2> QED BY <2>1, <2>2
  <1>9. ASSUME NEW g PROVE ValidTo(N, g) = ValidTo(M, g)
    <2> DEFINE R == ReplacementsIn(N, g)
    <2>1. R = ReplacementsIn(M, g) /\ R \subseteq K
      BY <1>3, <1>8 DEF ReplacementsIn
    <2>2. R # {} => Max(R) \in R
      <3>1. R \subseteq 0..Len(log)
        BY <2>1
      <3> HIDE DEF R
      <3> QED BY <3>1, LogIs, GreatestBelow
    <2>3. R # {} => N[Max(R)] = M[Max(R)]
      BY <1>2, <1>3, <2>1, <2>2
    <2> QED BY <2>1, <2>3, Zenon DEF ValidTo
  <1>10. \A k \in 1..Len(log) : Answers(N, q, k) <=> Answers(M, q, k)
    <2> TAKE k \in 1..Len(log)
    <2>1. CASE k \in K
      BY <2>1, <1>2, <1>3, <1>6, <1>9 DEF Answers
    <2>2. CASE k \notin K
      BY <2>2, <1>2, <1>3, <1>7 DEF Answers
    <2> QED BY <2>1, <2>2
  <1>11. AsOf(N, q) = AsOf(M, q)
    <2>1. AsOf(N, q) = {log[k].fact : k \in {j \in DOMAIN log : Answers(N, q, j)}}
      BY <1>2, LogIs, AsOfIs
    <2>2. AsOf(M, q) = {log[k].fact : k \in {j \in DOMAIN log : Answers(M, q, j)}}
      <3>1. DOMAIN M \subseteq DOMAIN log /\ \A k \in DOMAIN M : M[k] = log[k]
        BY <1>3, LogIs
      <3> QED BY <3>1, AsOfIs
    <2> QED BY <1>10, <2>1, <2>2, LogIs
  <1> QED BY <1>4, <1>5, <1>11 DEF q, W

(* A retraction undoes the assert and the supersession it made             *)
(* (Ledger.RetractUndoes).                                                 *)
THEOREM RetractionsUndo == Spec => []RetractUndoes
  <1>1. LedgerInv => RetractUndoes
    BY Undone DEF RetractUndoes
  <1> QED BY <1>1, LedgerInvariant, PTL

-------------------------------------------------------------------------------
(* get against asOf.                                                       *)

(* The type invariant the runs check.                                      *)
LEMMA TypesHold == LedgerInv => TypeOK
  <1> SUFFICES ASSUME LedgerInv PROVE TypeOK
    OBVIOUS
  <1>1. ASSUME NEW k \in DOMAIN log, log[k].supersedes # None
        PROVE  \E j \in 1..(k - 1) : /\ log[j].kind = "assert"
                                     /\ log[j].fact = log[k].supersedes
                                     /\ log[j].from <= log[k].from
    <2>1. Proper(log, k - 1, log[k])
      BY LogIs DEF LedgerInv, AllProper
    <2> QED BY <1>1, <2>1 DEF Proper
  <1>2. \A w \in Stamped : pending[w] \in Event /\ pending[w].tx <= clock
    BY DEF LedgerInv, LedgerTypes, Stamped
  <1> QED BY <1>1, <1>2, LogIs DEF TypeOK

(* The one assert of a fact.                                               *)
LEMMA AssertIs ==
    ASSUME LedgerInv, NEW k \in 1..Len(log), log[k].kind = "assert"
    PROVE  /\ log[k].subject \in Subjects
           /\ \A j \in 1..Len(log) : log[j].kind = "assert" /\ log[j].fact = log[k].fact => j = k
  <1>1. Proper(log, k - 1, log[k])
    BY DEF LedgerInv, AllProper
  <1>2. log[k].fact \in Facts
    BY LogIs
  <1> QED BY <1>1, <1>2 DEF Proper, LedgerInv, AssertedOnce, Asserts

(* A retraction comes after the assert of its fact.                        *)
LEMMA OtherIs ==
    ASSUME LedgerInv, NEW k \in 1..Len(log), log[k].kind # "assert"
    PROVE  /\ log[k].supersedes = None
           /\ \E j \in 1..(k - 1) : log[j].kind = "assert" /\ log[j].fact = log[k].fact
  <1>1. Proper(log, k - 1, log[k])
    BY DEF LedgerInv, AllProper
  <1> QED BY <1>1 DEF Proper

LEMMA AskedOfAll ==
    ASSUME LedgerInv, NEW v \in Times, NEW s
    PROVE  Reference(log, Asked(clock, v, s)) = AsOf(log, Asked(clock, v, s))
  <1> DEFINE q == Asked(clock, v, s)
  <1>1. q.tx = clock /\ q.tx \in Nat /\ q.before \in Nat /\ q.tx < q.before
    BY LogIs, AskedIs
  <1>2. Reference(log, q) = AsOf(Known(log, q.tx), q)
    <2> HIDE DEF q
    <2> QED BY LogIs, <1>1, ReferenceIs
  <1>3. Known(log, clock) = log
    <2>1. {k \in DOMAIN log : log[k].tx <= clock} = DOMAIN log
      BY LogIs
    <2>2. log = [k \in DOMAIN log |-> log[k]]
      BY LogIs
    <2> QED BY <2>1, <2>2 DEF Known, Restrict
  <1> QED BY <1>1, <1>2, <1>3

(* get(id) and asOf agree about one fact.                                  *)
LEMMA OneFactsView ==
    ASSUME LedgerInv, NEW v \in Times, NEW f \in Facts
    PROVE  f \in AsOf(log, Asked(clock, v, Whatever)) <=> GetHolds(log, f, v)
  <1> DEFINE q == Asked(clock, v, Whatever)
             a == AssertOf(log, f)
             R == ReplacementsIn(log, f)
  <1>1. q.valid = v /\ \A s : Matches(q, s)
    BY LogIs, AskedIs DEF Matches
  <1>2. f \in AsOf(log, q) <=> \E k \in DOMAIN log : Answers(log, q, k) /\ log[k].fact = f
    BY DEF AsOf, Answers
  <1> HIDE DEF q
  <1>3. CASE ~AssertedIn(log, f)
    <2>1. \A k \in DOMAIN log : ~(log[k].kind = "assert" /\ log[k].fact = f)
      BY <1>3 DEF AssertedIn
    <2>2. f \notin AsOf(log, q)
      BY <1>2, <2>1 DEF Answers
    <2>3. ~GetHolds(log, f, v)
      BY <1>3, Zenon DEF GetHolds
    <2> QED BY <2>2, <2>3 DEF q
  <1>4. CASE AssertedIn(log, f)
    <2>1. a \in DOMAIN log /\ log[a].kind = "assert" /\ log[a].fact = f
      BY <1>4 DEF AssertedIn, AssertOf
    <2>2. \A k \in DOMAIN log : log[k].kind = "assert" /\ log[k].fact = f => k = a
      BY <2>1, AssertIs, LogIs
    <2>3. f \in AsOf(log, q) <=> Answers(log, q, a)
      BY <1>2, <2>1, <2>2 DEF Answers
    <2>4. R \subseteq DOMAIN For(log, f) /\ (\A k \in DOMAIN For(log, f) : k \in DOMAIN log /\ For(log, f)[k] = log[k])
          /\ \A k \in DOMAIN For(log, f) : log[k].supersedes = f => log[k].kind = "assert"
      <3> DEFINE K == {k \in DOMAIN log : log[k].fact = f \/ log[k].supersedes = f}
      <3>1. DOMAIN For(log, f) = K /\ \A k \in K : For(log, f)[k] = log[k]
        BY RestrictIs DEF For
      <3>2. f # None
        BY LedgerAssumption
      <3>3. \A k \in K : log[k].supersedes = f => log[k].kind = "assert"
        BY <3>2, OtherIs, LogIs
      <3>4. R \subseteq K
        BY DEF ReplacementsIn
      <3> QED BY <3>1, <3>3, <3>4
    <2>5. {k \in DOMAIN For(log, f) : /\ For(log, f)[k].supersedes = f
                                      /\ ~RetractedIn(log, For(log, f)[k].fact)} = R
      BY <2>4 DEF ReplacementsIn
    <2>6. R # {} => Max(R) \in R
      <3>1. R \subseteq 0..Len(log)
        BY LogIs DEF ReplacementsIn
      <3> HIDE DEF R
      <3> QED BY <3>1, LogIs, GreatestBelow
    <2>7. R # {} => For(log, f)[Max(R)] = log[Max(R)]
      BY <2>4, <2>6
    <2>8. (v < ValidTo(log, f)) <=> (R = {} \/ v < log[Max(R)].from)
      <3>1. CASE R = {}
        <4>1. v < MaxTime + 1
          BY LedgerAssumption DEF Times
        <4> QED BY <3>1, <4>1 DEF ValidTo
      <3>2. CASE R # {}
        BY <3>2 DEF ValidTo
      <3> QED BY <3>1, <3>2
    <2>9. GetHolds(log, f, v) <=> /\ ~RetractedIn(log, f) /\ log[a].from <= v
                                  /\ R = {} \/ v < log[Max(R)].from
      BY <1>4, <2>5, <2>7, Zenon DEF GetHolds
    <2>10. Answers(log, q, a) <=> ~RetractedIn(log, f) /\ log[a].from <= v /\ v < ValidTo(log, f)
      <3> HIDE DEF a
      <3> QED BY <1>1, <2>1 DEF Answers
    <2> QED BY <2>3, <2>8, <2>9, <2>10 DEF q
  <1> QED BY <1>3, <1>4 DEF q

(* The views of the ledger agree (EventStores.ViewsAgree).                 *)
LEMMA ViewsDoAgree == LedgerInv => ViewsAgree
  <1> SUFFICES ASSUME LedgerInv, NEW v \in Times
        PROVE Reference(log, Asked(clock, v, Whatever)) = {f \in Facts : GetHolds(log, f, v)}
    BY DEF ViewsAgree
  <1>1. Reference(log, Asked(clock, v, Whatever)) = AsOf(log, Asked(clock, v, Whatever))
    BY AskedOfAll
  <1>2. AsOf(log, Asked(clock, v, Whatever)) \subseteq Facts
    BY LogIs DEF AsOf
  <1> QED BY <1>1, <1>2, OneFactsView

-------------------------------------------------------------------------------
(* The file of lines and the table of rows.                                *)

(* Has one of the lines up to n forgotten the fact of line k?              *)
Gone(k, n) == \E j \in k + 1..n : log[j].kind = "forget" /\ IsAssertOf(log[k], log[j].fact)

(* What the two stores hold after n appends: every event in its place,     *)
(* without its value if it has been forgotten, and in the table with its   *)
(* columns besides.                                                        *)
LineOf(k, n) == [event |-> log[k], value |-> IF Gone(k, n) THEN "erased" ELSE "kept"]
FileOf(n) == [k \in 1..n |-> LineOf(k, n)]
RowOf(k, n) == [kind |-> log[k].kind, tx |-> log[k].tx, columns |-> Columns(log[k]), json |-> LineOf(k, n)]
TableOf(n) == [k \in 1..n |-> RowOf(k, n)]

LEMMA AppendIs ==
    ASSUME NEW n \in Nat, NEW s, s = [k \in 1..n |-> s[k]], NEW x
    PROVE  Append(s, x) = [k \in 1..n + 1 |-> IF k <= n THEN s[k] ELSE x]
  <1> DEFINE S == {s[k] : k \in 1..n} \cup {x}
             t == [k \in 1..n + 1 |-> IF k <= n THEN s[k] ELSE x]
  <1>1. s \in Seq(S) /\ Len(s) = n
    <2>1. s \in [1..n -> S]
      OBVIOUS
    <2>2. s \in Seq(S)
      BY <2>1
    <2> QED BY <2>1, <2>2, LenProperties
  <1>2. x \in S
    OBVIOUS
  <1>3. /\ Append(s, x) \in Seq(S) /\ Len(Append(s, x)) = n + 1
        /\ \A k \in 1..n : Append(s, x)[k] = s[k]
        /\ Append(s, x)[n + 1] = x
    <2> HIDE DEF S
    <2> QED BY <1>1, <1>2, AppendProperties
  <1>4. Append(s, x) = [k \in 1..n + 1 |-> Append(s, x)[k]]
    <2> HIDE DEF S
    <2> QED BY <1>3, LenProperties
  <1>5. \A k \in 1..n + 1 : Append(s, x)[k] = IF k <= n THEN s[k] ELSE x
    BY <1>3
  <1> QED BY <1>4, <1>5

(* Line k after one append more.                                           *)
LEMMA ErasedByNext ==
    ASSUME LedgerInv, NEW n \in Nat, n + 1 <= Len(log), NEW k \in 1..n
    PROVE  LineOf(k, n + 1) = IF log[n + 1].kind = "forget" THEN WithoutValue(LineOf(k, n), log[n + 1].fact)
                              ELSE LineOf(k, n)
  <1>1. k + 1..n + 1 = (k + 1..n) \cup {n + 1}
    OBVIOUS
  <1>2. Gone(k, n + 1) <=> Gone(k, n) \/ (log[n + 1].kind = "forget" /\ IsAssertOf(log[k], log[n + 1].fact))
    BY <1>1 DEF Gone
  <1> QED BY <1>2 DEF LineOf, WithoutValue

(* One append to the file of lines, and to the table.                      *)
LEMMA JsonlPuts ==
    ASSUME LedgerInv, NEW n \in Nat, n + 1 <= Len(log)
    PROVE  JsonlPut(FileOf(n), log[n + 1]) = FileOf(n + 1)
  <1> DEFINE e == log[n + 1]
             s == IF e.kind = "forget" THEN [k \in DOMAIN FileOf(n) |-> WithoutValue(FileOf(n)[k], e.fact)] ELSE FileOf(n)
  <1>1. s = [k \in 1..n |-> LineOf(k, n + 1)]
    <2>1. DOMAIN FileOf(n) = 1..n /\ \A k \in 1..n : FileOf(n)[k] = LineOf(k, n)
      BY DEF FileOf
    <2>2. CASE e.kind = "forget"
      <3>1. \A k \in 1..n : WithoutValue(FileOf(n)[k], e.fact) = LineOf(k, n + 1)
        BY <2>1, <2>2, ErasedByNext
      <3> QED BY <2>1, <2>2, <3>1
    <2>3. CASE e.kind # "forget"
      <3>1. \A k \in 1..n : LineOf(k, n) = LineOf(k, n + 1)
        BY <2>3, ErasedByNext
      <3> QED BY <2>3, <3>1 DEF FileOf
    <2> QED BY <2>2, <2>3
  <1>2. JsonlPut(FileOf(n), e) = Append(s, Line(e))
    BY DEF JsonlPut
  <1>3. Line(e) = LineOf(n + 1, n + 1)
    <2>1. ~Gone(n + 1, n + 1)
      BY DEF Gone
    <2> QED BY <2>1 DEF Line, LineOf
  <1>4. Append(s, Line(e)) = [k \in 1..n + 1 |-> IF k <= n THEN s[k] ELSE Line(e)]
    <2>1. s = [k \in 1..n |-> s[k]]
      BY <1>1
    <2> HIDE DEF s
    <2> QED BY <2>1, AppendIs
  <1>5. \A k \in 1..n + 1 : (IF k <= n THEN s[k] ELSE Line(e)) = LineOf(k, n + 1)
    <2> HIDE DEF s, e
    <2>1. \A k \in 1..n : s[k] = LineOf(k, n + 1)
      BY <1>1
    <2> QED BY <1>3, <2>1
  <1> HIDE DEF s, e
  <1>6. JsonlPut(FileOf(n), e) = FileOf(n + 1)
    BY <1>2, <1>4, <1>5 DEF FileOf
  <1> QED BY <1>6 DEF e

LEMMA RowPuts ==
    ASSUME LedgerInv, NEW n \in Nat, n + 1 <= Len(log)
    PROVE  RowPut(TableOf(n), log[n + 1]) = TableOf(n + 1)
  <1> DEFINE e == log[n + 1]
             T == TableOf(n)
             s == IF e.kind = "forget"
                  THEN [k \in DOMAIN T |-> [T[k] EXCEPT !.json = WithoutValue(@, e.fact)]] ELSE T
  <1>1. s = [k \in 1..n |-> RowOf(k, n + 1)]
    <2>1. DOMAIN T = 1..n /\ \A k \in 1..n : T[k] = RowOf(k, n)
      BY DEF TableOf
    <2>2. CASE e.kind = "forget"
      <3>1. \A k \in 1..n : [T[k] EXCEPT !.json = WithoutValue(@, e.fact)] = RowOf(k, n + 1)
        <4> TAKE k \in 1..n
        <4>1. T[k] = RowOf(k, n) /\ WithoutValue(LineOf(k, n), e.fact) = LineOf(k, n + 1)
          BY <2>1, <2>2, ErasedByNext
        <4> QED BY <4>1 DEF RowOf
      <3> HIDE DEF T
      <3> QED BY <2>1, <2>2, <3>1
    <2>3. CASE e.kind # "forget"
      <3>1. \A k \in 1..n : RowOf(k, n) = RowOf(k, n + 1)
        BY <2>3, ErasedByNext DEF RowOf
      <3> QED BY <2>3, <3>1 DEF TableOf
    <2> QED BY <2>2, <2>3
  <1>2. RowPut(T, e) = Append(s, Row(e))
    BY DEF RowPut
  <1>3. Row(e) = RowOf(n + 1, n + 1)
    <2>1. ~Gone(n + 1, n + 1)
      BY DEF Gone
    <2> QED BY <2>1 DEF Line, LineOf, Row, RowOf
  <1>4. Append(s, Row(e)) = [k \in 1..n + 1 |-> IF k <= n THEN s[k] ELSE Row(e)]
    <2>1. s = [k \in 1..n |-> s[k]]
      BY <1>1
    <2> HIDE DEF s
    <2> QED BY <2>1, AppendIs
  <1>5. \A k \in 1..n + 1 : (IF k <= n THEN s[k] ELSE Row(e)) = RowOf(k, n + 1)
    <2> HIDE DEF s, e
    <2>1. \A k \in 1..n : s[k] = RowOf(k, n + 1)
      BY <1>1
    <2> QED BY <1>3, <2>1
  <1> HIDE DEF s, e, T
  <1>6. RowPut(T, e) = TableOf(n + 1)
    BY <1>2, <1>4, <1>5 DEF TableOf
  <1> QED BY <1>6 DEF e, T

IsJsonl(f) == f = [k \in 0..Len(log) |-> IF k = 0 THEN <<>> ELSE JsonlPut(f[k-1], log[k])]

(* The stores after every append of the log.                               *)
LEMMA JsonlIs == ASSUME LedgerInv PROVE Jsonl(log) = FileOf(Len(log))
  <1> DEFINE g == [k \in 0..Len(log) |-> FileOf(k)]
  <1>1. FileOf(0) = <<>>
    BY DEF FileOf
  <1>2. IsJsonl(g)
    <2>1. ASSUME NEW k \in 0..Len(log)
          PROVE  g[k] = IF k = 0 THEN <<>> ELSE JsonlPut(g[k-1], log[k])
      <3>1. CASE k = 0
        BY <1>1, <3>1
      <3>2. CASE k # 0
        <4>1. k - 1 \in Nat /\ (k - 1) + 1 = k /\ k <= Len(log) /\ k - 1 \in 0..Len(log)
          BY <3>2, LogIs
        <4>2. JsonlPut(FileOf(k - 1), log[k]) = FileOf(k)
          BY <4>1, JsonlPuts
        <4> QED BY <3>2, <4>1, <4>2
      <3> QED BY <3>1, <3>2
    <2>2. g = [k \in 0..Len(log) |-> g[k]]
      OBVIOUS
    <2> HIDE DEF g
    <2> QED BY <2>1, <2>2 DEF IsJsonl
  <1>3. \A f : IsJsonl(f) => f[Len(log)] = FileOf(Len(log))
    <2> SUFFICES ASSUME NEW f, IsJsonl(f) PROVE f[Len(log)] = FileOf(Len(log))
      OBVIOUS
    <2> DEFINE S == {k \in Nat : k <= Len(log) => f[k] = FileOf(k)}
    <2>1. 0 \in S
      BY <1>1, LogIs DEF IsJsonl
    <2>2. ASSUME NEW k \in Nat, k \in S PROVE k + 1 \in S
      <3> SUFFICES ASSUME k + 1 <= Len(log) PROVE f[k + 1] = FileOf(k + 1)
        OBVIOUS
      <3>1. f[k + 1] = JsonlPut(f[k], log[k + 1])
        <4>1. k + 1 \in 0..Len(log) /\ k + 1 # 0 /\ (k + 1) - 1 = k
          BY LogIs
        <4> QED BY <4>1 DEF IsJsonl
      <3>2. f[k] = FileOf(k)
        BY <2>2, LogIs
      <3> QED BY <3>1, <3>2, JsonlPuts
    <2>3. \A k \in Nat : k \in S
      <3> HIDE DEF S
      <3> QED BY <2>1, <2>2, UpFromZero
    <2> QED BY <2>3, LogIs
  <1>4. Jsonl(log) = (CHOOSE f : IsJsonl(f))[Len(log)]
    BY Zenon DEF Jsonl, IsJsonl
  <1>5. IsJsonl(CHOOSE f : IsJsonl(f))
    BY <1>2, Zenon
  <1> QED BY <1>3, <1>4, <1>5

IsRows(f) == f = [k \in 0..Len(log) |-> IF k = 0 THEN <<>> ELSE RowPut(f[k-1], log[k])]

LEMMA RowsAre == ASSUME LedgerInv PROVE Rows(log) = TableOf(Len(log))
  <1> DEFINE g == [k \in 0..Len(log) |-> TableOf(k)]
  <1>1. TableOf(0) = <<>>
    BY DEF TableOf
  <1>2. IsRows(g)
    <2>1. ASSUME NEW k \in 0..Len(log)
          PROVE  g[k] = IF k = 0 THEN <<>> ELSE RowPut(g[k-1], log[k])
      <3>1. CASE k = 0
        BY <1>1, <3>1
      <3>2. CASE k # 0
        <4>1. k - 1 \in Nat /\ (k - 1) + 1 = k /\ k <= Len(log) /\ k - 1 \in 0..Len(log)
          BY <3>2, LogIs
        <4>2. RowPut(TableOf(k - 1), log[k]) = TableOf(k)
          BY <4>1, RowPuts
        <4> QED BY <3>2, <4>1, <4>2
      <3> QED BY <3>1, <3>2
    <2>2. g = [k \in 0..Len(log) |-> g[k]]
      OBVIOUS
    <2> HIDE DEF g
    <2> QED BY <2>1, <2>2 DEF IsRows
  <1>3. \A f : IsRows(f) => f[Len(log)] = TableOf(Len(log))
    <2> SUFFICES ASSUME NEW f, IsRows(f) PROVE f[Len(log)] = TableOf(Len(log))
      OBVIOUS
    <2> DEFINE S == {k \in Nat : k <= Len(log) => f[k] = TableOf(k)}
    <2>1. 0 \in S
      BY <1>1, LogIs DEF IsRows
    <2>2. ASSUME NEW k \in Nat, k \in S PROVE k + 1 \in S
      <3> SUFFICES ASSUME k + 1 <= Len(log) PROVE f[k + 1] = TableOf(k + 1)
        OBVIOUS
      <3>1. f[k + 1] = RowPut(f[k], log[k + 1])
        <4>1. k + 1 \in 0..Len(log) /\ k + 1 # 0 /\ (k + 1) - 1 = k
          BY LogIs
        <4> QED BY <4>1 DEF IsRows
      <3>2. f[k] = TableOf(k)
        BY <2>2, LogIs
      <3> QED BY <3>1, <3>2, RowPuts
    <2>3. \A k \in Nat : k \in S
      <3> HIDE DEF S
      <3> QED BY <2>1, <2>2, UpFromZero
    <2> QED BY <2>3, LogIs
  <1>4. Rows(log) = (CHOOSE f : IsRows(f))[Len(log)]
    BY Zenon DEF Rows, IsRows
  <1>5. IsRows(CHOOSE f : IsRows(f))
    BY <1>2, Zenon
  <1> QED BY <1>3, <1>4, <1>5

(* The same, a line at a time.                                             *)
LEMMA LinesAre ==
    ASSUME LedgerInv
    PROVE  /\ DOMAIN Jsonl(log) = DOMAIN log /\ DOMAIN Rows(log) = DOMAIN log
           /\ \A k \in DOMAIN log : Jsonl(log)[k] = LineOf(k, Len(log)) /\ Rows(log)[k] = RowOf(k, Len(log))
  <1>1. Jsonl(log) = [k \in 1..Len(log) |-> LineOf(k, Len(log))]
    BY JsonlIs DEF FileOf
  <1>2. Rows(log) = [k \in 1..Len(log) |-> RowOf(k, Len(log))]
    BY RowsAre DEF TableOf
  <1> QED BY <1>1, <1>2, LogIs

LEMMA ColumnsAre ==
    ASSUME NEW e
    PROVE  /\ Columns(e).fact = e.fact
           /\ e.kind = "assert" => Columns(e).subject = e.subject /\ Columns(e).supersedes = e.supersedes
           /\ e.kind # "assert" => Columns(e).subject = None /\ Columns(e).supersedes = None
  BY DEF Columns, Null

(* A WHERE on columns selects what a filter on lines does.                 *)
LEMMA RowsSelect ==
    ASSUME LedgerInv, NEW K, K \subseteq DOMAIN log
    PROVE  Json(Restrict(Rows(log), K)) = Restrict(Jsonl(log), K)
  <1>1. DOMAIN Restrict(Rows(log), K) = K /\ \A k \in K : Restrict(Rows(log), K)[k] = Rows(log)[k]
    BY LinesAre, RestrictIs
  <1>2. \A k \in K : Rows(log)[k].json = Jsonl(log)[k]
    BY LinesAre DEF RowOf
  <1> QED BY <1>1, <1>2 DEF Json, Restrict

LEMMA EventsSelect ==
    ASSUME LedgerInv, NEW K, K \subseteq DOMAIN log
    PROVE  Events(Restrict(Jsonl(log), K)) = Restrict(log, K)
  <1>1. DOMAIN Restrict(Jsonl(log), K) = K /\ \A k \in K : Restrict(Jsonl(log), K)[k] = Jsonl(log)[k]
    BY LinesAre, RestrictIs
  <1>2. \A k \in K : Jsonl(log)[k].event = log[k]
    BY LinesAre DEF LineOf
  <1> QED BY <1>1, <1>2 DEF Events, Restrict

LEMMA EventsAre == LedgerInv => Events(Jsonl(log)) = log
  <1> SUFFICES ASSUME LedgerInv PROVE Events(Jsonl(log)) = log
    OBVIOUS
  <1>1. \A k \in DOMAIN log : Jsonl(log)[k].event = log[k]
    BY LinesAre DEF LineOf
  <1>2. log = [k \in DOMAIN log |-> log[k]]
    BY LogIs
  <1> QED BY <1>1, <1>2, LinesAre DEF Events

LEMMA MatchedRowsAre == ASSUME LedgerInv, NEW q PROVE MatchedRows(Rows(log), q) = MatchedIn(log, q)
  <1>1. \A k \in DOMAIN log : /\ Rows(log)[k].tx = log[k].tx /\ Rows(log)[k].kind = log[k].kind
                              /\ Rows(log)[k].columns.fact = log[k].fact
                              /\ log[k].kind = "assert" => Rows(log)[k].columns.subject = log[k].subject
    BY LinesAre, ColumnsAre DEF RowOf
  <1>2. DOMAIN Rows(log) = DOMAIN log
    BY LinesAre
  <1> QED BY <1>1, <1>2 DEF MatchedRows, MatchedIn, FactsIn

(* The recursive SELECT finds what selectIds must find.                    *)
LEMMA SqlIdsAre ==
    ASSUME LedgerInv, NEW q
    PROVE  /\ MatchedIn(log, q) \subseteq SqlIds(Rows(log), q)
           /\ \A k \in DOMAIN log : log[k].kind = "assert" /\ log[k].supersedes \in MatchedIn(log, q) =>
                 log[k].fact \in SqlIds(Rows(log), q)
  <1> DEFINE M == MatchedIn(log, q)
  <1>1. SqlIds(Rows(log), q) = M \cup FactsIn(Rows(log), {k \in DOMAIN Rows(log) : Rows(log)[k].columns.supersedes \in M})
    BY MatchedRowsAre DEF SqlIds
  <1>2. \A k \in DOMAIN log : /\ Rows(log)[k].kind = log[k].kind
                              /\ Rows(log)[k].columns.fact = log[k].fact
                              /\ log[k].kind = "assert" => Rows(log)[k].columns.supersedes = log[k].supersedes
    BY LinesAre, ColumnsAre DEF RowOf
  <1> HIDE DEF M
  <1> QED BY <1>1, <1>2, LinesAre DEF FactsIn, M

RowPlaces(q) == {k \in DOMAIN log : log[k].fact \in SqlIds(Rows(log), q) /\ log[k].tx <= q.tx}
LinePlaces(q) == {k \in DOMAIN log : log[k].fact \in SelectIds(log, q) /\ log[k].tx <= q.tx}

LEMMA AboutRowsAre == ASSUME LedgerInv, NEW q PROVE AboutRows(Rows(log), q) = Restrict(Jsonl(log), RowPlaces(q))
  <1> DEFINE ids == SqlIds(Rows(log), q)
  <1>1. {k \in DOMAIN Rows(log) : Rows(log)[k].columns.fact \in ids /\ Rows(log)[k].tx <= q.tx} = RowPlaces(q)
    <2>1. \A k \in DOMAIN log : Rows(log)[k].columns.fact = log[k].fact /\ Rows(log)[k].tx = log[k].tx
      BY LinesAre, ColumnsAre DEF RowOf
    <2> QED BY <2>1, LinesAre DEF RowPlaces
  <1>2. RowPlaces(q) \subseteq DOMAIN log
    BY DEF RowPlaces
  <1> QED BY <1>1, <1>2, RowsSelect DEF AboutRows

LEMMA AboutLinesAre == ASSUME LedgerInv, NEW q PROVE AboutLines(Jsonl(log), q) = Restrict(Jsonl(log), LinePlaces(q))
  <1> DEFINE ids == SelectIds(log, q)
  <1>1. {k \in DOMAIN Jsonl(log) : Jsonl(log)[k].event.fact \in ids /\ Jsonl(log)[k].event.tx <= q.tx} = LinePlaces(q)
    <2>1. \A k \in DOMAIN log : Jsonl(log)[k].event = log[k]
      BY LinesAre DEF LineOf
    <2> QED BY <2>1, LinesAre DEF LinePlaces
  <1> QED BY <1>1, EventsAre DEF AboutLines

(* asOf over the rows a SELECT returns is the reference.                   *)
LEMMA RowsBelieveTheSame ==
    ASSUME LedgerInv, NEW q \in Queries
    PROVE  AsOf(Events(AboutRows(Rows(log), q)), q) = Reference(log, q)
  <1> DEFINE ids == SqlIds(Rows(log), q)
  <1>1. RowPlaces(q) \subseteq DOMAIN log
    BY DEF RowPlaces
  <1>2. Events(AboutRows(Rows(log), q)) = About(log, ids, q)
    BY <1>1, AboutRowsAre, EventsSelect DEF About, RowPlaces
  <1>3. AsOf(About(log, ids, q), q) = AsOf(Known(log, q.tx), q)
    <2>1. /\ MatchedIn(log, q) \subseteq ids
          /\ \A k \in DOMAIN log : log[k].kind = "assert" /\ log[k].supersedes \in MatchedIn(log, q) => log[k].fact \in ids
      BY SqlIdsAre
    <2> HIDE DEF ids
    <2> QED BY <2>1, LogIs, QueriesAre, AnySelection
  <1>4. Reference(log, q) = AsOf(Known(log, q.tx), q)
    BY LogIs, QueriesAre, ReferenceIs
  <1> QED BY <1>2, <1>3, <1>4

(* The two stores find the same lines of a fact.                           *)
LEMMA ForRowsAre ==
    ASSUME LedgerInv, NEW f \in Facts
    PROVE  ForRows(Rows(log), f) = ForLines(Jsonl(log), f)
  <1> DEFINE K == {k \in DOMAIN log : log[k].fact = f \/ (log[k].kind = "assert" /\ log[k].supersedes = f)}
  <1>1. {k \in DOMAIN Rows(log) : Rows(log)[k].columns.fact = f \/ Rows(log)[k].columns.supersedes = f} = K
    <2>1. \A k \in DOMAIN log : Rows(log)[k].columns = Columns(log[k])
      BY LinesAre DEF RowOf
    <2>2. f # None
      BY LedgerAssumption
    <2>3. ASSUME NEW k \in DOMAIN log
          PROVE  (Rows(log)[k].columns.fact = f \/ Rows(log)[k].columns.supersedes = f) <=> k \in K
      <3>1. Columns(log[k]).supersedes = f <=> log[k].kind = "assert" /\ log[k].supersedes = f
        BY <2>2, ColumnsAre
      <3> QED BY <2>1, <3>1, ColumnsAre
    <2> QED BY <2>3, LinesAre
  <1>2. {k \in DOMAIN Jsonl(log) : \/ Jsonl(log)[k].event.fact = f
                                   \/ Jsonl(log)[k].event.kind = "assert" /\ Jsonl(log)[k].event.supersedes = f} = K
    <2>1. \A k \in DOMAIN log : Jsonl(log)[k].event = log[k]
      BY LinesAre DEF LineOf
    <2>2. DOMAIN Jsonl(log) = DOMAIN log
      BY LinesAre
    <2> QED BY <2>1, <2>2
  <1>3. K \subseteq DOMAIN log
    OBVIOUS
  <1> HIDE DEF K
  <1> QED BY <1>1, <1>2, <1>3, RowsSelect DEF ForRows, ForLines

LEMMA SpacesAre ==
    ASSUME LedgerInv PROVE SpacesOfRows(Rows(log)) = SpacesOfLines(Jsonl(log))
  <1> DEFINE S == {log[k].subject : k \in {j \in DOMAIN log : log[j].kind = "assert"}}
  <1>1. SpacesOfLines(Jsonl(log)) = S
    <2>1. \A k \in DOMAIN log : Jsonl(log)[k].event = log[k]
      BY LinesAre DEF LineOf
    <2> QED BY <2>1, LinesAre DEF SpacesOfLines
  <1>2. SpacesOfRows(Rows(log)) = S
    <2>1. \A k \in DOMAIN log : Rows(log)[k].columns = Columns(log[k])
      BY LinesAre DEF RowOf
    <2>2. \A k \in DOMAIN log : log[k].kind = "assert" => log[k].subject # None
      BY LogIs, AssertIs, LedgerAssumption
    <2>3. \A k \in DOMAIN log : Rows(log)[k].columns.subject =
              IF log[k].kind = "assert" THEN log[k].subject ELSE None
      BY <2>1, ColumnsAre
    <2> QED BY <2>2, <2>3, LinesAre DEF SpacesOfRows, Null
  <1> QED BY <1>1, <1>2

(* What a retention sweep has to find: facts learned before its time whose *)
(* value is not gone.                                                      *)
Learned(q) == {k \in DOMAIN log : /\ log[k].kind = "assert" /\ log[k].tx < q.before /\ Matches(q, log[k].subject)
                                  /\ ~Gone(k, Len(log))}

LEMMA LearnedIs ==
    ASSUME LedgerInv, NEW q \in Sweeps, NEW K, K \subseteq DOMAIN log,
           \A k \in DOMAIN log : log[k].fact \in MatchedIn(log, q) => k \in K
    PROVE  LearnedBefore(Restrict(Jsonl(log), K), q) = {log[k].fact : k \in Learned(q)}
  <1> DEFINE A == Restrict(Jsonl(log), K)
  <1>1. DOMAIN A = K /\ \A k \in K : A[k] = LineOf(k, Len(log))
    BY LinesAre, RestrictIs
  <1>2. \A k \in K : A[k].event = log[k] /\ (A[k].value = "kept" <=> ~Gone(k, Len(log)))
    BY <1>1 DEF LineOf
  <1>3. ASSUME NEW k \in Learned(q) PROVE k \in K
    <2>1. k \in DOMAIN log /\ log[k].kind = "assert" /\ log[k].tx < q.before /\ Matches(q, log[k].subject)
      BY DEF Learned
    <2>2. Within(q, log[k].tx)
      <3>1. q.tx = MaxTime
        BY DEF Sweeps
      <3>2. log[k].tx <= clock /\ clock <= MaxTime
        BY <2>1, LogIs DEF Times
      <3> QED BY <2>1, <3>1, <3>2, LogIs DEF Within
    <2>3. log[k].fact \in MatchedIn(log, q)
      BY <2>1, <2>2 DEF MatchedIn
    <2> QED BY <2>1, <2>3
  <1> HIDE DEF A
  <1>4. {j \in DOMAIN A : LET l == A[j] IN /\ l.event.kind = "assert" /\ l.event.tx < q.before
                                           /\ Matches(q, l.event.subject) /\ l.value = "kept"} = Learned(q)
    <2>1. \A j \in K : j \in DOMAIN log
      OBVIOUS
    <2> QED BY <1>1, <1>2, <1>3, <2>1 DEF Learned
  <1>5. LearnedBefore(A, q) = {A[k].event.fact : k \in Learned(q)}
    BY <1>4 DEF LearnedBefore
  <1>6. \A k \in Learned(q) : A[k].event.fact = log[k].fact
    BY <1>2, <1>3
  <1> QED BY <1>5, <1>6 DEF A

LEMMA ByRowsAndLines ==
    ASSUME LedgerInv, NEW q \in Sweeps
    PROVE  /\ LearnedBefore(AboutRows(Rows(log), q), q) = {log[k].fact : k \in Learned(q)}
           /\ LearnedBefore(AboutLines(Jsonl(log), q), q) = {log[k].fact : k \in Learned(q)}
  <1>1. \A k \in DOMAIN log : log[k].tx <= q.tx
    <2>1. q.tx = MaxTime
      BY DEF Sweeps
    <2> QED BY <2>1, LogIs DEF Times
  <1>2. \A k \in DOMAIN log : log[k].fact \in MatchedIn(log, q) => k \in RowPlaces(q)
    BY <1>1, SqlIdsAre DEF RowPlaces
  <1>3. \A k \in DOMAIN log : log[k].fact \in MatchedIn(log, q) => k \in LinePlaces(q)
    <2>1. MatchedIn(log, q) \subseteq SelectIds(log, q)
      BY LogIs, SelectedAre
    <2> QED BY <1>1, <2>1 DEF LinePlaces
  <1>4. RowPlaces(q) \subseteq DOMAIN log /\ LinePlaces(q) \subseteq DOMAIN log
    BY DEF RowPlaces, LinePlaces
  <1> QED BY <1>2, <1>3, <1>4, AboutRowsAre, AboutLinesAre, LearnedIs

(* Whatever the stores are asked, they answer alike                        *)
(* (EventStores.StoresBelieveTheSame).                                     *)
LEMMA StoresAgree == LedgerInv => StoresBelieveTheSame
  <1> SUFFICES ASSUME LedgerInv PROVE StoresBelieveTheSame
    OBVIOUS
  <1>1. Json(Rows(log)) = Jsonl(log)
    <2>1. \A k \in DOMAIN log : Rows(log)[k].json = Jsonl(log)[k]
      BY LinesAre DEF RowOf
    <2>2. Jsonl(log) = [k \in DOMAIN log |-> Jsonl(log)[k]]
      BY JsonlIs, LinesAre DEF FileOf
    <2> QED BY <2>1, <2>2, LinesAre DEF Json
  <1> QED BY <1>1, SpacesAre, ForRowsAre, RowsBelieveTheSame, ByRowsAndLines DEF StoresBelieveTheSame

(* A sweep of either store finds every value it should                     *)
(* (EventStores.SweepsFindAll).                                            *)
LEMMA SweepsFind == LedgerInv => SweepsFindAll
  <1> SUFFICES ASSUME LedgerInv, NEW q \in Sweeps
        PROVE  LearnedBefore(AboutLines(Jsonl(log), q), q) =
            {f \in Facts : /\ \E k \in DOMAIN log : /\ IsAssertOf(log[k], f) /\ log[k].tx < q.before
                                                    /\ Matches(q, log[k].subject)
                           /\ ~ForgottenIn(log, f)}
    BY DEF SweepsFindAll
  <1>1. ASSUME NEW k \in DOMAIN log, log[k].kind = "assert" PROVE Gone(k, Len(log)) <=> ForgottenIn(log, log[k].fact)
    <2>1. ASSUME NEW j \in DOMAIN log, log[j].kind = "forget", log[j].fact = log[k].fact
          PROVE  j \in k + 1..Len(log)
      <3>1. PICK i \in 1..(j - 1) : log[i].kind = "assert" /\ log[i].fact = log[j].fact
        BY <2>1, OtherIs, LogIs
      <3>2. i = k
        BY <1>1, <2>1, <3>1, AssertIs, LogIs
      <3> QED BY <3>1, <3>2, LogIs
    <2>2. Gone(k, Len(log)) => ForgottenIn(log, log[k].fact)
      <3> SUFFICES ASSUME NEW j \in k + 1..Len(log), log[j].kind = "forget", IsAssertOf(log[k], log[j].fact)
                   PROVE  ForgottenIn(log, log[k].fact)
        BY DEF Gone
      <3>1. j \in DOMAIN log
        BY LogIs
      <3> QED BY <3>1 DEF ForgottenIn, IsAssertOf
    <2> QED BY <1>1, <2>1, <2>2 DEF Gone, ForgottenIn, IsAssertOf
  <1>2. LearnedBefore(AboutLines(Jsonl(log), q), q) = {log[k].fact : k \in Learned(q)}
    BY ByRowsAndLines
  <1>3. \A k \in DOMAIN log : log[k].fact \in Facts
    BY LogIs
  <1> QED BY <1>1, <1>2, <1>3 DEF Learned, IsAssertOf

(* Every way of asking the ledger gives the same answer: get, asOf and     *)
(* history, the file of lines and the table of rows                        *)
(* (EventStores.QueriesAgree; store.ts, sql.ts, ledger.ts).                *)
THEOREM QueriesDoAgree == Spec => []QueriesAgree
  <1>1. LedgerInv => QueriesAgree
    BY TypesHold, StoresAgree, ViewsDoAgree, SweepsFind DEF QueriesAgree
  <1> QED BY <1>1, LedgerInvariant, PTL

-------------------------------------------------------------------------------
(* blastRadius.                                                            *)

(* What the blast radius needs to know of an archive: its summaries are of *)
(* this log and show what was there to be shown, and a direct write has no *)
(* receipt.                                                                *)
ArchiveOf(A) ==
    /\ Summaries(A) \subseteq DOMAIN log
    /\ \A k \in DOMAIN log : A.shown[k] \subseteq Showable(log, k)
    /\ \A k \in A.direct : ~HasReceipt(A, k)

LEMMA ShownIs ==
    ASSUME NEW s \in Shown(log), NEW k \in DOMAIN log
    PROVE  s[k] \subseteq Showable(log, k)
  <1>1. PICK R : s = [j \in DOMAIN log |-> IF j \in Writes(log) THEN {f \in Showable(log, j) : <<j, f>> \in R}
                                           ELSE Showable(log, j)]
    BY DEF Shown
  <1> QED BY <1>1

LEMMA OddIs ==
    ASSUME NEW k \in DOMAIN log, NEW o \in Odd(log, k) \cup {Plain(log)}
    PROVE  /\ \A p \in o.files : p[1] \in DOMAIN log
           /\ \A j \in o.direct : <<j, "receipt">> \notin o.files
  <1>1. Plain(log).files = (DOMAIN log) \X {"receipt"} /\ Plain(log).direct = {}
    BY DEF Plain
  <1>2. /\ o.files \subseteq (DOMAIN log) \X {"receipt", "authorization"}
        /\ o.direct = {} \/ (o.direct = {k} /\ <<k, "receipt">> \notin o.files)
    <2>1. CASE o = Plain(log)
      BY <1>1, <2>1
    <2>2. CASE o \in Odd(log, k)
      <3> DEFINE p == Plain(log)
      <3>1. \/ o.direct = {k} /\ o.files = p.files \ {<<k, "receipt">>}
            \/ o.direct = {} /\ o.files \subseteq p.files \cup {<<k, "authorization">>}
        <4> DEFINE F == (DOMAIN log) \X {"receipt"}
                   q == [direct |-> {}, swept |-> {}, files |-> F]
                   r == <<k, "receipt">>
                   a == <<k, "authorization">>
        <4>1. \/ o = [q EXCEPT !.direct = {k}, !.files = @ \ {r}]
              \/ o = [q EXCEPT !.swept = {k}]
              \/ o = [q EXCEPT !.files = @ \ {r}]
              \/ o = [q EXCEPT !.files = (@ \ {r}) \cup {a}]
              \/ o = [q EXCEPT !.files = @ \cup {a}]
          BY <2>2 DEF Odd, Plain
        <4> HIDE DEF F, r, a
        <4>2. \/ o.direct = {k} /\ o.files = q.files \ {r}
              \/ o.direct = {} /\ o.files \subseteq q.files \cup {a}
          <5>1. CASE o = [q EXCEPT !.direct = {k}, !.files = @ \ {r}]
            BY <5>1
          <5>2. CASE o = [q EXCEPT !.swept = {k}]
            BY <5>2
          <5>3. CASE o = [q EXCEPT !.files = @ \ {r}]
            BY <5>3
          <5>4. CASE o = [q EXCEPT !.files = (@ \ {r}) \cup {a}]
            BY <5>4
          <5>5. CASE o = [q EXCEPT !.files = @ \cup {a}]
            BY <5>5
          <5> QED BY <4>1, <5>1, <5>2, <5>3, <5>4, <5>5
        <4> QED BY <4>2 DEF F, r, a, Plain
      <3>2. p.files \cup {<<k, "authorization">>} \subseteq (DOMAIN log) \X {"receipt", "authorization"}
        BY <1>1
      <3> HIDE DEF p
      <3> QED BY <3>1, <3>2
    <2> QED BY <2>1, <2>2
  <1> QED BY <1>2

(* The archives the run takes are such.                                    *)
LEMMA ArchivesAre == ASSUME log # <<>>, LedgerInv, NEW A \in Archives(log) PROVE ArchiveOf(A)
  <1>1. PICK s \in Shown(log), k \in DOMAIN log : \E o \in Odd(log, k) \cup {Plain(log)} : A = Shows(log, s, o)
    <2>1. 1 \in DOMAIN log
      BY LogIs, EmptySeq
    <2> QED BY <2>1 DEF Archives, AllKept
  <1>2. PICK o \in Odd(log, k) \cup {Plain(log)} : A.shown = s /\ A.direct = o.direct /\ A.files = o.files
    BY <1>1 DEF Shows
  <1> QED BY <1>2, ShownIs, OddIs DEF ArchiveOf, Summaries, HasReceipt

(* The assert of a fact.                                                   *)
LEMMA PlaceIs ==
    ASSUME LedgerInv, NEW f, f \in FactsOf(log)
    PROVE  /\ AssertOf(log, f) \in 1..Len(log) /\ log[AssertOf(log, f)].kind = "assert"
           /\ log[AssertOf(log, f)].fact = f
           /\ \A k \in 1..Len(log) : log[k].kind = "assert" /\ log[k].fact = f => k = AssertOf(log, f)
  <1>1. \E k \in DOMAIN log : log[k].kind = "assert" /\ log[k].fact = f
    BY DEF FactsOf, AssertedIn
  <1>2. AssertOf(log, f) \in DOMAIN log /\ log[AssertOf(log, f)].kind = "assert" /\ log[AssertOf(log, f)].fact = f
    BY <1>1 DEF AssertOf
  <1> QED BY <1>2, LogIs, AssertIs

(* One pass of blastRadius, and the passes it makes.                       *)
Pass(A, root, S) ==
    [hit |-> Hits(A, {root} \cup S), derived |-> Written(log, A, Hits(A, {root} \cup S)) \ {root}]
IsBlast(A, root, pass) ==
    pass = [n \in 0..Len(log) |-> Pass(A, root, IF n = 0 THEN {} ELSE pass[n-1].derived)]

(* The passes exist, and the report is the last of them.                   *)
LEMMA BlastRuns ==
    ASSUME LedgerInv, NEW A, NEW root
    PROVE  \E pass : IsBlast(A, root, pass) /\ BlastRadius(log, A, root) = pass[Len(log)]
  <1> DEFINE n == Len(log)
             V == [hit : SUBSET Summaries(A), derived : SUBSET FactsOf(log)]
             Step == [p \in (1..n) \X V |-> Pass(A, root, p[2].derived)]
  <1>1. \A S : Pass(A, root, S) \in V
    BY DEF Pass, Hits, Written
  <1>2. Step \in [(1..n) \X V -> V]
    BY <1>1
  <1>3. PICK f : IsIteration(f, V, Pass(A, root, {}), n, Step)
    <2>1. n \in Nat /\ Pass(A, root, {}) \in V
      BY <1>1, LogIs
    <2> HIDE DEF n, V, Step
    <2> QED BY <1>2, <2>1, Iterates
  <1>4. \A k \in 0..n : f[k] = Pass(A, root, IF k = 0 THEN {} ELSE f[k-1].derived)
    <2> SUFFICES ASSUME NEW k \in 0..n, k # 0 PROVE f[k] = Pass(A, root, f[k-1].derived)
      BY <1>3 DEF IsIteration
    <2>1. k \in 1..n /\ k - 1 \in 0..n
      BY LogIs
    <2>2. <<k, f[k-1]>> \in (1..n) \X V
      BY <2>1, <1>3 DEF IsIteration
    <2>3. f[k] = Step[<<k, f[k - 1]>>]
      BY <2>1, <1>3 DEF IsIteration
    <2> QED BY <2>2, <2>3
  <1>5. IsBlast(A, root, f)
    <2>1. f = [k \in 0..n |-> f[k]]
      BY <1>3 DEF IsIteration
    <2> QED BY <1>4, <2>1, Zenon DEF IsBlast
  <1>6. BlastRadius(log, A, root) = (CHOOSE g : IsBlast(A, root, g))[n]
    BY Zenon DEF BlastRadius, IsBlast, Pass
  <1>7. IsBlast(A, root, CHOOSE g : IsBlast(A, root, g))
    BY <1>5, Zenon
  <1> QED BY <1>6, <1>7

LEMMA WrittenIs ==
    ASSUME LedgerInv, NEW A, NEW hit
    PROVE  Written(log, A, hit) = {f \in FactsOf(log) : AssertOf(log, f) \in hit \ A.direct}
  BY DEF Written, SourceOf, Source

(* The descendants of a fact, a least closed set, have among them the      *)
(* reason of each.                                                         *)
LEMMA DescendantsAre ==
    ASSUME LedgerInv, NEW A, NEW root, root \in FactsOf(log)
    PROVE  LET D == Descendants(log, A, root)
           IN  /\ root \in D /\ D \subseteq FactsOf(log)
               /\ \A S \in SUBSET FactsOf(log) : root \in S /\ ClosedUnder(log, A, S) => D \subseteq S
               /\ \A f \in D \ {root} : \E k \in SourceOf(log, A, f) \cap Summaries(A) : A.shown[k] \cap D # {}
  <1> DEFINE D == Descendants(log, A, root)
  <1>1. root \in D /\ D \subseteq FactsOf(log)
        /\ \A S \in SUBSET FactsOf(log) : root \in S /\ ClosedUnder(log, A, S) => D \subseteq S
    BY DEF Descendants
  <1>2. ASSUME NEW g \in FactsOf(log), NEW k \in SourceOf(log, A, g) \cap Summaries(A), A.shown[k] \cap D # {}
        PROVE  g \in D
    <2> SUFFICES ASSUME NEW S \in SUBSET FactsOf(log), root \in S, ClosedUnder(log, A, S) PROVE g \in S
      BY DEF Descendants
    <2>1. D \subseteq S
      BY <1>1
    <2>2. A.shown[k] \cap S # {}
      <3> HIDE DEF D
      <3> QED BY <1>2, <2>1
    <2> QED BY <2>2 DEF ClosedUnder
  <1> HIDE DEF D
  <1>3. ASSUME NEW f \in D \ {root}
        PROVE  \E k \in SourceOf(log, A, f) \cap Summaries(A) : A.shown[k] \cap D # {}
    <2> SUFFICES ASSUME \A k \in SourceOf(log, A, f) \cap Summaries(A) : A.shown[k] \cap D = {}
                 PROVE  FALSE
      OBVIOUS
    <2> DEFINE S == D \ {f}
    <2>1. ASSUME NEW g \in FactsOf(log), NEW k \in SourceOf(log, A, g) \cap Summaries(A), A.shown[k] \cap S # {}
          PROVE  g \in S
      <3>1. A.shown[k] \cap D # {}
        BY <2>1
      <3>2. g \in D
        BY <1>2, <3>1
      <3>3. g # f
        BY <3>1
      <3> QED BY <3>2, <3>3
    <2>2. ClosedUnder(log, A, S)
      <3> HIDE DEF S
      <3> QED BY <2>1 DEF ClosedUnder
    <2>3. root \in S /\ S \in SUBSET FactsOf(log)
      BY <1>1
    <2>4. D \subseteq S
      <3> HIDE DEF S
      <3> QED BY <1>1, <2>2, <2>3
    <2> QED BY <2>4
  <1> QED BY <1>1, <1>3 DEF D

(* No pass reports more than the descendants.                              *)
LEMMA PassesStay ==
    ASSUME LedgerInv, NEW A, NEW root, root \in FactsOf(log), NEW pass, IsBlast(A, root, pass)
    PROVE  \A n \in 0..Len(log) : pass[n].derived \subseteq Descendants(log, A, root) \ {root}
  <1> SUFFICES ASSUME NEW S \in SUBSET FactsOf(log), root \in S, ClosedUnder(log, A, S)
               PROVE  \A n \in 0..Len(log) : pass[n].derived \subseteq S
    <2> HIDE DEF Descendants
    <2>1. \A n \in 0..Len(log) : pass[n].derived \subseteq FactsOf(log) \ {root}
      <3>1. \A n \in 0..Len(log) : \E T : pass[n] = Pass(A, root, T)
        BY DEF IsBlast
      <3>2. \A T : Pass(A, root, T).derived \subseteq FactsOf(log) \ {root}
        BY DEF Pass, Written
      <3> QED BY <3>1, <3>2
    <2> QED BY <2>1 DEF Descendants
  <1>1. ASSUME NEW T, T \subseteq S PROVE Pass(A, root, T).derived \subseteq S
    <2> SUFFICES ASSUME NEW f \in Written(log, A, Hits(A, {root} \cup T)) PROVE f \in S
      BY DEF Pass
    <2>1. PICK k \in SourceOf(log, A, f) : k \in Hits(A, {root} \cup T)
      BY DEF Written
    <2>2. k \in Summaries(A) /\ A.shown[k] \cap S # {}
      BY <1>1, <2>1 DEF Hits
    <2>3. f \in FactsOf(log)
      BY DEF Written
    <2> QED BY <2>1, <2>2, <2>3 DEF ClosedUnder
  <1> DEFINE U == {n \in Nat : n <= Len(log) => pass[n].derived \subseteq S}
  <1>2. 0 \in U
    <2>1. pass[0] = Pass(A, root, {})
      BY LogIs DEF IsBlast
    <2> QED BY <1>1, <2>1
  <1>3. ASSUME NEW n \in Nat, n \in U PROVE n + 1 \in U
    <2> SUFFICES ASSUME n + 1 <= Len(log) PROVE pass[n + 1].derived \subseteq S
      OBVIOUS
    <2>1. n + 1 \in 0..Len(log) /\ n + 1 # 0 /\ (n + 1) - 1 = n
      BY LogIs
    <2>2. pass[n + 1] = Pass(A, root, pass[n].derived)
      BY <2>1 DEF IsBlast
    <2>3. pass[n].derived \subseteq S
      BY <1>3, LogIs
    <2> QED BY <1>1, <2>2, <2>3
  <1>4. \A n \in Nat : n \in U
    <2> HIDE DEF U
    <2> QED BY <1>2, <1>3, UpFromZero
  <1> QED BY <1>4, LogIs

(* A pass for each event is enough: a descendant is found once everything  *)
(* it was derived from, which is older, has been. Induction on the number  *)
(* of passes.                                                              *)
LEMMA PassesReach ==
    ASSUME LedgerInv, NEW A, ArchiveOf(A), NEW root, root \in FactsOf(log), NEW pass, IsBlast(A, root, pass)
    PROVE  \A n \in 0..Len(log) : \A f \in Descendants(log, A, root) \ {root} :
              AssertOf(log, f) <= n + 1 => f \in pass[n].derived
  <1> DEFINE D == Descendants(log, A, root)
             Found(n) == \A f \in D \ {root} : AssertOf(log, f) <= n + 1 => f \in pass[n].derived
             U == {n \in Nat : n <= Len(log) => Found(n)}
  <1>1. ASSUME NEW f \in D \ {root}
        PROVE  /\ AssertOf(log, f) \in (1..Len(log)) \ A.direct /\ AssertOf(log, f) \in Summaries(A)
               /\ f \in FactsOf(log)
               /\ \E g \in A.shown[AssertOf(log, f)] \cap D : AssertOf(log, g) < AssertOf(log, f)
    <2>1. f \in FactsOf(log)
      BY DescendantsAre
    <2>2. PICK c \in SourceOf(log, A, f) \cap Summaries(A) : A.shown[c] \cap D # {}
      BY DescendantsAre
    <2>3. c = AssertOf(log, f) /\ c \notin A.direct
      BY <2>2 DEF SourceOf, Source
    <2>4. c \in 1..Len(log)
      BY <2>1, <2>3, PlaceIs
    <2>5. PICK g : g \in A.shown[c] \cap D
      BY <2>2
    <2>6. g \in Showable(log, c)
      <3> HIDE DEF D
      <3> QED BY <2>4, <2>5, LogIs DEF ArchiveOf
    <2>7. PICK j \in 1..(c - 1) : log[j].fact = g
      BY <2>6 DEF Showable
    <2>8. g \in FactsOf(log)
      BY <2>6 DEF Showable
    <2>9. \E i \in 1..j : log[i].kind = "assert" /\ log[i].fact = g
      <3>1. j \in 1..Len(log)
        BY <2>4, LogIs
      <3> QED BY <2>7, <3>1, OtherIs, LogIs
    <2>10. AssertOf(log, g) < c
      BY <2>4, <2>8, <2>9, PlaceIs, LogIs
    <2> QED BY <2>1, <2>2, <2>3, <2>4, <2>5, <2>10
  <1>2. ASSUME NEW f \in D \ {root}, NEW T, \A g \in D \ {root} : AssertOf(log, g) < AssertOf(log, f) => g \in T
        PROVE  f \in Pass(A, root, T).derived
    <2> DEFINE c == AssertOf(log, f)
    <2>1. PICK g \in A.shown[c] \cap D : AssertOf(log, g) < c
      BY <1>1
    <2>2. g \in {root} \cup T
      BY <1>2, <2>1
    <2>3. c \in Hits(A, {root} \cup T)
      BY <1>1, <2>1, <2>2 DEF Hits
    <2>4. f \in Written(log, A, Hits(A, {root} \cup T))
      BY <1>1, <2>3, WrittenIs
    <2> QED BY <2>4 DEF Pass
  <1>3. ASSUME NEW f \in D PROVE AssertOf(log, f) \in 1..Len(log)
    BY DescendantsAre, PlaceIs
  <1> HIDE DEF D
  <1>4. 0 \in U
    <2>1. pass[0] = Pass(A, root, {})
      BY LogIs DEF IsBlast
    <2>2. ASSUME NEW f \in D \ {root}, AssertOf(log, f) <= 0 + 1 PROVE f \in pass[0].derived
      <3>1. \A g \in D \ {root} : ~(AssertOf(log, g) < AssertOf(log, f))
        BY <1>3, <2>2, LogIs
      <3> QED BY <1>2, <2>1, <3>1
    <2> QED BY <2>2
  <1>5. ASSUME NEW n \in Nat, n \in U PROVE n + 1 \in U
    <2> SUFFICES ASSUME n + 1 <= Len(log), NEW f \in D \ {root}, AssertOf(log, f) <= (n + 1) + 1
                 PROVE  f \in pass[n + 1].derived
      OBVIOUS
    <2>1. n + 1 \in 0..Len(log) /\ n + 1 # 0 /\ (n + 1) - 1 = n
      BY LogIs
    <2>2. pass[n + 1] = Pass(A, root, pass[n].derived)
      BY <2>1 DEF IsBlast
    <2>3. \A g \in D \ {root} : AssertOf(log, g) <= n + 1 => g \in pass[n].derived
      BY <1>5, LogIs
    <2>4. \A g \in D \ {root} : AssertOf(log, g) < AssertOf(log, f) => g \in pass[n].derived
      BY <1>3, <2>3, LogIs
    <2> QED BY <1>2, <2>2, <2>4
  <1>6. \A n \in Nat : n \in U
    <2> HIDE DEF U
    <2> QED BY <1>4, <1>5, UpFromZero
  <1> QED BY <1>6, LogIs DEF D

(* The report is the descendants, no less and no more                      *)
(* (Reports.BlastIsComplete).                                              *)
LEMMA BlastIs ==
    ASSUME LedgerInv, NEW A, ArchiveOf(A), NEW root, root \in FactsOf(log)
    PROVE  BlastIsComplete(log, A, root, BlastRadius(log, A, root))
  <1> DEFINE D == Descendants(log, A, root)
  <1>1. PICK pass : IsBlast(A, root, pass) /\ BlastRadius(log, A, root) = pass[Len(log)]
    BY BlastRuns
  <1>2. root \in D /\ D \subseteq FactsOf(log)
    BY DescendantsAre
  <1>3. \A f \in D : AssertOf(log, f) \in 1..Len(log)
    BY <1>2, PlaceIs
  <1>4. Len(log) - 1 \in 0..Len(log) /\ Len(log) \in 0..Len(log) /\ Len(log) # 0
    BY <1>2, <1>3, LogIs
  <1>5. pass[Len(log)].derived = D \ {root} /\ pass[Len(log) - 1].derived = D \ {root}
    <2>1. ASSUME NEW n \in {Len(log), Len(log) - 1} PROVE pass[n].derived = D \ {root}
      <3>1. n \in 0..Len(log) /\ \A f \in D : AssertOf(log, f) <= n + 1
        BY <1>3, <1>4, LogIs
      <3>2. pass[n].derived \subseteq D \ {root}
        BY <1>1, <3>1, PassesStay
      <3>3. \A f \in D \ {root} : f \in pass[n].derived
        BY <1>1, <3>1, PassesReach
      <3> QED BY <3>2, <3>3
    <2> QED BY <2>1
  <1>6. pass[Len(log)].hit = Hits(A, D)
    <2>1. pass[Len(log)] = Pass(A, root, pass[Len(log) - 1].derived)
      BY <1>1, <1>4 DEF IsBlast
    <2>2. {root} \cup (D \ {root}) = D
      BY <1>2
    <2> DEFINE e == pass[Len(log) - 1].derived
    <2>3. Pass(A, root, e).hit = Hits(A, {root} \cup e)
      BY DEF Pass
    <2>4. e = D \ {root}
      BY <1>5
    <2> HIDE DEF D, e
    <2> QED BY <2>1, <2>2, <2>3, <2>4 DEF e
  <1> QED BY <1>1, <1>5, <1>6 DEF BlastIsComplete, Hits

LEMMA BlastReaches ==
    ASSUME LedgerInv, NEW A, NEW root
    PROVE  /\ BlastRadius(log, A, root).hit \subseteq Summaries(A)
           /\ BlastRadius(log, A, root).derived \subseteq Written(log, A, BlastRadius(log, A, root).hit)
  <1>1. PICK pass : IsBlast(A, root, pass) /\ BlastRadius(log, A, root) = pass[Len(log)]
    BY BlastRuns
  <1>2. \E T : pass[Len(log)] = Pass(A, root, T)
    BY <1>1, LogIs DEF IsBlast
  <1> QED BY <1>1, <1>2 DEF Pass, Hits

-------------------------------------------------------------------------------
(* Packs and reviews.                                                      *)

(* An evidence pack contains what it needs and says what it lacks          *)
(* (Reports.PackIsHonest; pack.ts).                                        *)
LEMMA PackHonest ==
    ASSUME LedgerInv, NEW A, ArchiveOf(A), NEW f, f \in FactsOf(log)
    PROVE  PackIsHonest(log, A, f, BlastRadius(log, A, f))
  <1> DEFINE b == BlastRadius(log, A, f)
             W == Wanted(log, A, f)
             H == History(log, f)
  <1>1. \A k : HasReceipt(A, k) => k \in Summaries(A)
    <2> SUFFICES ASSUME NEW k, HasReceipt(A, k) PROVE k \in Summaries(A)
      OBVIOUS
    <2>1. <<k, "receipt">> \in A.files /\ <<k, "receipt">>[1] = k
      BY DEF HasReceipt
    <2> QED BY <2>1 DEF Summaries
  <1>2. \A g \in b.derived : SourceOf(log, A, g) \subseteq b.hit
    <2> SUFFICES ASSUME NEW g \in b.derived PROVE SourceOf(log, A, g) \subseteq b.hit
      OBVIOUS
    <2>1. SourceOf(log, A, g) \cap b.hit # {}
      BY BlastReaches DEF Written
    <2> QED BY <2>1 DEF SourceOf, Source
  <1>3. W = (H \ A.direct) \cup b.hit
    <2> DEFINE S == {Source(A, k) : k \in H}
               T == {SourceOf(log, A, g) : g \in b.derived}
    <2>1. W = UNION (S \cup {b.hit} \cup T)
      BY DEF Wanted
    <2>2. \A X \in S : X \subseteq H \ A.direct
      BY DEF Source
    <2>3. \A k \in H \ A.direct : {k} \in S
      <3> SUFFICES ASSUME NEW k \in H \ A.direct PROVE {k} \in S
        OBVIOUS
      <3>1. {k} = Source(A, k)
        BY DEF Source
      <3> HIDE DEF H
      <3> QED BY <3>1
    <2>4. \A X \in T : X \subseteq b.hit
      <3> HIDE DEF b
      <3> QED BY <1>2
    <2> HIDE DEF W, H, b, S, T
    <2> QED BY <2>1, <2>2, <2>3, <2>4
  <1>4. FirstForget(log, f) \subseteq H
    <2> DEFINE G == {k \in H : log[k].kind = "forget"}
    <2>1. CASE G = {}
      BY <2>1 DEF FirstForget
    <2>2. CASE G # {}
      <3>1. G \in SUBSET Nat
        BY LogIs DEF History
      <3>2. \E x \in G : \A y \in G : x <= y
        <4> HIDE DEF G
        <4> QED BY <2>2, <3>1, LeastNatural
      <3>3. Min(G) \in G
        BY <3>2 DEF Min
      <3> QED BY <3>3 DEF FirstForget
    <2> QED BY <2>1, <2>2
  <1> HIDE DEF b, W, H
  <1>5. PackVerifies(log, A, f) <=>
           /\ \A k \in (H \ A.direct) \cup b.hit : HasReceipt(A, k)
           /\ FirstForget(log, f) \cap (A.direct \cup A.swept) = {}
    BY <1>1, <1>3, <1>4 DEF PackVerifies, ForgetNamed, ArchiveOf, W
  <1>6. ASSUME PackVerifies(log, A, f), NEW k \in SourceOf(log, A, f) PROVE ActionPackVerifies(log, A, k)
    <2>1. k = AssertOf(log, f) /\ k \notin A.direct
      BY <1>6 DEF SourceOf, Source
    <2>2. k \in H
      BY <2>1, PlaceIs, LogIs DEF H, History
    <2>3. \A j \in b.hit \cup {k} : HasReceipt(A, j)
      BY <1>5, <1>6, <2>1, <2>2
    <2>4. \A g \in WrittenBy(log, A, k) : g = f
      <3> SUFFICES ASSUME NEW g \in WrittenBy(log, A, k) PROVE g = f
        OBVIOUS
      <3>1. g \in FactsOf(log) /\ AssertOf(log, g) = k
        BY DEF WrittenBy, Written, SourceOf, Source
      <3> QED BY <2>1, <3>1, PlaceIs
    <2>5. \A S \in {BlastRadius(log, A, g).hit : g \in WrittenBy(log, A, k)} : S = b.hit
      BY <2>4 DEF b
    <2> QED BY <2>3, <2>5 DEF ActionPackVerifies
  <1> QED BY <1>5, <1>6 DEF PackIsHonest, b, H

LEMMA NowBelieves ==
    ASSUME LedgerInv, NEW f \in Reference(log, Now(clock))
    PROVE  f \in FactsOf(log) /\ ~RetractedIn(log, f) /\ clock < ValidTo(log, f)
  <1>1. Reference(log, Now(clock)) = AsOf(log, Now(clock))
    BY LogIs, AskedOfAll DEF Now
  <1>2. PICK k \in DOMAIN log : Answers(log, Now(clock), k) /\ log[k].fact = f
    BY <1>1 DEF AsOf, Answers
  <1>3. f \in FactsOf(log)
    BY <1>2, LogIs DEF Answers, FactsOf, AssertedIn
  <1>4. Now(clock).valid = clock
    BY LogIs, AskedIs DEF Now
  <1> QED BY <1>2, <1>3, <1>4 DEF Answers

(* A review opens every belief its question names that still stands        *)
(* (Reports.OpenIsComplete; review.ts).                                    *)
LEMMA OpenComplete ==
    ASSUME LedgerInv, NEW A, NEW k
    PROVE  OpenIsComplete(log, A, k, clock)
  <1> SUFFICES ASSUME OpenBeliefs(log, A, k, clock) = {},
                      NEW f \in Reference(log, Now(clock)) \cap (WrittenBy(log, A, k) \cup Downstream(log, A, k))
               PROVE  f \in WrittenBy(log, A, k) /\ clock < ValidTo(log, f) /\ SupersededIn(log, f)
    BY DEF OpenIsComplete
  <1>1. f \notin Downstream(log, A, k)
    BY DEF OpenBeliefs, StillBelieved
  <1>2. Status(log, f) # "believed"
    BY <1>1 DEF OpenBeliefs
  <1>3. ~RetractedIn(log, f) /\ ~ForgottenIn(log, f) /\ clock < ValidTo(log, f)
    BY NowBelieves DEF RetractedIn, ForgottenIn
  <1>4. SupersededIn(log, f)
    BY <1>2, <1>3 DEF Status
  <1> QED BY <1>1, <1>3, <1>4

-------------------------------------------------------------------------------
(* Evaluations.                                                            *)

(* The asserts among the first n lines that nothing has withdrawn since.   *)
Standing(n) ==
    {j \in 1..n : /\ log[j].kind = "assert"
                  /\ \A i \in 1..n : ~(log[i].kind \in {"retract", "forget"} /\ log[i].fact = log[j].fact)}

(* What a scenario expects is the last of them.                            *)
LEMMA ExpectedIs ==
    ASSUME LedgerInv, NEW n \in 0..Len(log)
    PROVE  /\ Standing(n) = {} => Expected(log, n) = {}
           /\ Standing(n) # {} => /\ Max(Standing(n)) \in Standing(n)
                                  /\ \A j \in Standing(n) : j <= Max(Standing(n))
                                  /\ Expected(log, n) = {log[Max(Standing(n))].fact}
  <1> DEFINE P == SubSeq(log, 1, n)
             W == {j \in Writes(P) : ~RetractedIn(P, P[j].fact)}
  <1>1. DOMAIN P = 1..n /\ \A k \in 1..n : P[k] = log[k]
    <2>1. \A k \in 1..n : log[k] \in Event
      BY LogIs
    <2> QED BY <2>1, LogIs, SubSeqProperties
  <1>2. W = Standing(n)
    <2> HIDE DEF P
    <2>1. Writes(P) = {j \in 1..n : log[j].kind = "assert"}
      BY <1>1 DEF Writes
    <2>2. \A f : RetractedIn(P, f) <=> \E i \in 1..n : log[i].kind \in {"retract", "forget"} /\ log[i].fact = f
      BY <1>1 DEF RetractedIn
    <2> QED BY <1>1, <2>1, <2>2 DEF Standing
  <1>3. Expected(log, n) = IF W = {} THEN {} ELSE {P[Max(W)].fact}
    BY DEF Expected
  <1> HIDE DEF W, P
  <1>4. Standing(n) # {} => Max(Standing(n)) \in Standing(n) /\ \A j \in Standing(n) : j <= Max(Standing(n))
    <2>1. Standing(n) \in SUBSET (0..n) /\ n \in Nat
      BY DEF Standing
    <2> QED BY <2>1, GreatestBelow
  <1>5. Standing(n) # {} => P[Max(W)] = log[Max(Standing(n))]
    BY <1>1, <1>2, <1>4 DEF Standing
  <1> QED BY <1>2, <1>3, <1>4, <1>5

LEMMA StandingIs ==
    ASSUME LedgerInv
    PROVE  \A k \in DOMAIN log : k \in Standing(Len(log)) <=> log[k].kind = "assert" /\ ~RetractedIn(log, log[k].fact)
  BY LogIs DEF Standing, RetractedIn

LEMMA ScenarioIs ==
    ASSUME LedgerInv, Scenario(log), NEW k \in 1..Len(log)
    PROVE  /\ log[k].kind = "assert" => /\ log[k].from = log[k].tx
                                        /\ {log[k].supersedes} \ {None} = Expected(log, k - 1)
           /\ log[k].kind # "assert" => log[k].kind = "retract" /\ {log[k].fact} = Expected(log, k - 1)
  <1>1. \/ /\ log[k].kind = "assert" /\ log[k].from = log[k].tx
           /\ {log[k].supersedes} \ {None} = Expected(log, k - 1)
        \/ log[k].kind = "retract" /\ {log[k].fact} = Expected(log, k - 1)
    BY LogIs DEF Scenario
  <1> QED BY <1>1

(* In a scenario each assert that stands supersedes the one that stood     *)
(* before it.                                                              *)
LEMMA NextSupersedes ==
    ASSUME LedgerInv, Scenario(log),
           NEW j \in Standing(Len(log)), NEW k \in Standing(Len(log)), j < k,
           \A i \in Standing(Len(log)) : ~(j < i /\ i < k)
    PROVE  log[k].supersedes = log[j].fact
  <1> DEFINE N == Len(log)
  <1>1. j \in 1..N /\ k \in 1..N /\ k - 1 \in 0..N /\ N \in Nat /\ j \in 1..(k - 1)
    BY LogIs DEF Standing
  <1>2. j \in Standing(k - 1)
    <2>1. \A i \in 1..(k - 1) : i \in 1..N
      BY <1>1
    <2> QED BY <1>1, <2>1 DEF Standing
  <1> DEFINE m == Max(Standing(k - 1))
  <1>3. m \in Standing(k - 1) /\ j <= m /\ Expected(log, k - 1) = {log[m].fact}
    BY <1>1, <1>2, ExpectedIs
  <1>4. {log[k].supersedes} \ {None} = Expected(log, k - 1)
    BY <1>1, ScenarioIs DEF Standing
  <1>5. log[k].supersedes = log[m].fact
    BY <1>3, <1>4
  <1>6. m \in 1..(k - 1) /\ log[m].kind = "assert"
    BY <1>3 DEF Standing
  <1> HIDE DEF m
  <1>7. ASSUME m # j PROVE FALSE
    <2>1. m \notin Standing(N) /\ m \in 1..N /\ m < k
      BY <1>1, <1>3, <1>6, <1>7
    <2>2. PICK r \in 1..N : log[r].kind \in {"retract", "forget"} /\ log[r].fact = log[m].fact
      BY <1>6, <2>1 DEF Standing
    <2>3. r \notin 1..(k - 1) /\ r # k
      BY <1>3, <2>2 DEF Standing
    <2>4. k < r /\ r - 1 \in 0..N
      BY <1>1, <2>2, <2>3
    <2>5. k \in Standing(r - 1)
      <3>1. k \in 1..(r - 1) /\ \A i \in 1..(r - 1) : i \in 1..N
        BY <1>1, <2>4
      <3> QED BY <3>1 DEF Standing
    <2> DEFINE n == Max(Standing(r - 1))
    <2>6. n \in Standing(r - 1) /\ k <= n /\ Expected(log, r - 1) = {log[n].fact}
      BY <2>4, <2>5, ExpectedIs
    <2>7. n \in 1..(r - 1) /\ log[n].kind = "assert"
      BY <2>6 DEF Standing
    <2> HIDE DEF n
    <2>8. {log[r].fact} = Expected(log, r - 1)
      <3>1. log[r].kind # "assert"
        BY <2>2
      <3> QED BY <2>2, <3>1, ScenarioIs
    <2>9. log[n].fact = log[m].fact
      BY <2>2, <2>6, <2>8
    <2>10. n \in 1..N
      BY <1>1, <2>2, <2>7
    <2>11. n = m
      BY <1>6, <2>1, <2>7, <2>9, <2>10, AssertIs
    <2> QED BY <1>1, <2>1, <2>6, <2>10, <2>11
  <1> QED BY <1>5, <1>7

(* So the ledger, asked in the end, reads the last that stands.            *)
LEMMA LedgerReadIs ==
    ASSUME LedgerInv, Scenario(log)
    PROVE  LedgerRead(log, clock) = Expected(log, Len(log))
  <1> DEFINE N == Len(log)
             q == Now(clock)
             m == Max(Standing(N))
  <1>1. LedgerRead(log, clock) = AsOf(log, q)
    BY LogIs, AskedOfAll DEF Now, LedgerRead
  <1>2. q.valid = clock /\ (\A s : Matches(q, s)) /\ clock < MaxTime + 1
    BY LogIs, AskedIs DEF Now, Matches, Times
  <1>3. AsOf(log, q) = {log[k].fact : k \in {j \in DOMAIN log : Answers(log, q, j)}}
    BY LogIs, AsOfIs
  <1>n. N \in Nat /\ N \in 0..N
    BY LogIs
  <1> HIDE DEF q
  <1>4. ASSUME NEW k \in DOMAIN log, Answers(log, q, k) PROVE k \in Standing(N) /\ \A i \in Standing(N) : i <= k
    <2>1. k \in Standing(N)
      BY <1>4, StandingIs DEF Answers
    <2> SUFFICES ASSUME NEW i0 \in Standing(N), ~(i0 <= k) PROVE FALSE
      BY <2>1
    <2> DEFINE T == {i \in Standing(N) : k < i}
    <2>2. T \in SUBSET Nat /\ T # {}
      <3>1. Standing(N) \subseteq Nat /\ k \in Nat
        BY LogIs DEF Standing
      <3>2. i0 \in T
        BY <3>1
      <3> QED BY <3>1, <3>2
    <2>3. PICK i \in T : \A x \in T : i <= x
      <3> HIDE DEF T
      <3> QED BY <2>2, LeastNatural
    <2>4. \A x \in Standing(N) : ~(k < x /\ x < i)
      BY <2>2, <2>3
    <2>5. log[i].supersedes = log[k].fact
      BY <2>1, <2>3, <2>4, NextSupersedes
    <2> DEFINE R == ReplacementsIn(log, log[k].fact)
    <2>6. i \in R
      BY <2>3, <2>5, StandingIs, LogIs DEF ReplacementsIn, Standing
    <2>7. Max(R) \in R
      <3>1. R \in SUBSET (0..N)
        BY LogIs DEF ReplacementsIn
      <3> HIDE DEF R
      <3> QED BY <1>n, <2>6, <3>1, GreatestBelow
    <2>8. Max(R) \in 1..N /\ log[Max(R)].kind = "assert"
      BY <2>7, LogIs DEF ReplacementsIn
    <2>9. log[Max(R)].from <= clock
      BY <2>8, ScenarioIs, LogIs
    <2>10. ValidTo(log, log[k].fact) = log[Max(R)].from
      BY <2>6 DEF ValidTo
    <2>11. log[Max(R)].from \in Times
      BY <2>8, LogIs
    <2> HIDE DEF R
    <2>12. clock < log[Max(R)].from
      BY <1>2, <1>4, <2>10 DEF Answers
    <2> QED BY <2>9, <2>11, <2>12, LogIs
  <1>5. CASE Standing(N) = {}
    BY <1>1, <1>3, <1>4, <1>5, <1>n, ExpectedIs
  <1>6. CASE Standing(N) # {}
    <2>1. m \in Standing(N) /\ (\A j \in Standing(N) : j <= m) /\ Expected(log, N) = {log[m].fact}
      BY <1>6, <1>n, ExpectedIs
    <2> HIDE DEF m
    <2>2. m \in 1..N /\ m \in DOMAIN log /\ log[m].kind = "assert" /\ ~RetractedIn(log, log[m].fact)
      BY <2>1, StandingIs, LogIs DEF Standing
    <2>3. ReplacementsIn(log, log[m].fact) = {}
      <3> SUFFICES ASSUME NEW i \in ReplacementsIn(log, log[m].fact) PROVE FALSE
        OBVIOUS
      <3>1. i \in 1..N /\ log[i].kind = "assert" /\ log[i].supersedes = log[m].fact /\ i \in Standing(N)
        BY StandingIs, LogIs DEF ReplacementsIn
      <3>2. log[m].fact # None
        BY <2>2, LogIs, LedgerAssumption
      <3>3. PICK j \in 1..(i - 1) : log[j].kind = "assert" /\ log[j].fact = log[m].fact
        BY <3>1, <3>2 DEF LedgerInv, AllProper, Proper
      <3>4. j = m
        BY <2>2, <3>1, <3>3, AssertIs, LogIs
      <3> QED BY <2>1, <3>1, <3>3, <3>4, LogIs
    <2>4. Answers(log, q, m)
      <3>1. log[m].from <= clock
        BY <2>2, ScenarioIs, LogIs
      <3>2. ValidTo(log, log[m].fact) = MaxTime + 1
        BY <2>3 DEF ValidTo
      <3> QED BY <1>2, <2>2, <3>1, <3>2 DEF Answers
    <2>5. \A k \in DOMAIN log : Answers(log, q, k) => k = m
      <3> SUFFICES ASSUME NEW k \in DOMAIN log, Answers(log, q, k) PROVE k = m
        OBVIOUS
      <3>1. k \in Standing(N) /\ m <= k
        BY <1>4, <2>1
      <3>2. k <= m /\ k \in Nat /\ m \in Nat
        BY <2>1, <2>2, <3>1, LogIs
      <3> QED BY <3>1, <3>2
    <2> QED BY <1>1, <1>3, <2>1, <2>2, <2>4, <2>5
  <1> QED BY <1>5, <1>6

(* A row that is overwritten by an assert and emptied by a retraction of   *)
(* what it holds.                                                          *)
Overwrite(k, row) == IF log[k].kind = "assert" THEN {log[k].fact} ELSE row \ {log[k].fact}
IsOverwritten(f) ==
    f = [k \in 0..Len(log) |-> CASE k = 0 -> {}
                                 [] k > 0 /\ log[k].kind = "assert" -> {log[k].fact}
                                 [] OTHER -> f[k - 1] \ {log[k].fact}]

LEMMA Overwrites ==
    ASSUME LedgerInv
    PROVE  \E f : /\ OverwriteRead(log) = f[Len(log)] /\ f[0] = {}
                  /\ \A k \in 1..Len(log) : f[k] = Overwrite(k, f[k - 1])
  <1> DEFINE n == Len(log)
             V == SUBSET {log[k].fact : k \in 1..n}
             Step == [p \in (1..n) \X V |-> Overwrite(p[1], p[2])]
  <1>1. Step \in [(1..n) \X V -> V] /\ {} \in V /\ n \in Nat
    BY LogIs DEF Overwrite
  <1>2. PICK f : IsIteration(f, V, {}, n, Step)
    <2> HIDE DEF n, V, Step
    <2> QED BY <1>1, Iterates
  <1>3. \A k \in 1..n : f[k] = Overwrite(k, f[k - 1])
    <2> TAKE k \in 1..n
    <2>1. <<k, f[k-1]>> \in (1..n) \X V
      <3>1. k - 1 \in 0..n
        BY <1>1
      <3> HIDE DEF V
      <3> QED BY <3>1, <1>2 DEF IsIteration
    <2>2. f[k] = Step[<<k, f[k - 1]>>]
      BY <1>2 DEF IsIteration
    <2> QED BY <2>1, <2>2
  <1>4. IsOverwritten(f)
    <2>1. f = [k \in 0..n |-> f[k]] /\ f[0] = {}
      BY <1>2 DEF IsIteration
    <2>2. \A k \in 0..n : f[k] = CASE k = 0 -> {}
                                   [] k > 0 /\ log[k].kind = "assert" -> {log[k].fact}
                                   [] OTHER -> f[k - 1] \ {log[k].fact}
      <3> TAKE k \in 0..n
      <3>1. CASE k = 0
        BY <2>1, <3>1
      <3>2. CASE k # 0
        <4>1. k \in 1..n /\ k > 0
          BY <1>1, <3>2
        <4> QED BY <1>3, <3>2, <4>1 DEF Overwrite
      <3> QED BY <3>1, <3>2
    <2> QED BY <2>1, <2>2, Zenon DEF IsOverwritten
  <1>5. OverwriteRead(log) = (CHOOSE g : IsOverwritten(g))[n]
    BY Zenon DEF OverwriteRead, IsOverwritten
  <1> DEFINE g == CHOOSE g : IsOverwritten(g)
  <1>6. IsOverwritten(g)
    BY <1>4, Zenon
  <1> HIDE DEF g
  <1>7. g[0] = {}
    BY <1>1, <1>6 DEF IsOverwritten
  <1>8. \A k \in 1..n : g[k] = Overwrite(k, g[k - 1])
    <2> TAKE k \in 1..n
    <2>1. k \in 0..n /\ k > 0 /\ k # 0
      BY <1>1
    <2> QED BY <1>6, <2>1 DEF IsOverwritten, Overwrite
  <1> QED BY <1>5, <1>7, <1>8 DEF g

LEMMA AssertIsExpected ==
    ASSUME LedgerInv, NEW k \in 1..Len(log), log[k].kind = "assert"
    PROVE  Expected(log, k) = {log[k].fact}
  <1>1. k \in Standing(k)
    <2> SUFFICES ASSUME NEW i \in 1..k, log[i].kind \in {"retract", "forget"}, log[i].fact = log[k].fact PROVE FALSE
      BY LogIs DEF Standing
    <2>1. i \in 1..Len(log) /\ log[i].kind # "assert"
      BY LogIs
    <2>2. PICK j \in 1..(i - 1) : log[j].kind = "assert" /\ log[j].fact = log[k].fact
      BY <2>1, OtherIs
    <2>3. j \in 1..Len(log) /\ j # k
      BY <2>1, <2>2, LogIs
    <2> QED BY <2>2, <2>3, AssertIs
  <1>2. k \in 0..Len(log) /\ k \in Nat /\ \A j \in Standing(k) : j <= k
    BY LogIs DEF Standing
  <1>3. Max(Standing(k)) \in Standing(k) /\ k <= Max(Standing(k)) /\ Expected(log, k) = {log[Max(Standing(k))].fact}
    BY <1>1, <1>2, ExpectedIs
  <1>4. Max(Standing(k)) \in Nat
    BY <1>3 DEF Standing
  <1>5. Max(Standing(k)) = k
    BY <1>2, <1>3, <1>4
  <1> QED BY <1>3, <1>5

(* It goes wrong exactly when the scenario ends with a retraction that     *)
(* leaves something to fall back to.                                       *)
LEMMA OverwriteReadIs ==
    ASSUME LedgerInv, Scenario(log), log # <<>>
    PROVE  OverwriteRead(log) = Expected(log, Len(log)) <=>
              ~(log[Len(log)].kind = "retract" /\ Expected(log, Len(log)) # {})
  <1> DEFINE N == Len(log)
  <1>1. N \in 1..N /\ N \in Nat
    BY LogIs, EmptySeq
  <1>2. PICK f : /\ OverwriteRead(log) = f[N] /\ f[0] = {}
                 /\ \A k \in 1..N : f[k] = Overwrite(k, f[k - 1])
    BY Overwrites
  <1> DEFINE U == {k \in Nat : k <= N => f[k] \subseteq Expected(log, k)}
  <1>3. ASSUME NEW k \in Nat, k + 1 <= N, f[k] \subseteq Expected(log, k), log[k + 1].kind # "assert"
        PROVE  f[k + 1] = {}
    <2>1. k + 1 \in 1..N /\ (k + 1) - 1 = k
      BY <1>1, <1>3
    <2>2. f[k + 1] = f[k] \ {log[k + 1].fact}
      BY <1>2, <1>3, <2>1 DEF Overwrite
    <2>3. {log[k + 1].fact} = Expected(log, k)
      BY <1>3, <2>1, ScenarioIs
    <2> QED BY <1>3, <2>2, <2>3
  <1>4. ASSUME NEW k \in 1..N, log[k].kind = "assert" PROVE f[k] = Expected(log, k)
    BY <1>2, <1>4, AssertIsExpected DEF Overwrite
  <1>5. 0 \in U
    BY <1>2
  <1>6. ASSUME NEW k \in Nat, k \in U PROVE k + 1 \in U
    <2> SUFFICES ASSUME k + 1 <= N PROVE f[k + 1] \subseteq Expected(log, k + 1)
      OBVIOUS
    <2>1. k + 1 \in 1..N /\ f[k] \subseteq Expected(log, k)
      BY <1>1, <1>6
    <2> QED BY <1>3, <1>4, <2>1
  <1>7. \A k \in Nat : k \in U
    <2> HIDE DEF U
    <2> QED BY <1>5, <1>6, UpFromZero
  <1>8. CASE log[N].kind = "assert"
    BY <1>1, <1>2, <1>4, <1>8
  <1>9. CASE log[N].kind # "assert"
    <2>1. N - 1 \in Nat /\ (N - 1) + 1 = N
      BY <1>1
    <2>2. f[N] = {}
      BY <1>3, <1>7, <1>9, <2>1
    <2>3. log[N].kind = "retract"
      BY <1>1, <1>9, ScenarioIs
    <2> QED BY <1>2, <2>2, <2>3
  <1> QED BY <1>8, <1>9

(* An evaluation tells the two apart (Reports.EvalsDiscriminate; evals).   *)
LEMMA EvalsScore ==
    ASSUME LedgerInv, log # <<>>
    PROVE  EvalsDiscriminate(log, clock)
  <1> SUFFICES ASSUME Scenario(log) PROVE EvalsDiscriminate(log, clock)
    BY DEF EvalsDiscriminate
  <1> DEFINE expect == Expected(log, Len(log))
             bad == {f \in FactsOf(log) : RetractedIn(log, f)}
  <1>1. /\ expect = {} \/ \E x : expect = {x}
        /\ expect \cap bad = {}
    <2>1. Len(log) \in 0..Len(log)
      BY LogIs
    <2>2. \A k \in Standing(Len(log)) : log[k].fact \notin bad
      BY StandingIs, LogIs DEF Standing
    <2> HIDE DEF bad
    <2> QED BY <2>1, <2>2, ExpectedIs
  <1>2. ~(Cardinality(expect) > 1)
    <2> HIDE DEF expect
    <2>1. CASE expect = {}
      BY <2>1, FS_EmptySet
    <2>2. ASSUME NEW x, expect = {x} PROVE ~(Cardinality(expect) > 1)
      <3>1. Cardinality(expect) = 1
        BY <2>2, FS_Singleton
      <3> QED BY <3>1
    <2> QED BY <1>1, <2>1, <2>2
  <1>3. LedgerRead(log, clock) = expect
    BY LedgerReadIs
  <1>4. OverwriteRead(log) = expect <=> ~(log[Len(log)].kind = "retract" /\ expect # {})
    BY OverwriteReadIs
  <1>5. Score(expect, expect, bad) = [correct |-> TRUE, stale |-> FALSE, contradiction |-> FALSE, blast |-> FALSE]
    <2> HIDE DEF expect, bad
    <2>1. (expect = expect) = TRUE /\ (expect \cap bad # {}) = FALSE /\ (Cardinality(expect) > 1) = FALSE
      BY <1>1, <1>2
    <2>2. (/\ expect # expect /\ expect # {}
           /\ expect \cap expect = {} \/ Cardinality(expect) > 1) = FALSE
      OBVIOUS
    <2> QED BY <2>1, <2>2, Zenon DEF Score
  <1>6. Score(OverwriteRead(log), expect, bad).correct <=> OverwriteRead(log) = expect
    <2> HIDE DEF expect, bad
    <2> QED BY DEF Score
  <1> QED BY <1>3, <1>4, <1>5, <1>6 DEF EvalsDiscriminate

(* Reports about the ledger account for what happened: the blast radius is *)
(* complete, packs and reviews are honest, and the evaluations             *)
(* discriminate (Reports.ReportsAccount).                                  *)
THEOREM ReportsDoAccount == Spec => []ReportsAccount
  <1>1. LedgerInv => ReportsAccount
    <2> SUFFICES ASSUME LedgerInv, Plainly(log) PROVE ReportsAccount
      BY DEF ReportsAccount
    <2>1. log # <<>>
      BY DEF Plainly
    <2>2. EvalsDiscriminate(log, clock)
      BY <2>1, EvalsScore
    <2>3. \A A \in Archives(log), f \in FactsOf(log) :
             BlastIsComplete(log, A, f, BlastRadius(log, A, f)) /\ PackIsHonest(log, A, f, BlastRadius(log, A, f))
      BY <2>1, ArchivesAre, BlastIs, PackHonest
    <2> QED BY <2>2, <2>3, OpenComplete DEF ReportsAccount
  <1> QED BY <1>1, LedgerInvariant, PTL
===============================================================================
