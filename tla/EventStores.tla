----------------------------- MODULE EventStores -----------------------------
(***************************************************************************)
(* How the ledger's events are kept and asked for (state/src/storage.ts):  *)
(* as the lines of a JSONL file, or as the rows of a SQLite or Postgres    *)
(* table, whose columns are filled in from the event and then never        *)
(* change.  `log` is the history of what was appended; a forget has also   *)
(* replaced its fact's assert, in place, by one without the value.         *)
(*                                                                         *)
(* `subject` stands for space, subject and predicate, as in Ledger.  Of a  *)
(* value the model keeps whether it is still there.                        *)
(***************************************************************************)
EXTENDS Ledger

-----------------------------------------------------------------------------
(* JSONL: one line per event, all of them in memory.                       *)

Line(e) == [event |-> e, value |-> "kept"]
Events(L) == [k \in DOMAIN L |-> L[k].event]

IsAssertOf(e, f) == e.kind = "assert" /\ e.fact = f
WithoutValue(line, f) == IF IsAssertOf(line.event, f) THEN [line EXCEPT !.value = "erased"] ELSE line

(* replaceAssert maps the lines, writes them to a file of their own and    *)
(* renames it; append adds a line.                                         *)
JsonlPut(L, e) ==
    Append(IF e.kind = "forget" THEN [k \in DOMAIN L |-> WithoutValue(L[k], e.fact)] ELSE L,
           Line(e))
Jsonl(E) ==
    LET file[k \in 0..Len(E)] == IF k = 0 THEN <<>> ELSE JsonlPut(file[k-1], E[k])
    IN  file[Len(E)]

AboutLines(L, q) ==
    LET ids == SelectIds(Events(L), q)
    IN  Restrict(L, {k \in DOMAIN L : L[k].event.fact \in ids /\ L[k].event.tx <= q.tx})
ForLines(L, f) ==
    Restrict(L, {k \in DOMAIN L : \/ L[k].event.fact = f
                                  \/ L[k].event.kind = "assert" /\ L[k].event.supersedes = f})
SpacesOfLines(L) == {L[k].event.subject : k \in {j \in DOMAIN L : L[j].event.kind = "assert"}}

-----------------------------------------------------------------------------
(* SQL: a row is an event's columns and its JSON.                          *)

Null == None
Columns(e) ==
    IF e.kind = "assert"
    THEN [fact |-> e.fact, subject |-> e.subject, supersedes |-> e.supersedes]
    ELSE [fact |-> e.fact, subject |-> Null, supersedes |-> Null]
Row(e) == [kind |-> e.kind, tx |-> e.tx, columns |-> Columns(e), json |-> Line(e)]

(* INSERT, and for a forget the UPDATE of the JSON alone before it.        *)
RowPut(R, e) ==
    Append(IF e.kind = "forget"
           THEN [k \in DOMAIN R |-> [R[k] EXCEPT !.json = WithoutValue(@, e.fact)]] ELSE R,
           Row(e))
Rows(E) ==
    LET table[k \in 0..Len(E)] == IF k = 0 THEN <<>> ELSE RowPut(table[k-1], E[k])
    IN  table[Len(E)]
Json(R) == [k \in DOMAIN R |-> R[k].json]

FactsIn(R, K) == {R[k].columns.fact : k \in {j \in K : R[j].kind = "assert"}}

MatchedRows(R, q) ==
    FactsIn(R, {k \in DOMAIN R : Within(q, R[k].tx) /\ Matches(q, R[k].columns.subject)})

(* Mutant: the query does not look for replacements about something else.  *)
SqlIdsMatchedOnly(R, q) == MatchedRows(R, q)

(* aboutSql: the facts found and those that supersede them, one step away. *)
SqlIds(R, q) ==
    LET matched == MatchedRows(R, q)
    IN  matched \cup FactsIn(R, {k \in DOMAIN R : R[k].columns.supersedes \in matched})

AboutRows(R, q) ==
    LET ids == SqlIds(R, q)
    IN  Json(Restrict(R, {k \in DOMAIN R : R[k].columns.fact \in ids /\ R[k].tx <= q.tx}))
ForRows(R, f) ==
    Json(Restrict(R, {k \in DOMAIN R : R[k].columns.fact = f \/ R[k].columns.supersedes = f}))
SpacesOfRows(R) == {R[k].columns.subject : k \in DOMAIN R} \ {Null}

-----------------------------------------------------------------------------
(* What the ledger makes of a store's answers.                             *)

Sweeps == [tx : {MaxTime}, before : Times \cup {MaxTime + 1}, valid : {MaxTime},
           subject : Subjects \cup {Whatever}]

(* The facts a retention sweep decides about.                              *)
LearnedBefore(answer, q) ==
    {answer[k].event.fact : k \in {j \in DOMAIN answer :
        LET l == answer[j] IN /\ l.event.kind = "assert" /\ l.event.tx < q.before
                              /\ Matches(q, l.event.subject) /\ l.value = "kept"}}

-----------------------------------------------------------------------------
(* Properties.                                                             *)

(* The tables hold what the file holds, forgets included, and answer every *)
(* question the ledger has as the file does, although they look at columns *)
(* written before the forgets and for replacements one step away only.     *)
StoresBelieveTheSame ==
    Quiet => \E L \in {Jsonl(log)}, R \in {Rows(log)} :
        /\ Json(R) = L /\ SpacesOfRows(R) = SpacesOfLines(L)
        /\ \A f \in Facts : ForRows(R, f) = ForLines(L, f)
        /\ \A q \in Queries : AsOf(Events(AboutRows(R, q)), q) = Reference(log, q)
        /\ \A q \in Sweeps : LearnedBefore(AboutRows(R, q), q) = LearnedBefore(AboutLines(L, q), q)

(* A sweep decides about every fact learned of before its cutoff, in the   *)
(* order the events were appended or not, and about no fact already gone.  *)
SweepsFindAll ==
    Quiet => \A q \in Sweeps :
        LearnedBefore(AboutLines(Jsonl(log), q), q) =
            {f \in Facts : /\ \E k \in DOMAIN log : /\ IsAssertOf(log[k], f) /\ log[k].tx < q.before
                                                    /\ Matches(q, log[k].subject)
                           /\ ~ForgottenIn(log, f)}

(* The ledger's ways of asking what is believed, or has to go - the file   *)
(* and the tables, asOf and the fact's own record, a sweep - agree         *)
(* (ledger.ts:309-437, storage.ts).                                        *)
QueriesAgree == TypeOK /\ StoresBelieveTheSame /\ ViewsAgree /\ SweepsFindAll

=============================================================================
