------------------------------- MODULE Stores -------------------------------
(***************************************************************************)
(* The retrieval stores a memory server writes through to                  *)
(* (state/src/stores.ts).  MemoryServer knows a store by the facts it has  *)
(* rows of and the facts its search returns; here are the six adapters     *)
(* behind that, each by three things it decides: the id it records on the  *)
(* fact, which rows its search can answer with, and what in an answer      *)
(* means the fact is still there.                                          *)
(***************************************************************************)
EXTENDS MemoryServer, FiniteSets

CONSTANT TopK   \* how many rows a nearest-first search answers with

ASSUME StoresAssumption == TopK \in Nat \ {0}

(* `id`: the vendor's own or the fact's.  `reach`: the rows nearest to the *)
(* fact's text, those tagged with the fact, or the whole list.  `hit`: what*)
(* makes a row of the answer the fact's.                                   *)
mem0Store      == [id |-> "own",  reach |-> "nearest", hit |-> {"id", "text"}]
zepStore       == [id |-> "own",  reach |-> "nearest", hit |-> {"id"}]
pgvectorStore  == [id |-> "fact", reach |-> "nearest", hit |-> {"id"}]
lettaStore     == [id |-> "own",  reach |-> "tagged",  hit |-> {"id", "text"}]
langgraphStore == [id |-> "fact", reach |-> "tagged",  hit |-> {"id"}]
cogneeStore    == [id |-> "own",  reach |-> "list",    hit |-> {"id", "fact"}]

Vendors == {mem0Store, zepStore, pgvectorStore, lettaStore, langgraphStore, cogneeStore}

(* factText and factMetadata: a row carries the fact's words, which        *)
(* another fact may say too, and leads back to its fact.                   *)
ExternalId(v, f) == IF v.id = "fact" THEN f ELSE <<f>>
Row(v, f, text) == [id |-> ExternalId(v, f), fact |-> f, text |-> text[f]]

RemoveRow(R, id) == {r \in R : r.id # id}
PutRow(v, R, f, text) == RemoveRow(R, ExternalId(v, f)) \cup {Row(v, f, text)}

(* Mutant: the search is cut off before it is ordered.                     *)
AnswersUnordered(v, R, f, text) ==
    IF v.reach # "nearest" THEN {{r \in R : v.reach = "list" \/ r.fact = f}}
    ELSE {H \in SUBSET R : Cardinality(H) = IF Cardinality(R) < TopK THEN Cardinality(R) ELSE TopK}

(* What the store's search may answer to the fact's text: of the rows with *)
(* other words, any may come before the others.                            *)
Answers(v, R, f, text) ==
    LET same == {r \in R : r.text = text[f]}
        size == IF Cardinality(R) < TopK THEN Cardinality(R) ELSE TopK
    IN IF v.reach # "nearest" THEN {{r \in R : v.reach = "list" \/ r.fact = f}}
       ELSE {H \in SUBSET R : /\ Cardinality(H) = size
                              /\ H \subseteq same \/ same \subseteq H}

(* verifyRemoved's question of an answer.                                  *)
Hit(v, H, f, text) ==
    \E r \in H : \/ r.id = ExternalId(v, f)
                 \/ "text" \in v.hit /\ r.text = text[f]
                 \/ "fact" \in v.hit /\ r.fact = f

-----------------------------------------------------------------------------
(* Properties.                                                             *)

(* The facts' words: no two facts say the same, or all do.                 *)
Texts == {[f \in Facts |-> f], [f \in Facts |-> Past]}

(* Each vendor does for the server what MemoryServer has a store do, in    *)
(* every index its calls bring about.  A removal by the recorded id leaves *)
(* no row that leads back to the fact and every other row where it was.    *)
(* A fact still indexed is found, whatever the search ranks first, unless  *)
(* more rows say the same than the search returns; a fact no longer        *)
(* indexed is not found, unless the vendor compares words (mem0) and       *)
(* another row has the same.  What is found then is another fact: the      *)
(* answer is "stillIndexed" and nothing is certified (VerifyFails).        *)
VendorsFit ==
    \A c \in Calls, v \in Vendors, text \in Texts :
        LET f == Fact(c)
            s == call[c].at
            Rows(F) == {Row(v, g, text) : g \in F}
            Same(F) == {g \in F : text[g] = text[f]}
        IN /\ Removing(c) =>
                  RemoveRow(PutRow(v, Rows(copies[s]), f, text), ExternalId(v, f))
                      = Rows(copies[s] \ {f})
           /\ At(c, "verify") =>
                  \A H \in Answers(v, Rows(indexed[s]), f, text) :
                      IF f \in indexed[s]
                      THEN \/ Hit(v, H, f, text)
                           \/ v.reach = "nearest" /\ Cardinality(Same(indexed[s])) > TopK
                      ELSE \/ ~Hit(v, H, f, text)
                           \/ v = mem0Store /\ Same(indexed[s]) # {}

=============================================================================
