---------------------------- MODULE AppendOnlyLog ----------------------------
(***************************************************************************)
(* What a transparency log promises those who hold its answers: entries    *)
(* are only ever added at the end, an acknowledged leaf stands where its   *)
(* acknowledgement says, and every head that was ever signed is a head of  *)
(* the one log.  A root hash is taken to determine the leaves under it, so *)
(* a head is the sequence of leaves it commits to.                         *)
(***************************************************************************)
EXTENDS Naturals, Sequences

CONSTANT Leaves

VARIABLES
    entries,    \* the log
    acks,       \* acknowledgements given: [leaf, index]
    heads       \* heads signed: the leaves each one commits to

vars == <<entries, acks, heads>>

Init == entries = <<>> /\ acks = {} /\ heads = {}

Extend == \E l \in Leaves : entries' = Append(entries, l) /\ UNCHANGED <<acks, heads>>

(* Acknowledgements and heads are given of what is already in the log.     *)
Tell ==
    /\ acks \subseteq acks' /\ heads \subseteq heads'
    /\ \A a \in acks' \ acks : a.index \in DOMAIN entries /\ entries[a.index] = a.leaf
    /\ \A h \in heads' \ heads :
          \E n \in 0..Len(entries) : h = SubSeq(entries, 1, n)
    /\ UNCHANGED entries

Next == Extend \/ Tell

Spec == Init /\ [][Next]_vars
==============================================================================
