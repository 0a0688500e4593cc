------------------------------- MODULE Merkle -------------------------------
(***************************************************************************)
(* The Merkle tree of RFC 9162 as receipts/src/log.ts builds, proves and   *)
(* verifies it.  A hash is the term it was computed from, so that two      *)
(* hashes are equal exactly when they are of the same leaves in the same   *)
(* tree.  Leaves are numbered from zero, as in the code; lo and hi bound   *)
(* the leaves lo, ..., hi - 1.  SubtreeCache keeps hashes of leaves that   *)
(* no longer change, which a hash that is a term need not.                 *)
(***************************************************************************)
EXTENDS Naturals, Sequences, SequencesExt

LeafHash(x) == <<"leaf", x>>
NodeHash(l, r) == <<"node", l, r>>
Empty == <<"empty">>

\* split, for n >= 2: doubled from one on while the double is below n.
Split(n) == LET k[j \in 1..n] == IF 2 * j < n THEN k[2 * j] ELSE j IN k[1]

\* h[n][lo]: the hash of the n leaves from leaf lo on.
Hashed(s) ==
    LET h[n \in 0..Len(s)] == [lo \in 0..Len(s) - n |->
            CASE n = 0 -> Empty
              [] n = 1 -> s[lo + 1]
              [] OTHER -> LET k == Split(n) IN NodeHash(h[k][lo], h[n - k][lo + k])]
    IN  h
Mth(s, lo, hi) == Hashed(s)[hi - lo][lo]
Root(s) == Mth(s, 0, Len(s))

\* path: the siblings of leaf m, from the leaf to the root, in the n leaves from leaf lo on.
Path(s, m) ==
    LET p[n \in 0..Len(s)] == [lo \in 0..Len(s) - n |->
            IF n <= 1 THEN <<>>
            ELSE LET k == Split(n) IN
                 IF m < lo + k THEN Append(p[k][lo], Mth(s, lo + k, lo + n))
                 ELSE Append(p[n - k][lo + k], Mth(s, lo, lo + k))]
    IN  p[Len(s)][0]

\* subproof: of the first m leaves in all of them; whole says that the subtree is the old tree's
\* own.  One leaf is the old tree's last.
SubproofAlwaysWhole(s, m) ==
    LET p[n \in 0..Len(s)] == [lo \in 0..Len(s) - n |-> [whole \in BOOLEAN |->
            IF n <= 1 \/ m = lo + n THEN <<>>
            ELSE LET k == Split(n) IN
                 IF m <= lo + k THEN Append(p[k][lo][whole], Mth(s, lo + k, lo + n))
                 ELSE Append(p[n - k][lo + k][whole], Mth(s, lo, lo + k))]]
    IN  p[Len(s)][0][TRUE]
Subproof(s, m) ==
    LET p[n \in 0..Len(s)] == [lo \in 0..Len(s) - n |-> [whole \in BOOLEAN |->
            IF n <= 1 \/ m = lo + n THEN IF whole THEN <<>> ELSE <<Mth(s, lo, lo + n)>>
            ELSE LET k == Split(n) IN
                 IF m <= lo + k THEN Append(p[k][lo][whole], Mth(s, lo + k, lo + n))
                 ELSE Append(p[n - k][lo + k][FALSE], Mth(s, lo, lo + k))]]
    IN  p[Len(s)][0][TRUE]

ConsistencyProof(s, m) == IF m \in {0, Len(s)} THEN <<>> ELSE Subproof(s, m)

-----------------------------------------------------------------------------
(* The verifiers.  Both climb from a leaf of the smaller tree: fn is where *)
(* the climb stands in its row, sn the last place of the larger tree's.    *)

\* The two loops of the verifiers: both places are halved while fn is odd, or while it is even
\* and not zero.
PastOnes[fn \in Nat] == [sn \in Nat |->
    IF fn % 2 = 1 THEN PastOnes[fn \div 2][sn \div 2] ELSE [fn |-> fn, sn |-> sn]]
PastZeros[fn \in Nat] == [sn \in Nat |->
    IF fn # 0 /\ fn % 2 = 0 THEN PastZeros[fn \div 2][sn \div 2] ELSE [fn |-> fn, sn |-> sn]]

\* m & (m - 1) = 0: nothing is left of m before the zeros at its end but a one.
PowerOfTwo(m) == PastZeros[m][m].fn = 1

\* One row up.
Up(at, old, new) == [fn |-> at.fn \div 2, sn |-> at.sn \div 2, old |-> old, new |-> new, ok |-> TRUE]

\* One hash of a proof: it stands to the left, or to the right.
Climb(w, c) ==
    CASE w.sn = 0 -> [w EXCEPT !.ok = FALSE]
      [] w.sn # 0 /\ (w.fn % 2 = 1 \/ w.fn = w.sn) ->
             Up(PastZeros[w.fn][w.sn], NodeHash(c, w.old), NodeHash(c, w.new))
      [] OTHER -> Up(w, w.old, NodeHash(w.new, c))

Begun(fn, sn, h) == [fn |-> fn, sn |-> sn, old |-> h, new |-> h, ok |-> TRUE]
Climbed(w, proof) ==
    LET c[i \in 0..Len(proof)] == IF i = 0 THEN w ELSE Climb(c[i - 1], proof[i]) IN c[Len(proof)]

VerifyInclusion(leaf, index, size, proof, root) ==
    /\ index >= 0 /\ size > 0 /\ index < size
    /\ LET w == Climbed(Begun(index, size - 1, leaf), proof) IN w.ok /\ w.sn = 0 /\ w.new = root

VerifyConsistency(m, oldRoot, n, newRoot, proof) ==
    CASE m > n -> FALSE
      [] m = n -> proof = <<>> /\ oldRoot = newRoot
      [] m = 0 /\ m < n -> proof = <<>>
      [] 0 < m /\ m < n /\ proof = <<>> -> FALSE
      [] OTHER -> \* the old root is the first hash when the old tree is a subtree of the new one
         LET hashes == IF PowerOfTwo(m) THEN <<oldRoot>> \o proof ELSE proof
             from   == PastOnes[m - 1][n - 1]
             w      == Climbed(Begun(from.fn, from.sn, Head(hashes)), Tail(hashes))
         IN  w.ok /\ w.sn = 0 /\ w.old = oldRoot /\ w.new = newRoot
-----------------------------------------------------------------------------
(* The browser's verifiers (site/verifier/verify-web.ts), written again    *)
(* for the page.                                                           *)

WebRootOf(s, size) == Mth(s, 0, size)

\* A hash that stands to the left takes the climb up to where it stands to the right.
WebClimb(w, c) ==
    LET left == w.fn % 2 = 1 \/ w.fn = w.sn
        at   == IF left /\ w.fn % 2 = 0 THEN PastZeros[w.fn][w.sn] ELSE w
    IN  IF w.sn = 0 THEN [w EXCEPT !.ok = FALSE]
        ELSE Up(at, IF left THEN NodeHash(c, w.old) ELSE w.old,
                    IF left THEN NodeHash(c, w.new) ELSE NodeHash(w.new, c))

WebClimbed(w, proof) ==
    LET c[i \in 0..Len(proof)] == IF i = 0 THEN w ELSE WebClimb(c[i - 1], proof[i]) IN c[Len(proof)]

WebVerifyInclusion(leaf, index, size, proof, root) ==
    /\ ~(index < 0 \/ size < 1 \/ index > size - 1)
    /\ LET w == WebClimbed(Begun(index, size - 1, leaf), proof) IN w.ok /\ w.sn = 0 /\ w.new = root

WebVerifyConsistency(m, oldRoot, n, newRoot, proof) ==
    IF m > n THEN FALSE
    ELSE IF m = n THEN proof = <<>> /\ oldRoot = newRoot
    ELSE IF m = 0 \/ proof = <<>> THEN m = 0 /\ proof = <<>>
    ELSE LET hashes == IF PowerOfTwo(m) THEN <<oldRoot>> \o proof ELSE proof
             from   == PastOnes[m - 1][n - 1]
             w      == WebClimbed(Begun(from.fn, from.sn, Head(hashes)), Tail(hashes))
         IN  w.ok /\ w.sn = 0 /\ w.old = oldRoot /\ w.new = newRoot
=============================================================================
