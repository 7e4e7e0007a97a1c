---------------------------- MODULE MCMembership ----------------------------
(***************************************************************************)
(* Small instances of PBFTMembership for TLC: two system blocks change a   *)
(* list of four nodes.                                                     *)
(***************************************************************************)
EXTENDS PBFTMembership

Nodes(w) == [k \in 1 .. Cardinality(DOMAIN w) |->
               LET id == CHOOSE x \in DOMAIN w : Cardinality({y \in DOMAIN w : y <= x}) = k
               IN  [id |-> id, weight |-> w[id]]]

With(w, p) == [list |-> Nodes(w), period |-> p]

Three == With([x \in {1, 3, 4} |-> 1], 1)
Four == With([x \in 1 .. 4 |-> IF x = 2 THEN 2 ELSE 1], 1)
Heavy == With([x \in {1, 3, 4} |-> IF x = 4 THEN 2 ELSE 1], 2)

\* block 1 makes node 2 leave, block 2 raises a weight and the period
Leaving == [i \in 0 .. MaxIndex |-> CASE i = 0 -> Four [] i = 1 -> Three [] OTHER -> Heavy]

\* a block of number i with its signatures
Signed(i, q) == [number |-> i, sealer |-> 0, signatures |-> q, txs |-> TRUE]

\* block 1 with a quorum of its list, and block 2 with too few signatures, with
\* one of them twice, and with all
Ledger == {Signed(1, <<0, 1, 2>>), Signed(2, <<0, 1>>), Signed(2, <<0, 1, 1>>), Signed(2, <<0, 1, 2>>)}

=============================================================================
