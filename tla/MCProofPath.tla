---------------------------- MODULE MCProofPath ------------------------------
(***************************************************************************)
(* Instances of ProofPath.  Layouts are all the ways a blob can lie in a    *)
(* small square, signed or not, or not be there.                            *)
(***************************************************************************)
EXTENDS ProofPath

Widths == {1, 2, 4}

NoBlob(width) == [width |-> width, start |-> 0, shares |-> 0, signer |-> FALSE]

AllLayouts ==
  {NoBlob(width) : width \in Widths}
    \cup {b \in [width : Widths, start : 0..15, shares : 1..16, signer : BOOLEAN] :
            b.start + b.shares <= b.width * b.width}

OneLayout == {[width |-> 2, start |-> 1, shares |-> 2, signer |-> TRUE]}

\* The batch number and the chain id differ in every byte that is not zero.
FirstBlockJob ==
  {[height |-> 1, batch_number |-> Base + 1, chain_id |-> Base^5 + Base^4]}

ZeroHash == [i \in 1..HashLen |-> 0]
=============================================================================
