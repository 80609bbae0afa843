---------------------------- MODULE KeccakProgram ----------------------------
(***************************************************************************)
(* The zkVM program: from a proof input to public values, or a panic.       *)
(*                                                                         *)
(* A block is seen from one blob (one namespace and commitment): the width  *)
(* of its original square, where the blob's shares start, how many there    *)
(* are (0 if the blob is not in the block), and whether a signer is part of *)
(* them.  Shares are told apart by their position.  A range proof has two   *)
(* halves: share_proofs show what is at a range of positions in some rows,  *)
(* and row_proof leads from those rows to a data root.                      *)
(***************************************************************************)
EXTENDS PublicValues

\* ShareProof::verify, as the service and the program both call it: the rows
\* lead to the data root it is given.
Verifies(rowProof, dataRoot) == rowProof = dataRoot

\* The range proof covers the blob's shares: all of them and nothing else.
CoversBlob(range, block) ==
  /\ block.shares > 0
  /\ range.from = block.start
  /\ range.to = block.start + block.shares

\* Rebuilding the blob from its data gives the shares that are in the block
\* only if the signer, which the first share holds, is what it was there.
RebuildsShares(input, block) == input.author = block.signer

\* main() commits to its output; otherwise one of its expects panics.  The block
\* is the one the input's data root belongs to.
Accepts(input, block, blobHash) ==
  /\ RebuildsShares(input, block)
  /\ CoversBlob(input.share_proofs, block)
  /\ Verifies(input.row_proof, input.data_root)
  /\ input.keccak_hash = blobHash

\* The bytes main() commits to.
Committed(input) ==
  ToVec([keccak_hash  |-> input.keccak_hash,
         data_root    |-> input.data_root,
         batch_number |-> input.batch_number,
         chain_id     |-> input.chain_id])
=============================================================================
