---------------------------- MODULE MCBlobIdText -----------------------------
(***************************************************************************)
(* Instances of BlobIdText: real sizes of namespaces and commitments, whose *)
(* bytes are zero but for at most one; small numbers.                       *)
(***************************************************************************)
EXTENDS BlobIdText

\* One byte is set, or none (position 0).
OneByte(size, position) == [i \in 1..size |-> IF i = position THEN 1 ELSE 0]

Namespaces ==
  {InvalidNamespace} \cup {[version |-> 0, id |-> OneByte(IdSize, p)] : p \in {0, 19, 28}}

SomeIds ==
  [height : {2}, namespace : Namespaces, commitment : {OneByte(CommitmentSize, 32)},
   l2_chain_id : {1, MaxU64}, batch_number : {0, MaxU32}]

\* The largest number has four digits, and four digits are base64 of three bytes.
FourDigits ==
  [n \in 0..MaxU64 |-> IF n = MaxU64 THEN OneByte(3, 3) ELSE NotBase64]

\* What may be left of a part: nothing, a shorter number, a shorter namespace.
SomeFragments ==
  {Base64(<<>>), Number(1), Base64(OneByte(6, 6)), Words}

\* Heights beyond the largest, namespaces and commitments of any length.
SomeRequests ==
  [height : {1, MaxHeight + 1},
   namespace : {OneByte(n, p) : n \in {0, 8, 10, 11, 28, 32}, p \in {0, 1, 8}},
   commitment : {OneByte(n, 1) : n \in {31, 32, 33}},
   batch_number : {1}, chain_id : {1}]
=============================================================================
