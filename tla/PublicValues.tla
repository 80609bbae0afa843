---------------------------- MODULE PublicValues -----------------------------
(***************************************************************************)
(* ZKStackEqProofOutput: the bytes the zkVM program commits to and a        *)
(* verifier reads back.  Two hashes, then the batch number and the chain id *)
(* in little-endian order.  A byte has Base values (256 in the code) and a  *)
(* hash HashLen bytes (32); the integers have 4 and 8.                      *)
(***************************************************************************)
EXTENDS Naturals, Sequences

CONSTANTS Base, HashLen

ASSUME BaseAssumption == Base \in Nat /\ Base > 1
ASSUME HashLenAssumption == HashLen \in Nat

Bytes == 0..(Base - 1)
Hashes == [1..HashLen -> Bytes]
U32 == 0..(Base^4 - 1)
U64 == 0..(Base^8 - 1)
Outputs == [keccak_hash : Hashes, data_root : Hashes, batch_number : U32,
            chain_id : U64]

\* The error from_bytes returns for data that is not an output.
OutputDeserializationError == [error |-> "OutputDeserializationError"]

\* to_le_bytes of a u32 and of a u64.
Low(n) == n % Base
Rest(n) == n \div Base
LeBytes4(n) == <<Low(n), Low(Rest(n)), Low(Rest(Rest(n))), Rest(Rest(Rest(n)))>>
LeBytes8(n) ==
  LET high == Rest(Rest(Rest(Rest(n)))) IN
  <<Low(n), Low(Rest(n)), Low(Rest(Rest(n))), Low(Rest(Rest(Rest(n))))>>
    \o LeBytes4(high)

\* from_le_bytes, of the bytes of s from position i on.
FromLe4(s, i) == s[i] + Base * (s[i + 1] + Base * (s[i + 2] + Base * s[i + 3]))
FromLe8(s, i) ==
  s[i] + Base * (s[i + 1] + Base * (s[i + 2] + Base * (s[i + 3]
    + Base * FromLe4(s, i + 4))))

\* Variant: the two integers are written in the other order.
ToVecChainFirst(output) ==
  output.keccak_hash \o output.data_root
    \o LeBytes8(output.chain_id) \o LeBytes4(output.batch_number)

\* to_vec: runs in the zkVM.
ToVec(output) ==
  output.keccak_hash \o output.data_root
    \o LeBytes4(output.batch_number) \o LeBytes8(output.chain_id)

\* from_bytes: runs at the verifier.
FromBytes(data) ==
  IF Len(data) # 2 * HashLen + 12 THEN OutputDeserializationError
  ELSE [keccak_hash  |-> [i \in 1..HashLen |-> data[i]],
        data_root    |-> [i \in 1..HashLen |-> data[HashLen + i]],
        batch_number |-> FromLe4(data, 2 * HashLen + 1),
        chain_id     |-> FromLe8(data, 2 * HashLen + 5)]
=============================================================================
