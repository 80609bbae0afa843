------------------------- MODULE PublicValuesProofs --------------------------
(***************************************************************************)
(* What a verifier reads is what the zkVM program wrote: from_bytes undoes  *)
(* to_vec, whatever a byte and a hash are.                                  *)
(***************************************************************************)
EXTENDS PublicValues, SequenceTheorems, TLAPS

\* Where the elements of two sequences are in the one made of both.
LEMMA Both ==
  ASSUME NEW s \in Seq(Nat), NEW t \in Seq(Nat)
  PROVE  /\ s \o t \in Seq(Nat)
         /\ Len(s) \in Nat /\ Len(t) \in Nat
         /\ Len(s \o t) = Len(s) + Len(t)
         /\ \A i \in 1..Len(s) : (s \o t)[i] = s[i]
         /\ \A i \in 1..Len(t) : (s \o t)[Len(s) + i] = t[i]
<1> DEFINE m == Len(s)
           n == Len(t)
<1>1. /\ s \o t \in Seq(Nat) /\ m \in Nat /\ n \in Nat /\ Len(s \o t) = m + n
      /\ \A i \in 1..(m + n) :
           (s \o t)[i] = IF i <= m THEN s[i] ELSE t[i - m]
  BY ConcatProperties, LenProperties
<1>2. ASSUME NEW i \in 1..m PROVE (s \o t)[i] = s[i]
  BY <1>1
<1>3. ASSUME NEW i \in 1..n PROVE (s \o t)[m + i] = t[i]
  <2>1. m + i \in 1..(m + n) /\ ~(m + i <= m) /\ (m + i) - m = i
    BY <1>1
  <2> QED
    BY <1>1, <2>1
<1> QED
  BY <1>1, <1>2, <1>3

LEMMA LowAndRest ==
  ASSUME NEW n \in Nat
  PROVE  Rest(n) \in Nat /\ Low(n) \in Nat /\ Low(n) + Base * Rest(n) = n
BY BaseAssumption DEF Low, Rest

\* Three bytes and what remains of a number give the number.
LEMMA ThreeBytes ==
  ASSUME NEW n \in Nat
  PROVE  Low(n) + Base * (Low(Rest(n)) + Base * (Low(Rest(Rest(n)))
           + Base * Rest(Rest(Rest(n))))) = n
<1> DEFINE n1 == Rest(n)
           n2 == Rest(n1)
           n3 == Rest(n2)
<1>1. n1 \in Nat /\ Low(n) + Base * n1 = n
  BY LowAndRest
<1>2. n2 \in Nat /\ Low(n1) + Base * n2 = n1
  BY <1>1, LowAndRest
<1>3. n3 \in Nat /\ Low(n2) + Base * n3 = n2
  BY <1>2, LowAndRest
<1> QED
  BY <1>1, <1>2, <1>3

\* The same with a fourth byte.
LEMMA FourBytes ==
  ASSUME NEW n \in Nat
  PROVE  /\ Rest(Rest(Rest(Rest(n)))) \in Nat
         /\ Low(n) + Base * (Low(Rest(n)) + Base * (Low(Rest(Rest(n)))
              + Base * (Low(Rest(Rest(Rest(n))))
              + Base * Rest(Rest(Rest(Rest(n))))))) = n
<1> DEFINE n3 == Rest(Rest(Rest(n)))
<1>1. n3 \in Nat
  BY LowAndRest
<1>2. Rest(n3) \in Nat /\ Low(n3) + Base * Rest(n3) = n3
  BY <1>1, LowAndRest
<1>3. Low(n) + Base * (Low(Rest(n)) + Base * (Low(Rest(Rest(n))) + Base * n3)) = n
  BY ThreeBytes
<1> QED
  BY <1>2, <1>3

\* The integers of an output are 4 and 8 bytes.
LEMMA BytesOfOutput ==
  ASSUME NEW output \in Outputs
  PROVE  LET four  == LeBytes4(output.batch_number)
             eight == LeBytes8(output.chain_id)
         IN /\ output.batch_number \in Nat /\ output.chain_id \in Nat
            /\ four \in Seq(Nat) /\ Len(four) = 4
            /\ eight \in Seq(Nat) /\ Len(eight) = 8
            /\ \A i \in 1..4 : eight[i] = <<Low(output.chain_id),
                  Low(Rest(output.chain_id)), Low(Rest(Rest(output.chain_id))),
                  Low(Rest(Rest(Rest(output.chain_id))))>>[i]
            /\ \A i \in 1..4 : eight[4 + i] =
                  LeBytes4(Rest(Rest(Rest(Rest(output.chain_id)))))[i]
<1> DEFINE n    == output.chain_id
           low  == <<Low(n), Low(Rest(n)), Low(Rest(Rest(n))), Low(Rest(Rest(Rest(n))))>>
           high == LeBytes4(Rest(Rest(Rest(Rest(n)))))
<1>1. output.batch_number \in Nat /\ n \in Nat
  BY DEF Outputs, U32, U64
<1>2. ASSUME NEW m \in Nat PROVE LeBytes4(m) \in Seq(Nat) /\ Len(LeBytes4(m)) = 4
  <2>1. Low(m) \in Nat /\ Rest(m) \in Nat
    BY LowAndRest
  <2>2. Low(Rest(m)) \in Nat /\ Rest(Rest(m)) \in Nat
    BY <2>1, LowAndRest
  <2>3. Low(Rest(Rest(m))) \in Nat /\ Rest(Rest(Rest(m))) \in Nat
    BY <2>2, LowAndRest
  <2> QED
    BY <2>1, <2>2, <2>3 DEF LeBytes4
<1>3. low \in Seq(Nat) /\ Len(low) = 4
  <2>1. Low(n) \in Nat /\ Rest(n) \in Nat
    BY <1>1, LowAndRest
  <2>2. Low(Rest(n)) \in Nat /\ Rest(Rest(n)) \in Nat
    BY <2>1, LowAndRest
  <2>3. Low(Rest(Rest(n))) \in Nat /\ Rest(Rest(Rest(n))) \in Nat
    BY <2>2, LowAndRest
  <2>4. Low(Rest(Rest(Rest(n)))) \in Nat
    BY <2>3, LowAndRest
  <2> QED
    BY <2>1, <2>2, <2>3, <2>4
<1>4. high \in Seq(Nat) /\ Len(high) = 4
  BY <1>1, <1>2, FourBytes
<1>5. LeBytes8(n) = low \o high
  BY DEF LeBytes8
<1>6. /\ low \o high \in Seq(Nat) /\ Len(low \o high) = 8
      /\ \A i \in 1..4 : (low \o high)[i] = low[i]
      /\ \A i \in 1..4 : (low \o high)[4 + i] = high[i]
  <2> HIDE DEF low, high
  <2>1. /\ low \o high \in Seq(Nat) /\ Len(low \o high) = Len(low) + Len(high)
        /\ \A i \in 1..Len(low) : (low \o high)[i] = low[i]
        /\ \A i \in 1..Len(high) : (low \o high)[Len(low) + i] = high[i]
    BY <1>3, <1>4, Both
  <2>2. Len(low) = 4 /\ Len(high) = 4
    BY <1>3, <1>4
  <2>3. low \o high \in Seq(Nat) /\ Len(low \o high) = 8
    BY <2>1, <2>2
  <2>4. \A i \in 1..4 : (low \o high)[i] = low[i]
    BY <2>1, <2>2
  <2>5. \A i \in 1..4 : (low \o high)[4 + i] = high[i]
    BY <2>1, <2>2
  <2> QED
    BY <2>3, <2>4, <2>5
<1> HIDE DEF low, high
<1> QED
  BY <1>1, <1>2, <1>5, <1>6 DEF low, high

\* Where the parts of an encoded output are.
LEMMA Layout ==
  ASSUME NEW output \in Outputs
  PROVE  LET data == ToVec(output)
             four == LeBytes4(output.batch_number)
             eight == LeBytes8(output.chain_id)
         IN /\ Len(data) = 2 * HashLen + 12
            /\ \A i \in 1..HashLen : /\ data[i] = output.keccak_hash[i]
                                     /\ data[HashLen + i] = output.data_root[i]
            /\ \A i \in 1..4 : data[2 * HashLen + i] = four[i]
            /\ \A i \in 1..8 : data[2 * HashLen + 4 + i] = eight[i]
<1> DEFINE hash  == output.keccak_hash
           root  == output.data_root
           four  == LeBytes4(output.batch_number)
           eight == LeBytes8(output.chain_id)
           two   == hash \o root
           three == two \o four
<1> USE HashLenAssumption
<1>1. hash \in Seq(Bytes) /\ Len(hash) = HashLen
      /\ root \in Seq(Bytes) /\ Len(root) = HashLen
  <2>1. hash \in [1..HashLen -> Bytes] /\ root \in [1..HashLen -> Bytes]
    BY DEF Outputs, Hashes
  <2> QED
    BY <2>1, LenProperties
<1>2. four \in Seq(Nat) /\ Len(four) = 4 /\ eight \in Seq(Nat) /\ Len(eight) = 8
  BY BytesOfOutput
<1> HIDE DEF hash, root, four, eight
<1>3. /\ two \in Seq(Nat) /\ Len(two) = 2 * HashLen
      /\ \A i \in 1..HashLen : two[i] = hash[i] /\ two[HashLen + i] = root[i]
  <2>1. hash \in Seq(Nat) /\ root \in Seq(Nat)
    BY <1>1, BaseAssumption DEF Bytes
  <2>2. /\ two \in Seq(Nat) /\ Len(two) = Len(hash) + Len(root)
        /\ \A i \in 1..Len(hash) : two[i] = hash[i]
        /\ \A i \in 1..Len(root) : two[Len(hash) + i] = root[i]
    BY <2>1, Both
  <2> HIDE DEF two
  <2>3. Len(hash) = HashLen /\ Len(root) = HashLen
    BY <1>1
  <2>4. \A i \in 1..HashLen : two[i] = hash[i]
    BY <2>2, <2>3
  <2>5. \A i \in 1..HashLen : two[HashLen + i] = root[i]
    BY <2>2, <2>3
  <2> QED
    BY <2>2, <2>3, <2>4, <2>5
<1> HIDE DEF two
<1>4. /\ three \in Seq(Nat) /\ Len(three) = 2 * HashLen + 4
      /\ \A i \in 1..(2 * HashLen) : three[i] = two[i]
      /\ \A i \in 1..4 : three[2 * HashLen + i] = four[i]
  <2>1. /\ three \in Seq(Nat) /\ Len(three) = Len(two) + Len(four)
        /\ \A i \in 1..Len(two) : three[i] = two[i]
        /\ \A i \in 1..Len(four) : three[Len(two) + i] = four[i]
    <3>1. two \in Seq(Nat) /\ four \in Seq(Nat)
      BY <1>2, <1>3
    <3> QED
      BY <3>1, Both
  <2> HIDE DEF three
  <2>2. Len(two) = 2 * HashLen /\ Len(four) = 4
    BY <1>2, <1>3
  <2>3. \A i \in 1..(2 * HashLen) : three[i] = two[i]
    BY <2>1, <2>2
  <2>4. \A i \in 1..4 : three[2 * HashLen + i] = four[i]
    BY <2>1, <2>2
  <2> QED
    BY <2>1, <2>2, <2>3, <2>4
<1> HIDE DEF three
<1> DEFINE data == three \o eight
<1>5. /\ Len(data) = 2 * HashLen + 12
      /\ \A i \in 1..(2 * HashLen + 4) : data[i] = three[i]
      /\ \A i \in 1..8 : data[2 * HashLen + 4 + i] = eight[i]
  <2>1. /\ Len(data) = Len(three) + Len(eight)
        /\ \A i \in 1..Len(three) : data[i] = three[i]
        /\ \A i \in 1..Len(eight) : data[Len(three) + i] = eight[i]
    <3>1. three \in Seq(Nat) /\ eight \in Seq(Nat)
      BY <1>2, <1>4
    <3> QED
      BY <3>1, Both
  <2> HIDE DEF data
  <2>2. Len(three) = 2 * HashLen + 4 /\ Len(eight) = 8
    BY <1>2, <1>4
  <2>3. \A i \in 1..(2 * HashLen + 4) : data[i] = three[i]
    BY <2>1, <2>2
  <2>4. \A i \in 1..8 : data[2 * HashLen + 4 + i] = eight[i]
    BY <2>1, <2>2
  <2> QED
    BY <2>1, <2>2, <2>3, <2>4
<1>6. ToVec(output) = data
  <2>1. ToVec(output) = hash \o root \o four \o eight
    BY DEF ToVec, hash, root, four, eight
  <2> QED
    BY <2>1 DEF two, three
<1> HIDE DEF data
<1>7. ASSUME NEW i \in 1..HashLen
      PROVE  data[i] = hash[i] /\ data[HashLen + i] = root[i]
  <2>1. /\ i \in 1..(2 * HashLen) /\ HashLen + i \in 1..(2 * HashLen)
        /\ i \in 1..(2 * HashLen + 4) /\ HashLen + i \in 1..(2 * HashLen + 4)
    OBVIOUS
  <2> QED
    BY <1>3, <1>4, <1>5, <2>1
<1>8. ASSUME NEW i \in 1..4 PROVE data[2 * HashLen + i] = four[i]
  <2>1. 2 * HashLen + i \in 1..(2 * HashLen + 4)
    OBVIOUS
  <2> QED
    BY <1>4, <1>5, <2>1
<1> QED
  BY <1>5, <1>6, <1>7, <1>8 DEF hash, root, four, eight

\* The verifier reads back every output the program can commit to, and never
\* takes it for something else.
THEOREM OutputIsReadBack ==
  ASSUME NEW output \in Outputs
  PROVE  FromBytes(ToVec(output)) = output
<1> DEFINE data  == ToVec(output)
           batch == output.batch_number
           chain == output.chain_id
           four  == LeBytes4(batch)
           eight == LeBytes8(chain)
           high  == Rest(Rest(Rest(Rest(chain))))
<1>1. /\ Len(data) = 2 * HashLen + 12
      /\ \A i \in 1..HashLen : /\ data[i] = output.keccak_hash[i]
                               /\ data[HashLen + i] = output.data_root[i]
      /\ \A i \in 1..4 : data[2 * HashLen + i] = four[i]
      /\ \A i \in 1..8 : data[2 * HashLen + 4 + i] = eight[i]
  BY Layout
<1>2. batch \in Nat /\ chain \in Nat /\ high \in Nat
  BY BytesOfOutput, FourBytes
<1> HIDE DEF data
<1>3. FromLe4(data, 2 * HashLen + 1) = batch
  <2>1. /\ data[2 * HashLen + 1] = Low(batch)
        /\ data[2 * HashLen + 2] = Low(Rest(batch))
        /\ data[2 * HashLen + 3] = Low(Rest(Rest(batch)))
        /\ data[2 * HashLen + 4] = Rest(Rest(Rest(batch)))
    BY <1>1 DEF LeBytes4
  <2>2. FromLe4(data, 2 * HashLen + 1)
          = data[2 * HashLen + 1] + Base * (data[2 * HashLen + 2]
              + Base * (data[2 * HashLen + 3] + Base * data[2 * HashLen + 4]))
    BY HashLenAssumption DEF FromLe4
  <2> QED
    BY <1>2, <2>1, <2>2, ThreeBytes
<1>4. FromLe8(data, 2 * HashLen + 5) = chain
  <2>1. /\ data[2 * HashLen + 5] = Low(chain)
        /\ data[2 * HashLen + 6] = Low(Rest(chain))
        /\ data[2 * HashLen + 7] = Low(Rest(Rest(chain)))
        /\ data[2 * HashLen + 8] = Low(Rest(Rest(Rest(chain))))
        /\ data[2 * HashLen + 9] = Low(high)
        /\ data[2 * HashLen + 10] = Low(Rest(high))
        /\ data[2 * HashLen + 11] = Low(Rest(Rest(high)))
        /\ data[2 * HashLen + 12] = Rest(Rest(Rest(high)))
    <3>1. \A i \in 1..8 : data[2 * HashLen + 4 + i] = eight[i]
      BY <1>1
    <3>2. /\ eight[1] = Low(chain) /\ eight[2] = Low(Rest(chain))
          /\ eight[3] = Low(Rest(Rest(chain)))
          /\ eight[4] = Low(Rest(Rest(Rest(chain))))
      BY BytesOfOutput
    <3>3. /\ eight[5] = Low(high) /\ eight[6] = Low(Rest(high))
          /\ eight[7] = Low(Rest(Rest(high))) /\ eight[8] = Rest(Rest(Rest(high)))
      BY BytesOfOutput DEF LeBytes4
    <3> QED
      BY <3>1, <3>2, <3>3, HashLenAssumption
  <2>2. FromLe4(data, 2 * HashLen + 9)
          = data[2 * HashLen + 9] + Base * (data[2 * HashLen + 10]
              + Base * (data[2 * HashLen + 11] + Base * data[2 * HashLen + 12]))
    BY HashLenAssumption DEF FromLe4
  <2>3. FromLe4(data, 2 * HashLen + 9) = high
    BY <1>2, <2>1, <2>2, ThreeBytes
  <2>4. FromLe8(data, 2 * HashLen + 5)
          = data[2 * HashLen + 5] + Base * (data[2 * HashLen + 6]
              + Base * (data[2 * HashLen + 7] + Base * (data[2 * HashLen + 8]
              + Base * FromLe4(data, 2 * HashLen + 9))))
    BY HashLenAssumption DEF FromLe8
  <2> QED
    BY <1>2, <2>1, <2>3, <2>4, FourBytes
<1>5. /\ [i \in 1..HashLen |-> data[i]] = output.keccak_hash
      /\ [i \in 1..HashLen |-> data[HashLen + i]] = output.data_root
  BY <1>1 DEF Outputs, Hashes
<1>6. FromBytes(data) = [keccak_hash  |-> output.keccak_hash,
                         data_root    |-> output.data_root,
                         batch_number |-> batch,
                         chain_id     |-> chain]
  BY <1>1, <1>3, <1>4, <1>5 DEF FromBytes
<1> QED
  BY <1>6 DEF Outputs, data
=============================================================================
