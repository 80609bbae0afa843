-------------------------- MODULE BlobIdTextProofs ---------------------------
(***************************************************************************)
(* Theorems about BlobIdText, for every set of ids and of other clients'    *)
(* requests, and any number of errors in copying: an id that arrives whole  *)
(* leads to its own job, a miscopied one to no other commitment, an error   *)
(* has a reason, and a job leads back to itself.                            *)
(***************************************************************************)
EXTENDS BlobIdText, SequenceTheorems, TLAPS

-----------------------------------------------------------------------------
(***************************************************************************)
(* Namespaces                                                               *)
(***************************************************************************)

NamespaceV0 == {ns \in Namespace : ns.version = 0}

LEMMA BytesOfSize ==
  ASSUME NEW n \in Nat, NEW f \in [1..n -> Bytes]
  PROVE  f \in Seq(Bytes) /\ Len(f) = n
  OBVIOUS

LEMMA ZerosAreBytes ==
  ASSUME NEW n \in Nat
  PROVE  /\ Zeros(n) \in [1..n -> Bytes] /\ Zeros(n) \in Seq(Bytes) /\ Len(Zeros(n)) = n
         /\ \A i \in 1..n : Zeros(n)[i] = 0
<1>1. Zeros(n) \in [1..n -> Bytes] /\ \A i \in 1..n : Zeros(n)[i] = 0
  BY DEF Zeros, Bytes
<1> QED
  BY ONLY <1>1, n \in Nat, BytesOfSize

LEMMA Padded ==
  ASSUME NEW m \in Nat, NEW s \in Seq(Bytes)
  PROVE  /\ Zeros(m) \o s \in Seq(Bytes) /\ Len(Zeros(m) \o s) = m + Len(s)
         /\ \A i \in 1..m : (Zeros(m) \o s)[i] = 0
         /\ \A i \in 1..Len(s) : (Zeros(m) \o s)[m + i] = s[i]
<1> DEFINE z == Zeros(m)
<1>1. z \in Seq(Bytes) /\ Len(z) = m /\ \A i \in 1..m : z[i] = 0
  BY ONLY m \in Nat, ZerosAreBytes
<1>2. Len(s) \in Nat
  BY LenProperties
<1> HIDE DEF z
<1>3. /\ z \o s \in Seq(Bytes) /\ Len(z \o s) = Len(z) + Len(s)
      /\ \A i \in 1..Len(z) + Len(s) :
           (z \o s)[i] = IF i <= Len(z) THEN z[i] ELSE s[i - Len(z)]
  BY ONLY <1>1, s \in Seq(Bytes), ConcatProperties
<1>4. ASSUME NEW i \in 1..m PROVE (z \o s)[i] = 0
  <2>1. i \in 1..Len(z) + Len(s) /\ i <= Len(z)
    BY ONLY <1>1, <1>2, m \in Nat, i \in 1..m
  <2> QED
    BY ONLY <1>1, <1>3, <2>1, i \in 1..m
<1>5. ASSUME NEW i \in 1..Len(s) PROVE (z \o s)[m + i] = s[i]
  <2>1. m + i \in 1..Len(z) + Len(s) /\ ~(m + i <= Len(z)) /\ (m + i) - Len(z) = i
    BY ONLY <1>1, <1>2, m \in Nat, i \in 1..Len(s)
  <2>2. (z \o s)[m + i] = s[(m + i) - Len(z)]
    BY ONLY <1>3, <2>1
  <2> QED
    BY ONLY <2>1, <2>2
<1>6. Len(z \o s) = m + Len(s)
  BY ONLY <1>1, <1>3
<1> QED
  BY <1>3, <1>4, <1>5, <1>6 DEF z

LEMMA IsNamespaceV0 ==
  ASSUME NEW f \in [1..28 -> Bytes], \A i \in 1..18 : f[i] = 0
  PROVE  [version |-> 0, id |-> f] \in NamespaceV0
<1> DEFINE ns == [version |-> 0, id |-> f]
<1>1. 0 \in Bytes /\ IdSize = 28 /\ IdSize - IdSizeV0 = 18
  BY DEF Bytes, IdSize, IdSizeV0
<1>2. ns \in [version : Bytes, id : [1..IdSize -> Bytes]]
  BY <1>1
<1>3. \A i \in 1..(IdSize - IdSizeV0) : ns.id[i] = 0
  BY <1>1
<1> QED
  BY <1>2, <1>3 DEF NamespaceV0, Namespace

\* The bytes that matter in a namespace of version 0.
LEMMA IdV0Bytes ==
  ASSUME NEW ns \in NamespaceV0
  PROVE  /\ IdV0(ns) \in Seq(Bytes) /\ Len(IdV0(ns)) = IdSizeV0
         /\ \A i \in 1..IdSizeV0 : IdV0(ns)[i] = ns.id[IdSize - IdSizeV0 + i]
<1>1. ns.id \in [1..IdSize -> Bytes]
  BY DEF NamespaceV0, Namespace
<1>2. \A i \in 19..28 : ns.id[i] \in Bytes
  BY <1>1 DEF IdSize
<1>3. /\ SubSeq(ns.id, 19, 28) \in Seq(Bytes)
      /\ Len(SubSeq(ns.id, 19, 28)) = 10
      /\ \A i \in 1..10 : SubSeq(ns.id, 19, 28)[i] = ns.id[18 + i]
  BY <1>2, SubSeqProperties
<1> QED
  BY <1>3 DEF IdV0, IdSize, IdSizeV0

\* Cutting the padding off and putting it back gives the same namespace.
LEMMA NamespaceRoundTrip ==
  ASSUME NEW ns \in NamespaceV0
  PROVE  NewV0(IdV0(ns)) = ns
<1> DEFINE cut == IdV0(ns)
           padded == Zeros(18) \o cut
<1>1. /\ ns \in [version : Bytes, id : [1..28 -> Bytes]] /\ ns.version = 0
      /\ \A i \in 1..18 : ns.id[i] = 0
  BY DEF NamespaceV0, Namespace, IdSize, IdSizeV0
<1>2. /\ cut \in Seq(Bytes) /\ Len(cut) = 10
      /\ \A i \in 1..10 : cut[i] = ns.id[18 + i]
  BY IdV0Bytes DEF IdSize, IdSizeV0
<1> HIDE DEF cut
<1>3. /\ padded \in Seq(Bytes) /\ Len(padded) = 18 + Len(cut)
      /\ \A i \in 1..18 : padded[i] = 0
      /\ \A i \in 1..Len(cut) : padded[18 + i] = cut[i]
  BY ONLY <1>2, 18 \in Nat, Padded
<1> HIDE DEF padded
<1>4. Len(padded) = 28 /\ \A i \in 1..10 : padded[18 + i] = cut[i]
  BY ONLY <1>2, <1>3
<1>5. \A i \in 1..28 : padded[i] = ns.id[i]
  <2> SUFFICES ASSUME NEW i \in 1..28 PROVE padded[i] = ns.id[i]
    OBVIOUS
  <2>1. CASE i \in 1..18
    BY ONLY <1>1, <1>3, <2>1
  <2>2. CASE i \notin 1..18
    <3>1. i - 18 \in 1..10 /\ 18 + (i - 18) = i
      BY <2>2
    <3>2. padded[18 + (i - 18)] = ns.id[18 + (i - 18)]
      BY ONLY <1>2, <1>4, <3>1
    <3> QED
      BY ONLY <3>1, <3>2
  <2> QED
    BY <2>1, <2>2
<1>6. padded = ns.id
  <2>1. padded \in [1..Len(padded) -> Bytes]
    BY ONLY <1>3, LenProperties
  <2>2. padded \in [1..28 -> Bytes]
    BY ONLY <1>4, <2>1
  <2> QED
    BY ONLY <1>1, <1>5, <2>2
<1>7. NewV0(cut) = [version |-> 0, id |-> padded]
  <2>1. 28 - Len(cut) = 18 /\ Len(cut) # 28 /\ Len(cut) <= 10
    BY <1>2
  <2> QED
    BY ONLY <2>1 DEF NewV0, IdSize, IdSizeV0, padded
<1> QED
  BY <1>1, <1>6, <1>7 DEF cut

\* What is not refused is a namespace of version 0.
LEMMA NewV0Namespace ==
  ASSUME NEW bytes \in Seq(Bytes), NewV0(bytes) # InvalidNamespace
  PROVE  NewV0(bytes) \in NamespaceV0
<1> DEFINE n == Len(bytes)
<1>1. n \in Nat /\ bytes \in [1..n -> Bytes]
  BY ONLY bytes \in Seq(Bytes), LenProperties
<1> HIDE DEF n
<1>2. CASE n = 28 /\ SubSeq(bytes, 1, 18) = Zeros(18)
  <2>1. bytes \in [1..28 -> Bytes]
    BY ONLY <1>1, <1>2
  <2>2. \A i \in 1..18 : bytes[i] = 0
    <3>1. \A i \in 1..18 : bytes[i] \in Bytes
      <4>1. \A i \in 1..28 : bytes[i] \in Bytes
        BY ONLY <2>1
      <4>2. \A i \in 1..18 : i \in 1..28
        OBVIOUS
      <4> QED
        BY ONLY <4>1, <4>2
    <3>2. \A i \in 1..(18 - 1 + 1) : SubSeq(bytes, 1, 18)[i] = bytes[1 + i - 1]
      BY ONLY <3>1, 1 \in Int, 18 \in Int, SubSeqProperties
    <3>3. \A i \in 1..18 : Zeros(18)[i] = 0
      BY ONLY 18 \in Nat, ZerosAreBytes
    <3> QED
      <4> SUFFICES ASSUME NEW i \in 1..18 PROVE bytes[i] = 0
        OBVIOUS
      <4>1. i \in 1..(18 - 1 + 1) /\ 1 + i - 1 = i
        OBVIOUS
      <4> QED
        BY ONLY <1>2, <3>2, <3>3, <4>1
  <2>3. NewV0(bytes) = [version |-> 0, id |-> bytes]
    BY <1>2 DEF NewV0, IdSize, IdSizeV0, n
  <2> QED
    BY ONLY <2>1, <2>2, <2>3, IsNamespaceV0
<1>3. CASE n <= 10
  <2> DEFINE padded == Zeros(28 - n) \o bytes
  <2>1. 28 - n \in Nat /\ n + (28 - n) = 28 /\ (28 - n) + n = 28 /\ n # 28
    BY ONLY <1>1, <1>3
  <2>2. /\ padded \in Seq(Bytes) /\ Len(padded) = (28 - n) + n
        /\ \A i \in 1..(28 - n) : padded[i] = 0
    BY ONLY <2>1, bytes \in Seq(Bytes), Padded DEF n
  <2>3. NewV0(bytes) = [version |-> 0, id |-> padded]
    BY ONLY <1>3, <2>1 DEF NewV0, IdSize, IdSizeV0, n
  <2> HIDE DEF padded
  <2>4. padded \in [1..28 -> Bytes]
    <3>1. padded \in [1..Len(padded) -> Bytes]
      BY ONLY <2>2, LenProperties
    <3> QED
      BY ONLY <2>1, <2>2, <3>1
  <2>5. \A i \in 1..18 : padded[i] = 0
    <3>1. \A i \in 1..18 : i \in 1..(28 - n)
      BY ONLY <1>1, <1>3
    <3> QED
      BY ONLY <2>2, <3>1
  <2> QED
    BY ONLY <2>3, <2>4, <2>5, IsNamespaceV0
<1> QED
  BY <1>2, <1>3 DEF NewV0, IdSize, IdSizeV0, n

LEMMA V0IsNotInvalid == \A ns \in NamespaceV0 : ns # InvalidNamespace
<1>1. InvalidNamespace.version = 255
  BY DEF InvalidNamespace
<1> QED
  BY <1>1 DEF NamespaceV0

-----------------------------------------------------------------------------
(***************************************************************************)
(* The text form                                                            *)
(***************************************************************************)

LEMMA BlobIdFields ==
  ASSUME NEW b \in BlobId
  PROVE  /\ b.height \in Nat /\ b.height <= MaxHeight
         /\ b.namespace \in Namespace
         /\ b.commitment \in Seq(Bytes) /\ Len(b.commitment) = CommitmentSize
         /\ b.l2_chain_id \in Nat /\ b.l2_chain_id <= MaxU64
         /\ b.batch_number \in Nat /\ b.batch_number <= MaxU32
         /\ b = [height |-> b.height, namespace |-> b.namespace,
                 commitment |-> b.commitment, l2_chain_id |-> b.l2_chain_id,
                 batch_number |-> b.batch_number]
<1>1. b.commitment \in [1..CommitmentSize -> Bytes] /\ CommitmentSize \in Nat
  BY DEF BlobId, CommitmentSize
<1> QED
  BY <1>1, BytesOfSize, WidthAssumption DEF BlobId

\* A text of five parts is split as it is.
LEMMA FiveParts ==
  ASSUME NEW a, NEW b, NEW c, NEW d, NEW e
  PROVE  Split(<<a, b, c, d, e>>) = <<a, b, c, d, e>>
  BY DEF Split

\* The bytes of a part that no field takes, and of a number's digits.
LEMMA PartFacts ==
  /\ CommitmentSize = 32 /\ NotANumber \in Nat
  /\ ~(NotANumber <= MaxHeight) /\ ~(NotANumber <= MaxU64) /\ ~(NotANumber <= MaxU32)
  /\ Words \in Part /\ Words.number = NotANumber /\ Len(Words.bytes) = 33
  /\ NewV0(Words.bytes) = InvalidNamespace
<1>1. NotBase64 \in Seq(Bytes) /\ Len(NotBase64) = 33
  <2>1. NotBase64 = Zeros(33)
    BY DEF NotBase64, CommitmentSize
  <2> QED
    BY ONLY <2>1, 33 \in Nat, ZerosAreBytes
<1>2. NewV0(NotBase64) = InvalidNamespace
  BY <1>1 DEF NewV0, IdSize, IdSizeV0
<1> QED
  BY <1>1, <1>2, WidthAssumption DEF Words, Part, NotANumber, CommitmentSize

\* The text of an id of version 0 is the id.
LEMMA TextRoundTrip ==
  ASSUME NEW b \in BlobId, b.namespace.version = 0
  PROVE  Parses(Display(b)) /\ FromStr(Split(Display(b))) = b
<1>1. b.namespace \in NamespaceV0
  BY BlobIdFields DEF NamespaceV0
<1>2. NewV0(IdV0(b.namespace)) = b.namespace /\ b.namespace # InvalidNamespace
  BY <1>1, NamespaceRoundTrip, V0IsNotInvalid
<1>3. Split(Display(b)) = <<Number(b.height), Base64(IdV0(b.namespace)),
                            Base64(b.commitment), Number(b.l2_chain_id),
                            Number(b.batch_number)>>
  BY FiveParts DEF Display, NamespaceText
<1>4. Parses(Display(b))
  BY <1>2, <1>3, BlobIdFields DEF Parses, Number, Base64
<1>5. FromStr(Split(Display(b)))
        = [height |-> b.height, namespace |-> b.namespace,
           commitment |-> b.commitment, l2_chain_id |-> b.l2_chain_id,
           batch_number |-> b.batch_number]
  BY <1>2, <1>3 DEF FromStr, Number, Base64
<1> QED
  BY <1>4, <1>5, BlobIdFields

\* The text of any other id is refused.
LEMMA OtherVersionRefused ==
  ASSUME NEW b, Parses(Display(b))
  PROVE  b.namespace.version = 0
<1>1. SUFFICES ASSUME b.namespace.version # 0 PROVE FALSE
  OBVIOUS
<1>2. Split(Display(b)) = <<Number(b.height), Words, Base64(b.commitment),
                            Number(b.l2_chain_id), Number(b.batch_number)>>
  BY <1>1, FiveParts DEF Display, NamespaceText
<1> QED
  BY <1>2, PartFacts DEF Parses

\* A text of more parts is refused: the fifth takes what follows it along.
LEMMA FivePartsParse ==
  ASSUME NEW parts \in Seq(Part), Parses(parts)
  PROVE  Len(parts) = 5 /\ Split(parts) = parts
<1>1. Len(parts) \in Nat /\ Words \in Part
  BY LenProperties, PartFacts
<1>2. CASE Len(parts) <= 5
  <2>1. Split(parts) = parts
    BY ONLY <1>2 DEF Split
  <2> QED
    BY ONLY <2>1, Parses(parts) DEF Parses
<1>3. CASE ~(Len(parts) <= 5)
  <2>1. Split(parts) = SubSeq(parts, 1, 4) \o <<Words>>
    BY ONLY <1>3 DEF Split
  <2>2. \A i \in 1..4 : parts[i] \in Part
    <3>1. \A i \in 1..4 : i \in 1..Len(parts)
      BY ONLY <1>1, <1>3
    <3> QED
      BY ONLY parts \in Seq(Part), <3>1, ElementOfSeq
  <2>3. SubSeq(parts, 1, 4) \in Seq(Part) /\ Len(SubSeq(parts, 1, 4)) = 4
    BY ONLY <2>2, 1 \in Int, 4 \in Int, SubSeqProperties
  <2>4. <<Words>> \in Seq(Part) /\ Len(<<Words>>) = 1 /\ <<Words>>[1] = Words
    BY ONLY <1>1
  <2>5. Split(parts)[5] = Words
    BY ONLY <2>1, <2>3, <2>4, ConcatProperties
  <2>6. Words.number <= MaxU32
    BY ONLY <2>5, Parses(parts) DEF Parses
  <2> QED
    BY <2>6, PartFacts
<1> QED
  BY <1>2, <1>3

\* What parses is an id of version 0.
LEMMA ParsedIsBlobId ==
  ASSUME NEW parts \in Seq(Part), Parses(parts)
  PROVE  /\ Len(parts) = 5
         /\ FromStr(Split(parts)) \in BlobId
         /\ FromStr(Split(parts)).namespace.version = 0
         /\ FromStr(Split(parts)).commitment = parts[3].bytes
         /\ Len(parts[3].bytes) = CommitmentSize
<1>1. Len(parts) = 5 /\ Split(parts) = parts
  BY FivePartsParse
<1>2. /\ parts[1] \in Part /\ parts[2] \in Part /\ parts[3] \in Part
      /\ parts[4] \in Part /\ parts[5] \in Part
  <2>1. \A i \in 1..5 : i \in 1..Len(parts)
    BY ONLY <1>1
  <2>2. \A i \in 1..5 : parts[i] \in Part
    BY ONLY <2>1, parts \in Seq(Part), ElementOfSeq
  <2> QED
    BY ONLY <2>2
<1>3. /\ parts[1].number <= MaxHeight /\ NewV0(parts[2].bytes) # InvalidNamespace
      /\ Len(parts[3].bytes) = CommitmentSize
      /\ parts[4].number <= MaxU64 /\ parts[5].number <= MaxU32
  BY <1>1 DEF Parses
<1>4. /\ parts[1].number \in 0..MaxHeight /\ parts[4].number \in 0..MaxU64
      /\ parts[5].number \in 0..MaxU32
  <2>1. /\ parts[1].number \in Nat /\ parts[4].number \in Nat /\ parts[5].number \in Nat
    BY <1>2 DEF Part
  <2> QED
    BY ONLY <1>3, <2>1, WidthAssumption
<1>5. NewV0(parts[2].bytes) \in NamespaceV0
  BY <1>2, <1>3, NewV0Namespace DEF Part
<1>6. parts[3].bytes \in [1..CommitmentSize -> Bytes]
  BY <1>2, <1>3, LenProperties DEF Part
<1> QED
  BY <1>1, <1>3, <1>4, <1>5, <1>6 DEF FromStr, BlobId, NamespaceV0

-----------------------------------------------------------------------------
(***************************************************************************)
(* Errors in copying                                                        *)
(***************************************************************************)

\* The parts a text of an id may have: only one commitment is among them.
PartsOf(b) ==
  {part \in Part : Len(part.bytes) = CommitmentSize => part.bytes = b.commitment}

TextsOf(b) == {parts \in Seq(PartsOf(b)) : Len(parts) > 0}

LEMMA PrintedText ==
  ASSUME NEW b \in BlobId
  PROVE  Display(b) \in TextsOf(b)
<1>1. /\ Number(b.height) \in PartsOf(b) /\ Number(b.l2_chain_id) \in PartsOf(b)
      /\ Number(b.batch_number) \in PartsOf(b)
  <2>1. /\ b.height \in 0..MaxU64 /\ b.l2_chain_id \in 0..MaxU64
        /\ b.batch_number \in 0..MaxU64
    BY BlobIdFields, WidthAssumption
  <2>2. \A n \in 0..MaxU64 : Number(n) \in PartsOf(b)
    BY DigitsAssumption, WidthAssumption DEF Number, PartsOf, Part
  <2> QED
    BY <2>1, <2>2
<1>2. Base64(b.commitment) \in PartsOf(b)
  BY BlobIdFields, PartFacts DEF Base64, PartsOf, Part
<1>3. NamespaceText(b.namespace) \in PartsOf(b)
  <2>1. CASE b.namespace.version = 0
    <3>1. b.namespace \in NamespaceV0
      BY <2>1, BlobIdFields DEF NamespaceV0
    <3>2. IdV0(b.namespace) \in Seq(Bytes) /\ Len(IdV0(b.namespace)) = 10
      BY <3>1, IdV0Bytes DEF IdSizeV0
    <3>3. Base64(IdV0(b.namespace)) \in PartsOf(b)
      <4> DEFINE bytes == IdV0(b.namespace)
      <4>1. /\ Base64(bytes) = [number |-> NotANumber, bytes |-> bytes]
            /\ NotANumber \in Nat /\ CommitmentSize = 32
        BY PartFacts DEF Base64
      <4> HIDE DEF bytes
      <4>2. bytes \in Seq(Bytes) /\ Len(bytes) = 10
        BY ONLY <3>2 DEF bytes
      <4>3. Base64(bytes) \in Part /\ Len(Base64(bytes).bytes) # CommitmentSize
        <5>1. [number |-> NotANumber, bytes |-> bytes] \in [number : Nat, bytes : Seq(Bytes)]
          BY ONLY <4>1, <4>2
        <5>2. Base64(bytes).bytes = bytes
          BY ONLY <4>1
        <5>3. Len(bytes) # 32
          BY ONLY <4>2
        <5> QED
          BY ONLY <4>1, <5>1, <5>2, <5>3 DEF Part
      <4> QED
        BY <4>3 DEF PartsOf, bytes
    <3> QED
      BY <2>1, <3>3 DEF NamespaceText
  <2>2. CASE b.namespace.version # 0
    BY <2>2, PartFacts DEF NamespaceText, PartsOf
  <2> QED
    BY <2>1, <2>2
<1> DEFINE P == PartsOf(b)
           s == Display(b)
<1>4. Number(b.height) \in P /\ NamespaceText(b.namespace) \in P
      /\ Base64(b.commitment) \in P /\ Number(b.l2_chain_id) \in P
      /\ Number(b.batch_number) \in P
  BY <1>1, <1>2, <1>3
<1> HIDE DEF P
<1>5. Display(b) \in Seq(P) /\ Len(Display(b)) > 0
  BY ONLY <1>4 DEF Display
<1> QED
  BY <1>5 DEF P, TextsOf

LEMMA FragmentsAreParts == \A b : Fragments \subseteq PartsOf(b)
BY FragmentsAssumption DEF PartsOf

\* No error in copying brings another commitment.
LEMMA MiscopiedText ==
  ASSUME NEW b, text \in TextsOf(b), Miscopy
  PROVE  text' \in TextsOf(b)
<1> DEFINE P == PartsOf(b)
<1>1. /\ text \in Seq(P) /\ Len(text) \in Nat /\ Len(text) > 0
      /\ Fragments \subseteq P
      /\ \A i \in 1..Len(text) : text[i] \in P
  BY FragmentsAreParts, ElementOfSeq, LenProperties DEF TextsOf
<1> HIDE DEF P
<1>2. \A i, j \in Int : (\A k \in i..j : k \in 1..Len(text)) =>
        /\ SubSeq(text, i, j) \in Seq(P)
        /\ Len(SubSeq(text, i, j)) = IF i <= j THEN j - i + 1 ELSE 0
  <2> SUFFICES ASSUME NEW i \in Int, NEW j \in Int, \A k \in i..j : k \in 1..Len(text)
               PROVE  /\ SubSeq(text, i, j) \in Seq(P)
                      /\ Len(SubSeq(text, i, j)) = IF i <= j THEN j - i + 1 ELSE 0
    OBVIOUS
  <2>1. \A k \in i..j : text[k] \in P
    BY ONLY <1>1, \A k \in i..j : k \in 1..Len(text)
  <2> QED
    BY ONLY <2>1, i \in Int, j \in Int, SubSeqProperties
<1>3. CASE LosePart
  <2>1. PICK i \in 1..Len(text) : text' = RemoveAt(text, i) /\ Len(text) > 1
    BY <1>3 DEF LosePart
  <2>2. /\ SubSeq(text, 1, i - 1) \in Seq(P)
        /\ Len(SubSeq(text, 1, i - 1)) = IF 1 <= i - 1 THEN i - 1 - 1 + 1 ELSE 0
    BY ONLY <1>1, <1>2, i \in 1..Len(text)
  <2>3. /\ SubSeq(text, i + 1, Len(text)) \in Seq(P)
        /\ Len(SubSeq(text, i + 1, Len(text)))
             = IF i + 1 <= Len(text) THEN Len(text) - (i + 1) + 1 ELSE 0
    BY ONLY <1>1, <1>2, i \in 1..Len(text)
  <2>4. /\ RemoveAt(text, i) \in Seq(P)
        /\ Len(RemoveAt(text, i)) =
             Len(SubSeq(text, 1, i - 1)) + Len(SubSeq(text, i + 1, Len(text)))
    BY ONLY <2>2, <2>3, ConcatProperties DEF RemoveAt
  <2>5. Len(RemoveAt(text, i)) > 0
    <3> DEFINE n      == Len(text)
               before == Len(SubSeq(text, 1, i - 1))
               after  == Len(SubSeq(text, i + 1, n))
    <3>1. /\ n \in Nat /\ n > 1 /\ i \in 1..n
          /\ before = IF 1 <= i - 1 THEN i - 1 - 1 + 1 ELSE 0
          /\ after = IF i + 1 <= n THEN n - (i + 1) + 1 ELSE 0
          /\ Len(RemoveAt(text, i)) = before + after
      BY ONLY <1>1, <2>1, <2>2, <2>3, <2>4, i \in 1..Len(text)
    <3> HIDE DEF n, before, after
    <3>2. before = i - 1 /\ after = n - i
      BY ONLY <3>1
    <3> QED
      BY ONLY <3>1, <3>2
  <2> QED
    BY <2>1, <2>4, <2>5 DEF TextsOf, P
<1>4. CASE AddPart
  <2>0. PICK i \in 1..Len(text) :
          \E part \in Fragments \cup {text[i]} : text' = InsertAt(text, i, part)
    BY <1>4 DEF AddPart
  <2>1. PICK part \in Fragments \cup {text[i]} : text' = InsertAt(text, i, part)
    BY <2>0
  <2>2. /\ SubSeq(text, 1, i - 1) \in Seq(P)
        /\ Len(SubSeq(text, 1, i - 1)) = IF 1 <= i - 1 THEN i - 1 - 1 + 1 ELSE 0
    BY ONLY <1>1, <1>2, i \in 1..Len(text)
  <2>3. /\ SubSeq(text, i, Len(text)) \in Seq(P)
        /\ Len(SubSeq(text, i, Len(text)))
             = IF i <= Len(text) THEN Len(text) - i + 1 ELSE 0
    BY ONLY <1>1, <1>2, i \in 1..Len(text)
  <2>4. <<part>> \in Seq(P) /\ Len(<<part>>) = 1
    <3>1. part \in P
      BY ONLY <1>1, i \in 1..Len(text), part \in Fragments \cup {text[i]}
    <3> QED
      BY ONLY <3>1
  <2>5. /\ SubSeq(text, 1, i - 1) \o <<part>> \in Seq(P)
        /\ Len(SubSeq(text, 1, i - 1) \o <<part>>)
             = Len(SubSeq(text, 1, i - 1)) + Len(<<part>>)
    BY ONLY <2>2, <2>4, ConcatProperties
  <2>6. /\ InsertAt(text, i, part) \in Seq(P)
        /\ Len(InsertAt(text, i, part)) =
             Len(SubSeq(text, 1, i - 1) \o <<part>>) + Len(SubSeq(text, i, Len(text)))
    BY ONLY <2>3, <2>5, ConcatProperties DEF InsertAt
  <2>7. Len(InsertAt(text, i, part)) > 0
    BY ONLY <1>1, <2>2, <2>3, <2>4, <2>5, <2>6, i \in 1..Len(text)
  <2> QED
    BY <2>1, <2>6, <2>7 DEF TextsOf, P
<1>5. ASSUME NEW i \in 1..Len(text), NEW part \in P
      PROVE  /\ [text EXCEPT ![i] = part] \in Seq(P)
             /\ Len([text EXCEPT ![i] = part]) = Len(text)
  BY ONLY <1>1, i \in 1..Len(text), part \in P, ExceptSeq
<1>6. CASE SwapParts
  <2>1. PICK i \in 1..Len(text), j \in 1..Len(text) :
          text' = [text EXCEPT ![i] = text[j], ![j] = text[i]]
    BY <1>6 DEF SwapParts
  <2> DEFINE half == [text EXCEPT ![i] = text[j]]
  <2>2. text[i] \in P /\ text[j] \in P
    BY ONLY <1>1, i \in 1..Len(text), j \in 1..Len(text)
  <2>3. half \in Seq(P) /\ Len(half) = Len(text)
    BY ONLY <1>5, <2>2, i \in 1..Len(text)
  <2>4. text' = [half EXCEPT ![j] = text[i]]
    BY ONLY <2>1
  <2> HIDE DEF half
  <2>5. text' \in Seq(P) /\ Len(text') = Len(half)
    BY ONLY <2>2, <2>3, <2>4, j \in 1..Len(text), ExceptSeq
  <2> QED
    BY <1>1, <2>3, <2>5 DEF TextsOf, P
<1>7. CASE CutPart
  <2>1. PICK i \in 1..Len(text), part \in Fragments : text' = ReplaceAt(text, i, part)
    BY <1>7 DEF CutPart
  <2>2. text' \in Seq(P) /\ Len(text') = Len(text)
    BY ONLY <1>1, <1>5, <2>1 DEF ReplaceAt
  <2> QED
    BY <1>1, <2>2 DEF TextsOf, P
<1> QED
  BY <1>3, <1>4, <1>6, <1>7 DEF Miscopy

-----------------------------------------------------------------------------
(***************************************************************************)
(* Requests                                                                 *)
(***************************************************************************)

\* The request of an id of version 0 is valid, and its job is the id.
LEMMA RequestRoundTrip ==
  ASSUME NEW b \in BlobId, b.namespace.version = 0
  PROVE  Valid(ToRequest(b)) /\ JobOf(ToRequest(b)) = b
<1>1. b.namespace \in NamespaceV0
  BY BlobIdFields DEF NamespaceV0
<1>2. NewV0(IdV0(b.namespace)) = b.namespace /\ b.namespace # InvalidNamespace
  BY <1>1, NamespaceRoundTrip, V0IsNotInvalid
<1> QED
  BY <1>2, BlobIdFields DEF Valid, JobOf, ToRequest

\* The job of a valid request is an id of version 0.
LEMMA JobIsBlobId ==
  ASSUME NEW r \in GetZkStackRequest, Valid(r)
  PROVE  JobOf(r) \in BlobId /\ JobOf(r).namespace.version = 0
<1>1. /\ r.height \in 0..MaxHeight /\ r.chain_id \in 0..MaxU64
      /\ r.batch_number \in 0..MaxU32
  BY WidthAssumption DEF GetZkStackRequest, Valid
<1>2. NewV0(r.namespace) \in NamespaceV0
  BY NewV0Namespace DEF GetZkStackRequest, Valid
<1>3. r.commitment \in [1..CommitmentSize -> Bytes]
  BY LenProperties DEF GetZkStackRequest, Valid
<1> QED
  BY <1>1, <1>2, <1>3 DEF JobOf, BlobId, NamespaceV0

-----------------------------------------------------------------------------
(***************************************************************************)
(* The invariant                                                            *)
(***************************************************************************)

\* The ids that a text of this id can be taken for: itself, or one about the same
\* commitment if the text has five parts and is not as it was printed.
TakenFor ==
  {b \in BlobId : /\ b.namespace.version = 0
                  /\ b.commitment = id.commitment
                  /\ b = id \/ (Len(text) = 5 /\ text # Display(id))}

\* The properties speak of where an id ends; this is what holds on its way.
WayInv ==
  /\ id \in BlobId
  /\ stage = "printed" => text \in TextsOf(id)
  /\ stage \in {"requested", "received"} =>
       request \in OtherRequests \/ \E b \in TakenFor : request = ToRequest(b)
  /\ stage = "received" => Valid(request) /\ job = JobOf(request)
  /\ OwnIdIsAccepted

\* What the handler makes of a request on this way.
LEMMA ReceivedJob ==
  ASSUME WayInv, stage = "received"
  PROVE  /\ job \in BlobId /\ job.namespace.version = 0
         /\ Own => job \in TakenFor
<1>1. /\ request \in OtherRequests \/ \E b \in TakenFor : request = ToRequest(b)
      /\ Valid(request) /\ job = JobOf(request)
  BY DEF WayInv
<1>2. ASSUME NEW b \in TakenFor, request = ToRequest(b)
      PROVE  job = b /\ b \in BlobId /\ b.namespace.version = 0
  BY <1>1, <1>2, RequestRoundTrip DEF TakenFor
<1>3. ASSUME request \in OtherRequests
      PROVE  job \in BlobId /\ job.namespace.version = 0
  BY <1>1, <1>3, JobIsBlobId, RequestsAssumption
<1> QED
  BY <1>1, <1>2, <1>3 DEF Own

\* What a text that parses is taken for.
LEMMA ParsedText ==
  ASSUME WayInv, stage = "printed", Parses(text)
  PROVE  FromStr(Split(text)) \in TakenFor
<1>1. id \in BlobId /\ text \in TextsOf(id)
  BY DEF WayInv
<1>2. text \in Seq(Part)
  BY <1>1 DEF TextsOf, PartsOf
<1>3. /\ Len(text) = 5
      /\ FromStr(Split(text)) \in BlobId
      /\ FromStr(Split(text)).namespace.version = 0
      /\ FromStr(Split(text)).commitment = text[3].bytes
      /\ Len(text[3].bytes) = CommitmentSize
  BY <1>2, ParsedIsBlobId
<1>4. text[3] \in PartsOf(id)
  <2>1. text \in Seq(PartsOf(id)) /\ 3 \in 1..Len(text)
    BY <1>1, <1>3 DEF TextsOf
  <2> QED
    BY ONLY <2>1, ElementOfSeq
<1>5. text[3].bytes = id.commitment
  BY <1>3, <1>4 DEF PartsOf
<1>6. text = Display(id) => FromStr(Split(text)) = id
  BY <1>1, OtherVersionRefused, TextRoundTrip
<1> QED
  BY <1>3, <1>5, <1>6 DEF TakenFor

LEMMA WayStep == WayInv /\ [Next]_vars => WayInv'
<1> SUFFICES ASSUME WayInv, [Next]_vars PROVE WayInv'
  OBVIOUS
<1>0. id \in BlobId /\ OwnIdIsAccepted
  BY DEF WayInv
<1>1. CASE PrintId
  <2>1. Display(id) \in TextsOf(id)
    BY <1>0, PrintedText
  <2> QED
    BY <1>0, <1>1, <2>1 DEF PrintId, WayInv, OwnIdIsAccepted
<1>2. CASE Miscopy
  <2>1. /\ stage = "printed" /\ UNCHANGED <<id, request, job, stage>>
    BY <1>2 DEF Miscopy
  <2>2. text' \in TextsOf(id)
    BY <1>2, <2>1, MiscopiedText DEF WayInv
  <2> QED
    BY <1>0, <2>1, <2>2 DEF WayInv, OwnIdIsAccepted
<1>3. CASE Ask
  <2>1. stage = "printed" /\ UNCHANGED <<id, text, job>>
    BY <1>3 DEF Ask
  <2>2. CASE Parses(text)
    <3>1. FromStr(Split(text)) \in TakenFor
      BY <2>1, <2>2, ParsedText
    <3>2. TakenFor' = TakenFor
      BY <2>1 DEF TakenFor
    <3>3. request' = ToRequest(FromStr(Split(text))) /\ stage' = "requested"
      BY <1>3, <2>2 DEF Ask
    <3> QED
      BY <1>0, <2>1, <3>1, <3>2, <3>3 DEF WayInv, OwnIdIsAccepted
  <2>3. CASE ~Parses(text)
    <3>1. id.namespace.version # 0 \/ text # Display(id)
      BY <1>0, <2>3, TextRoundTrip
    <3>2. text # <<>>
      BY <2>1, EmptySeq DEF WayInv, TextsOf
    <3>3. stage' = "error"
      BY <1>3, <2>3 DEF Ask
    <3> QED
      BY <1>0, <2>1, <3>1, <3>2, <3>3 DEF WayInv, OwnIdIsAccepted
  <2> QED
    BY <2>2, <2>3
<1>4. CASE AskDirectly
  <2>1. UNCHANGED <<id, text>>
    BY <1>4 DEF AskDirectly
  <2>2. CASE id.namespace.version = 0
    <3>1. id \in TakenFor /\ TakenFor' = TakenFor
      BY <1>0, <2>1, <2>2 DEF TakenFor
    <3>2. request' = ToRequest(id) /\ stage' = "requested"
      BY <1>4, <2>2 DEF AskDirectly
    <3> QED
      BY <1>0, <2>1, <3>1, <3>2 DEF WayInv, OwnIdIsAccepted
  <2>3. CASE id.namespace.version # 0
    BY <1>0, <1>4, <2>3 DEF AskDirectly, WayInv, OwnIdIsAccepted
  <2> QED
    BY <2>2, <2>3
<1>5. CASE AskOtherwise
  BY <1>0, <1>5 DEF AskOtherwise, WayInv, OwnIdIsAccepted
<1>6. CASE Receive
  <2>1. /\ stage = "requested" /\ UNCHANGED <<id, text, request>>
        /\ IF Valid(request) THEN job' = JobOf(request) /\ stage' = "received"
                             ELSE stage' = "error"
    BY <1>6 DEF Receive
  <2>2. request \in OtherRequests \/ \E b \in TakenFor : request = ToRequest(b)
    BY <2>1 DEF WayInv
  <2>3. Own => Valid(request)
    BY <2>2, RequestRoundTrip DEF Own, TakenFor
  <2>4. TakenFor' = TakenFor /\ Own' = Own /\ Valid(request)' = Valid(request)
    BY <2>1 DEF TakenFor, Own, Valid
  <2>5. OwnIdIsAccepted'
    BY <2>1, <2>3, <2>4 DEF OwnIdIsAccepted
  <2> QED
    BY <1>0, <2>1, <2>2, <2>4, <2>5 DEF WayInv
<1>7. CASE AskFromLog
  <2>1. job \in BlobId
    BY <1>7, ReceivedJob DEF AskFromLog
  <2>2. Display(job) \in TextsOf(job)
    BY <2>1, PrintedText
  <2>3. id' = job /\ text' = Display(job) /\ stage' = "printed"
    BY <1>7 DEF AskFromLog
  <2> QED
    BY <2>1, <2>2, <2>3 DEF WayInv, OwnIdIsAccepted
<1>8. CASE UNCHANGED vars
  <2>1. UNCHANGED <<id, text, request, job, stage>>
    BY <1>8 DEF vars
  <2>2. TakenFor' = TakenFor
    BY <2>1 DEF TakenFor
  <2> QED
    BY <2>1, <2>2 DEF WayInv, OwnIdIsAccepted, Own
<1> QED
  BY <1>1, <1>2, <1>3, <1>4, <1>5, <1>6, <1>7, <1>8 DEF Next

LEMMA WayInvariant == Spec => []WayInv
<1>1. Init => WayInv
  BY IdsAssumption DEF Init, WayInv, OwnIdIsAccepted
<1> QED
  BY <1>1, WayStep, PTL DEF Spec

-----------------------------------------------------------------------------
(***************************************************************************)
(* Theorems                                                                 *)
(***************************************************************************)

\* NeverAnotherBlob: an id that arrives as it was printed leads to its job or
\* nowhere, one with a part lost or added leads nowhere, and no error in copying
\* leads to a job about another commitment.
THEOREM AnIdIsOneBlob == Spec => []NeverAnotherBlob
<1>1. WayInv => NeverAnotherBlob
  BY ReceivedJob DEF NeverAnotherBlob, TakenFor
<1> QED
  BY <1>1, WayInvariant, PTL

\* OwnIdIsAccepted: no id of version 0 that arrives as it was printed is refused.
THEOREM NoIdIsRefused == Spec => []OwnIdIsAccepted
<1>1. WayInv => OwnIdIsAccepted
  BY DEF WayInv
<1> QED
  BY <1>1, WayInvariant, PTL

\* JobCanBeAskedFor: every job the service takes on, from whatever request, has
\* a text and a request that lead back to it.
THEOREM EveryJobHasAnId == Spec => []JobCanBeAskedFor
<1>1. WayInv => JobCanBeAskedFor
  BY ReceivedJob, TextRoundTrip, RequestRoundTrip DEF JobCanBeAskedFor
<1> QED
  BY <1>1, WayInvariant, PTL
=============================================================================
