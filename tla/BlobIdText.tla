----------------------------- MODULE BlobIdText ------------------------------
(***************************************************************************)
(* A blob id on its way from one person's terminal to the service's job: it *)
(* is printed, passed on as text, parsed, put into a gRPC request by the    *)
(* SDK, and turned into a job by the handler.  Any other client may make    *)
(* its own request.                                                         *)
(*                                                                         *)
(* A text is the sequence of its parts between colons.  Which field a part  *)
(* is for is decided by its place alone, so a part is what it reads as in   *)
(* either kind of place: as a decimal number, and as base64.                *)
(***************************************************************************)
EXTENDS Naturals, SequencesExt

CONSTANTS
  MaxHeight,      \* the largest block height (an i64 in the code)
  MaxU32,         \* the largest u32 and u64
  MaxU64,
  Ids,            \* the blob ids that people print
  OtherRequests,  \* the requests that other clients make
  DigitsAsBase64, \* the bytes that base64 makes of a number's digits
  Fragments,      \* what is left of a part that was cut, as a part
  MaxErrors       \* bound: how many errors are made in copying

ASSUME WidthAssumption ==
  /\ MaxHeight \in Nat /\ MaxU32 \in Nat /\ MaxU64 \in Nat
  /\ MaxHeight <= MaxU64 /\ MaxU32 <= MaxU64
ASSUME ErrorsAssumption == MaxErrors \in Nat

IdSize == 28
IdSizeV0 == 10
CommitmentSize == 32

Bytes == 0..255

\* What the types of the code admit: a namespace of version 0 uses its last ten
\* bytes only, and heights are never beyond the largest ...
Namespace ==
  {ns \in [version : Bytes, id : [1..IdSize -> Bytes]] :
     ns.version = 0 => \A i \in 1..(IdSize - IdSizeV0) : ns.id[i] = 0}

BlobId ==
  [height : 0..MaxHeight, namespace : Namespace,
   commitment : [1..CommitmentSize -> Bytes],
   l2_chain_id : 0..MaxU64, batch_number : 0..MaxU32]

\* ... but a request has just integers and bytes.
GetZkStackRequest ==
  [height : 0..MaxU64, namespace : Seq(Bytes), commitment : Seq(Bytes),
   batch_number : 0..MaxU32, chain_id : 0..MaxU64]

ASSUME IdsAssumption == Ids \subseteq BlobId
ASSUME RequestsAssumption == OtherRequests \subseteq GetZkStackRequest

Part == [number : Nat, bytes : Seq(Bytes)]

\* 32 bytes take 44 characters with a padding: the digits of a number are fewer,
\* and so is what is left of any part.
ASSUME DigitsAssumption ==
  \A n \in 0..MaxU64 : /\ DigitsAsBase64[n] \in Seq(Bytes)
                       /\ Len(DigitsAsBase64[n]) # CommitmentSize
ASSUME FragmentsAssumption ==
  /\ Fragments \subseteq Part
  /\ \A part \in Fragments : Len(part.bytes) # CommitmentSize

VARIABLES
  id,       \* the blob id in question
  text,     \* its text, as it was printed and then passed on
  errors,   \* how many errors were made in passing it on
  request,  \* the GetZkStackRequest the service receives
  job,      \* what the handler makes of it
  stage     \* "id", "printed", "requested", "received" or "error"

vars == <<id, text, errors, request, job, stage>>

None == [none |-> TRUE]

-----------------------------------------------------------------------------
(***************************************************************************)
(* Namespaces: a version byte and 28 bytes, of which version 0 uses 10.     *)
(***************************************************************************)

Zeros(n) == [i \in 1..n |-> 0]

InvalidNamespace == [version |-> 255, id |-> Zeros(IdSize)]

\* Namespace::new_v0: all 28 bytes, or up to 10 that are padded on the left.
NewV0(bytes) ==
  LET n == Len(bytes) IN
  IF n = IdSize /\ SubSeq(bytes, 1, IdSize - IdSizeV0) = Zeros(IdSize - IdSizeV0)
    THEN [version |-> 0, id |-> bytes]
  ELSE IF n <= IdSizeV0
    THEN [version |-> 0, id |-> Zeros(IdSize - n) \o bytes]
  ELSE InvalidNamespace

\* Namespace::id_v0, for a namespace of version 0.
IdV0(namespace) == SubSeq(namespace.id, IdSize - IdSizeV0 + 1, IdSize)

-----------------------------------------------------------------------------
(***************************************************************************)
(* The text form.                                                           *)
(***************************************************************************)

\* What cannot be read as a number, or as base64, is read as something that
\* every field refuses.
NotANumber == MaxU64 + 1
NotBase64  == Zeros(CommitmentSize + 1)

Number(n)     == [number |-> n, bytes |-> DigitsAsBase64[n]]
Base64(bytes) == [number |-> NotANumber, bytes |-> bytes]
Words         == [number |-> NotANumber, bytes |-> NotBase64]

NamespaceText(namespace) ==
  IF namespace.version = 0 THEN Base64(IdV0(namespace)) ELSE Words

Display(blob) ==
  <<Number(blob.height), NamespaceText(blob.namespace), Base64(blob.commitment),
    Number(blob.l2_chain_id), Number(blob.batch_number)>>

\* Variant: whatever follows the fifth part is ignored.
SplitIgnoringRest(parts) == IF Len(parts) <= 5 THEN parts ELSE SubSeq(parts, 1, 5)

\* Variant: one part too few.
SplitInFour(parts) == IF Len(parts) <= 4 THEN parts ELSE SubSeq(parts, 1, 3) \o <<Words>>

\* splitn(5): whatever follows the fourth colon is one part.
Split(parts) == IF Len(parts) <= 5 THEN parts ELSE SubSeq(parts, 1, 4) \o <<Words>>

\* The fields parse, and the namespace and the commitment have their sizes.
Parses(parts) ==
  LET p == Split(parts) IN
  /\ Len(p) = 5
  /\ p[1].number <= MaxHeight
  /\ NewV0(p[2].bytes) # InvalidNamespace
  /\ Len(p[3].bytes) = CommitmentSize
  /\ p[4].number <= MaxU64
  /\ p[5].number <= MaxU32

FromStr(parts) ==
  [height       |-> parts[1].number,
   namespace    |-> NewV0(parts[2].bytes),
   commitment   |-> parts[3].bytes,
   l2_chain_id  |-> parts[4].number,
   batch_number |-> parts[5].number]

-----------------------------------------------------------------------------
(***************************************************************************)
(* The request.                                                             *)
(***************************************************************************)

\* Variant: the namespace goes out with its version and its padding.
ToRequestWhole(blob) ==
  [height       |-> blob.height,
   namespace    |-> <<blob.namespace.version>> \o blob.namespace.id,
   commitment   |-> blob.commitment,
   batch_number |-> blob.batch_number,
   chain_id     |-> blob.l2_chain_id]

\* EqClient::get_zk_stack
ToRequest(blob) ==
  [height       |-> blob.height,
   namespace    |-> IdV0(blob.namespace),
   commitment   |-> blob.commitment,
   batch_number |-> blob.batch_number,
   chain_id     |-> blob.l2_chain_id]

\* The three checks at the head of the handler.
Valid(r) ==
  /\ r.height <= MaxHeight
  /\ NewV0(r.namespace) # InvalidNamespace
  /\ Len(r.commitment) = CommitmentSize

\* Job::new, as the handler calls it.
JobOf(r) ==
  [height       |-> r.height,
   namespace    |-> NewV0(r.namespace),
   commitment   |-> r.commitment,
   l2_chain_id  |-> r.chain_id,
   batch_number |-> r.batch_number]

-----------------------------------------------------------------------------
(***************************************************************************)
(* The way of an id.                                                        *)
(***************************************************************************)

Init ==
  /\ id \in Ids
  /\ text = <<>>
  /\ errors = 0
  /\ request = None
  /\ job = None
  /\ stage = "id"

PrintId ==
  /\ stage = "id"
  /\ text' = Display(id)
  /\ stage' = "printed"
  /\ UNCHANGED <<id, errors, request, job>>

LosePart == Len(text) > 1 /\ \E i \in 1..Len(text) : text' = RemoveAt(text, i)

\* A part comes twice, or a scrap of something else comes along.
AddPart ==
  \E i \in 1..Len(text) :
    \E part \in Fragments \cup {text[i]} : text' = InsertAt(text, i, part)

SwapParts ==
  \E i, j \in 1..Len(text) : text' = [text EXCEPT ![i] = text[j], ![j] = text[i]]

CutPart ==
  \E i \in 1..Len(text) : \E part \in Fragments : text' = ReplaceAt(text, i, part)

\* One error in copying a text: parts get lost, come along, change places, or
\* arrive in part.
Miscopy ==
  /\ stage = "printed"
  /\ errors < MaxErrors
  /\ LosePart \/ AddPart \/ SwapParts \/ CutPart
  /\ errors' = errors + 1
  /\ UNCHANGED <<id, request, job, stage>>

\* FromStr, then the SDK's request.
Ask ==
  /\ stage = "printed"
  /\ IF Parses(text)
       THEN request' = ToRequest(FromStr(Split(text))) /\ stage' = "requested"
       ELSE stage' = "error" /\ UNCHANGED request
  /\ UNCHANGED <<id, text, errors, job>>

\* An id handed to the SDK as it is: refused if it is not of version 0.
AskDirectly ==
  /\ stage = "id"
  /\ IF id.namespace.version = 0
       THEN request' = ToRequest(id) /\ stage' = "requested"
       ELSE stage' = "error" /\ UNCHANGED request
  /\ UNCHANGED <<id, text, errors, job>>

\* Another client's request, about the same blob or not.
AskOtherwise ==
  /\ stage = "id"
  /\ request' \in OtherRequests
  /\ stage' = "requested"
  /\ UNCHANGED <<id, text, errors, job>>

\* The handler: an invalid argument, or a job.
Receive ==
  /\ stage = "requested"
  /\ IF Valid(request)
       THEN job' = JobOf(request) /\ stage' = "received"
       ELSE stage' = "error" /\ UNCHANGED job
  /\ UNCHANGED <<id, text, errors, request>>

\* The service logs the job; somebody puts an id together from the fields in the
\* log and asks about it.
AskFromLog ==
  /\ stage = "received"
  /\ id' = job
  /\ text' = Display(job)
  /\ request' = None
  /\ job' = None
  /\ stage' = "printed"
  /\ UNCHANGED errors

Next == PrintId \/ Miscopy \/ Ask \/ AskDirectly \/ AskOtherwise \/ Receive \/ AskFromLog

Spec == Init /\ [][Next]_vars

-----------------------------------------------------------------------------
(***************************************************************************)
(* Properties                                                               *)
(***************************************************************************)

\* The request is the id's own, or another client's.
Own == request \notin OtherRequests

\* An id that arrives as it was printed leads to its own job and no other.  If it
\* was miscopied, a part too few or too many ends in an error; five parts, some of
\* them cut or in another's place (the chain id and the batch number, say), may
\* be another job's, but never one about another commitment.
NeverAnotherBlob ==
  stage = "received" /\ Own =>
    /\ job.commitment = id.commitment
    /\ job = id \/ (Len(text) = 5 /\ text # Display(id))

\* An error has a reason: an id of version 0 whose text arrived as it was
\* printed, or that went straight to the SDK, is never refused.
OwnIdIsAccepted ==
  stage = "error" /\ Own =>
    \/ id.namespace.version # 0
    \/ text \notin {<<>>, Display(id)}

\* What the service logs and prints about a job leads back to the same job,
\* also for requests that gave the namespace in another length.
JobCanBeAskedFor ==
  stage = "received" =>
    /\ Parses(Display(job)) /\ FromStr(Split(Display(job))) = job
    /\ JobOf(ToRequest(job)) = job
=============================================================================
