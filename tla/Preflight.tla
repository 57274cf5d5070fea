----------------------------- MODULE Preflight -----------------------------
(***************************************************************************)
(* Decoding a proof (src/verify/decode.rs): rust-bitcoin allocates from the*)
(* counts and lengths of an encoding before it reads what they describe, so*)
(* a cursor walks the bytes first (src/verify/preflight.rs).               *)
(*                                                                         *)
(* The calls that the cursor still has to make are the sequence work, the  *)
(* next one at its head; a loop is one call that is to be made n times.    *)
(* The value of a PSBT pair is read by a cursor of its own, up to end.     *)
(***************************************************************************)
EXTENDS Encoding

CONSTANTS
    MaxEncodingSize, MaxProofInputs,
    Payloads               \* the decoded base64 payloads: [format, bytes]

Payload == [format : {"smp", "ful", "pof"}, bytes : Seq(Byte)]

ASSUME PayloadAssumption == Payloads \subseteq Payload

VARIABLES
    payload,               \* what is decoded
    decoded,               \* what rust-bitcoin makes of it, when called
    pc,                    \* "start", "walk", "decode", "done"
    position, end,         \* of the cursor, in payload.bytes
    work,                  \* the calls still to be made
    shape,                 \* the counts of the unsigned transaction, once known
    result                 \* "pending", "invalid", "inconclusive", "decoded"

vars == <<payload, decoded, pc, position, end, work, shape, result>>

bytes == payload.bytes
NoShape == [known |-> FALSE, inputs |-> 0, outputs |-> 0]

-----------------------------------------------------------------------------
(* The cursor.                                                             *)

ByteAt(p) == bytes[p + 1]

(* How many bytes follow the first one of the CompactSize at p.            *)
Width(p) == IF ByteAt(p) < FirstPrefix THEN 0 ELSE Widths[ByteAt(p) - FirstPrefix + 1]

After(p) == p + 1 + Width(p)

CompactSize(p) ==
    IF Width(p) = 0 THEN ByteAt(p)
    ELSE LittleEndian(SubSeq(bytes, p + 2, After(p)))

(* The least value that needs the prefix at p.                             *)
Minimum(p) ==
    IF Width(p) = 0 THEN 0
    ELSE IF ByteAt(p) = FirstPrefix THEN FirstPrefix
    ELSE Base ^ Widths[ByteAt(p) - FirstPrefix]

(* Mutant: a value of exactly the least size is refused.                   *)
HasCompactSizeStrict(p) ==
    /\ p < end
    /\ After(p) <= end
    /\ CompactSize(p) > Minimum(p) \/ Width(p) = 0

HasCompactSize(p) ==
    /\ p < end
    /\ After(p) <= end
    /\ CompactSize(p) >= Minimum(p)

(* take: there are length bytes at p.                                      *)
CanTake(p, length) == length \in 0 .. end - p

(* count: there are bytes for as many items of at least this size.         *)
CanCount(size) ==
    /\ HasCompactSize(position)
    /\ CompactSize(position) \in 0 .. (end - After(position)) \div size

MinInput == OutpointSize + 1 + SequenceSize
MinOutput == ValueSize + 1

-----------------------------------------------------------------------------
(* The calls.                                                              *)

Ops == {"skip", "sized", "witness", "input", "inputs", "output", "outputs", "transaction",
        "marker", "segwit", "unsigned", "unsigned_outputs", "return",
        "return_exact",
        "magic", "global", "input_map", "output_map"}
Call == [op : Ops, n : Nat, size : Nat]

Times(op, n) == IF n = 0 THEN << >> ELSE <<[op |-> op, n |-> n, size |-> 0]>>
Do(op) == Times(op, 1)
Skip(size) == <<[op |-> "skip", n |-> 1, size |-> size]>>

Calls(op) == pc = "walk" /\ work # << >> /\ Head(work).op = op

(* What is left when the call at the head has been made once.              *)
Rest ==
    IF Head(work).n > 1 THEN <<[Head(work) EXCEPT !.n = @ - 1]>> \o Tail(work)
    ELSE Tail(work)

(* The call has read up to p, and makes more calls itself.                 *)
ReadTo(p, calls) ==
    /\ position' = p
    /\ work' = calls \o Rest
    /\ UNCHANGED <<payload, decoded, pc, end, result>>

Return(verdict) ==
    /\ pc' = "done" /\ result' = verdict
    /\ UNCHANGED <<payload, decoded, position, end, work, shape>>

(* Any of the calls ends in None.                                          *)
Check(condition, p, calls) ==
    IF condition THEN ReadTo(p, calls) /\ UNCHANGED shape ELSE Return("invalid")

SkipBytes ==
    /\ Calls("skip")
    /\ Check(CanTake(position, Head(work).size), position + Head(work).size, << >>)

(* Mutant: the length is compared with what remained in front of it.       *)
SkipSizedInFront ==
    /\ Calls("sized")
    /\ Check(/\ HasCompactSize(position)
             /\ CanTake(position, CompactSize(position)),
             After(position) + CompactSize(position), << >>)

(* A script or the item of a witness: its length and that many bytes.      *)
SkipSized ==
    /\ Calls("sized")
    /\ Check(/\ HasCompactSize(position)
             /\ CanTake(After(position), CompactSize(position)),
             After(position) + CompactSize(position), << >>)

ReadWitness ==
    /\ Calls("witness")
    /\ Check(CanCount(1), After(position), Times("sized", CompactSize(position)))

ReadInput ==
    /\ Calls("input")
    /\ ReadTo(position, Skip(OutpointSize) \o Do("sized") \o Skip(SequenceSize))
    /\ UNCHANGED shape

ReadOutput ==
    /\ Calls("output")
    /\ ReadTo(position, Skip(ValueSize) \o Do("sized"))
    /\ UNCHANGED shape

ReadTransaction ==
    /\ Calls("transaction")
    /\ ReadTo(position, Skip(VersionSize) \o Do("inputs"))
    /\ UNCHANGED shape

(* No inputs mean the witness serialization of BIP 144.                    *)
ReadInputs ==
    /\ Calls("inputs")
    /\ Check(CanCount(MinInput), After(position),
             IF CompactSize(position) = 0 THEN Do("marker") \o Do("segwit")
             ELSE Times("input", CompactSize(position)) \o Do("outputs") \o Skip(LockTimeSize))

ReadMarker ==
    /\ Calls("marker")
    /\ Check(position < end /\ ByteAt(position) = 1, position + 1, << >>)

ReadSegwit ==
    /\ Calls("segwit")
    /\ Check(CanCount(MinInput), After(position),
             Times("input", CompactSize(position)) \o Do("outputs")
                 \o Times("witness", CompactSize(position)) \o Skip(LockTimeSize))

ReadOutputs ==
    /\ Calls("outputs")
    /\ Check(CanCount(MinOutput), After(position), Times("output", CompactSize(position)))

(* Mutant: an unsigned transaction is read like any other.                 *)
ReadUnsignedAsAny ==
    /\ Calls("unsigned")
    /\ IF CanCount(MinInput)
          THEN /\ ReadTo(After(position),
                         IF CompactSize(position) = 0
                            THEN Do("marker") \o Do("unsigned") \o Do("unsigned_outputs")
                            ELSE Times("input", CompactSize(position)) \o Do("unsigned_outputs"))
               /\ shape' = [shape EXCEPT !.known = TRUE, !.inputs = CompactSize(position)]
          ELSE Return("invalid")

(* An unsigned transaction is not read that way, and its counts are kept.  *)
ReadUnsigned ==
    /\ Calls("unsigned")
    /\ IF CanCount(MinInput)
          THEN /\ ReadTo(After(position),
                         Times("input", CompactSize(position)) \o Do("unsigned_outputs"))
               /\ shape' = [shape EXCEPT !.known = TRUE, !.inputs = CompactSize(position)]
          ELSE Return("invalid")

ReadUnsignedOutputs ==
    /\ Calls("unsigned_outputs")
    /\ IF CanCount(MinOutput)
          THEN /\ ReadTo(After(position),
                         Times("output", CompactSize(position)) \o Skip(LockTimeSize))
               /\ shape' = [shape EXCEPT !.outputs = CompactSize(position)]
          ELSE Return("invalid")

-----------------------------------------------------------------------------
(* The maps of a PSBT.                                                     *)

KeyStart == After(position)
KeyEnd == KeyStart + CompactSize(position)
ValueStart == After(KeyEnd)
ValueEnd == ValueStart + CompactSize(KeyEnd)

HasKey == HasCompactSize(position) /\ CanTake(KeyStart, CompactSize(position))
HasValue == HasCompactSize(KeyEnd) /\ CanTake(ValueStart, CompactSize(KeyEnd))

AtSeparator == HasKey /\ CompactSize(position) = 0
AtPair == HasKey /\ CompactSize(position) # 0 /\ HasValue

(* The pair has this key type, and no key data.                            *)
KeyIs(type) == CompactSize(position) = 1 /\ ByteAt(KeyStart) = type

(* The rest of a map is read after the pair.                               *)
SkipPair == position' = ValueEnd /\ UNCHANGED <<payload, decoded, pc, end, work, shape, result>>

(* A cursor over the value makes these calls first.                        *)
EnterValue(calls) ==
    /\ position' = ValueStart /\ end' = ValueEnd
    /\ work' = calls \o work
    /\ UNCHANGED <<payload, decoded, pc, shape, result>>

(* Back to the cursor of the PSBT, which is behind the value.              *)
LeaveValue ==
    /\ Calls("return")
    /\ position' = end /\ end' = Len(bytes)
    /\ work' = Rest
    /\ UNCHANGED <<payload, decoded, pc, shape, result>>

LeaveUnsigned ==
    /\ Calls("return_exact")
    /\ IF position = end
          THEN position' = end /\ end' = Len(bytes) /\ work' = Rest
               /\ UNCHANGED <<payload, decoded, pc, shape, result>>
          ELSE Return("invalid")

ReadMagic ==
    /\ Calls("magic")
    /\ Check(CanTake(0, Len(Magic)) /\ SubSeq(bytes, 1, Len(Magic)) = Magic,
             Len(Magic), << >>)

GlobalPair ==
    /\ Calls("global") /\ AtPair
    /\ IF KeyIs(UnsignedTx)
          THEN IF shape.known THEN Return("invalid")
               ELSE EnterValue(Skip(VersionSize) \o Do("unsigned") \o Do("return_exact"))
       ELSE SkipPair

(* Every input and every output has a map.                                 *)
GlobalSeparator ==
    /\ Calls("global") /\ AtSeparator
    /\ Check(shape.known, KeyEnd,
             Times("input_map", shape.inputs) \o Times("output_map", shape.outputs))

(* Mutant: the final witness is left to rust-bitcoin.                      *)
InputPairUnread ==
    /\ Calls("input_map") /\ AtPair
    /\ LET Enter(op) == IF ValueEnd - ValueStart > MaxEncodingSize THEN Return("invalid")
                        ELSE EnterValue(Do(op) \o Do("return"))
       IN  IF KeyIs(NonWitnessUtxo) THEN Enter("transaction") ELSE SkipPair

InputPair ==
    /\ Calls("input_map") /\ AtPair
    /\ LET Enter(op) == IF ValueEnd - ValueStart > MaxEncodingSize THEN Return("invalid")
                        ELSE EnterValue(Do(op) \o Do("return"))
       IN  IF KeyIs(NonWitnessUtxo) THEN Enter("transaction")
           ELSE IF KeyIs(FinalScriptwitness) THEN Enter("witness")
           ELSE SkipPair

OutputPair == Calls("output_map") /\ AtPair /\ SkipPair

MapSeparator ==
    /\ \E op \in {"input_map", "output_map"} : Calls(op)
    /\ AtSeparator
    /\ ReadTo(KeyEnd, << >>) /\ UNCHANGED shape

(* Mutant: a pair without its value is waited for.                         *)
BadPairKeyOnly ==
    /\ \E op \in {"global", "input_map", "output_map"} : Calls(op)
    /\ ~HasKey
    /\ Return("invalid")

BadPair ==
    /\ \E op \in {"global", "input_map", "output_map"} : Calls(op)
    /\ ~AtPair /\ ~AtSeparator
    /\ Return("invalid")

-----------------------------------------------------------------------------
(* decode_simple, decode_full and decode_pof.                              *)

Walk(calls) ==
    /\ pc' = "walk" /\ work' = calls
    /\ UNCHANGED <<payload, decoded, position, end, shape, result>>

Start ==
    /\ pc = "start"
    /\ IF payload.format # "pof" /\ Len(bytes) > MaxEncodingSize THEN Return("invalid")
       ELSE CASE payload.format = "smp" -> Walk(Do("witness"))
              [] payload.format = "ful" -> Walk(Do("transaction"))
              [] payload.format = "pof" -> Walk(Do("magic") \o Do("global"))

GoOn == pc' = "decode" /\ UNCHANGED <<payload, decoded, position, end, work, shape, result>>

(* Mutant: the outputs are looked at before the inputs.                    *)
FinishWalkOutputsFirst ==
    /\ pc = "walk" /\ work = << >>
    /\ IF payload.format # "pof" THEN GoOn
       ELSE IF shape.outputs # 1 THEN Return("invalid")
       ELSE IF shape.inputs > MaxProofInputs THEN Return("inconclusive")
       ELSE GoOn

(* The walk found nothing wrong: is the proof to be decoded?               *)
FinishWalk ==
    /\ pc = "walk" /\ work = << >>
    /\ IF payload.format = "pof" /\ shape.inputs > MaxProofInputs THEN Return("inconclusive")
       ELSE IF payload.format = "pof" /\ shape.outputs # 1 THEN Return("invalid")
       ELSE GoOn

(* The decoder succeeds, and reads all of the bytes.                       *)
IsExact == decoded.ok /\ decoded.at = Len(bytes)

(* Mutant: what follows the proof is let through.                          *)
DecodeTrailing ==
    /\ pc = "decode"
    /\ Return(IF decoded.ok THEN "decoded" ELSE "invalid")

(* decode_exact.                                                           *)
DecodeExact ==
    /\ pc = "decode"
    /\ Return(IF IsExact THEN "decoded" ELSE "invalid")

Init ==
    /\ payload \in Payloads /\ decoded = Decoded(payload)
    /\ pc = "start" /\ position = 0 /\ end = Len(bytes)
    /\ work = << >> /\ shape = NoShape /\ result = "pending"

Next ==
    \/ Start \/ FinishWalk \/ DecodeExact
    \/ SkipBytes \/ SkipSized \/ ReadWitness \/ ReadInput \/ ReadInputs
    \/ ReadOutput \/ ReadOutputs \/ ReadTransaction \/ ReadMarker \/ ReadSegwit
    \/ ReadUnsigned \/ ReadUnsignedOutputs
    \/ ReadMagic \/ GlobalPair \/ GlobalSeparator \/ InputPair \/ OutputPair
    \/ MapSeparator \/ BadPair \/ LeaveValue \/ LeaveUnsigned

Spec == Init /\ [][Next]_vars /\ WF_vars(Next)

-----------------------------------------------------------------------------

(* The cursor is within the bytes, so that no slice is out of range (take) *)
(* and no subtraction underflows (remaining).                              *)
TypeOK ==
    /\ payload \in Payload
    /\ pc \in {"start", "walk", "decode", "done"}
    /\ end \in 0 .. Len(bytes)
    /\ position \in 0 .. end
    /\ work \in Seq(Call)
    /\ shape \in [known : BOOLEAN, inputs : Nat, outputs : Nat]
    /\ result \in {"pending", "invalid", "inconclusive", "decoded"}

(* What the decoder is given, it allocates no more for than there is: "every*)
(* count and length is first checked against the bytes actually present".  *)
(* The two read the bytes on their own, so this needs them to agree on     *)
(* where the counts are.                                                   *)
AllocationBounded == pc = "decode" => decoded.largest <= Len(bytes)

(* What the limits alone make of the proof that the bytes encode when it is*)
(* verified as a value: check_to_sign, or verify_pof, which looks at the   *)
(* number of inputs before all else.  A final witness of more than         *)
(* MaxEncodingSize is of more weight than a block can hold; how long a     *)
(* previous transaction is, nothing there asks.                            *)
TypedOutcome ==
    IF payload.format # "pof"
       THEN IF Len(bytes) > MaxEncodingSize THEN "invalid" ELSE "decoded"
    ELSE IF decoded.inputs > MaxProofInputs THEN "inconclusive"
    ELSE IF decoded.outputs # 1 \/ decoded.longest_witness > MaxEncodingSize THEN "invalid"
    ELSE "decoded"

(* "An encoded proof gets the same verdict as the typed one", also "when   *)
(* the proof is also malformed": bytes that are all of a proof are decoded *)
(* unless the limits give the verdict, and then it is the one that         *)
(* verify_pof gives.  Violated: the walk comes to a previous transaction or*)
(* a final witness that is too long before the inputs are counted.         *)
EncodedMeetsTyped == pc = "done" /\ IsExact => result = TypedOutcome

(* Found invalid by the walk, for the length of a value: of a previous     *)
(* transaction, or of a final witness with too many inputs besides.        *)
InvalidForLength ==
    /\ result = "invalid"
    /\ \/ decoded.longest_previous > MaxEncodingSize
       \/ decoded.longest_witness > MaxEncodingSize /\ decoded.inputs > MaxProofInputs

(* That is all the two verdicts differ in, and nothing but a proof is      *)
(* passed to the verifier: the walk, which reads the bytes on its own,     *)
(* accepts every encoding that rust-bitcoin decodes, with the same counts  *)
(* (psbt, "reporting the same shape"), and decode_pof and verify_pof apply *)
(* the limits on them in one order.                                        *)
DiffersOnlyInLength ==
    pc = "done" =>
        /\ IsExact => result = TypedOutcome \/ InvalidForLength
        /\ ~IsExact => result # "decoded"

(* The walk over any bytes ends: it is never left waiting for a call, and  *)
(* every turn of a loop over a map reads at least one byte (pair).         *)
Terminates == <>(pc = "done")
=============================================================================
