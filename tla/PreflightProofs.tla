-------------------------- MODULE PreflightProofs --------------------------
(***************************************************************************)
(* The cursor of module Preflight stays within the bytes, for every payload*)
(* and every width: no slice is out of range, no subtraction underflows.   *)
(***************************************************************************)
EXTENDS Preflight, TLAPS

(* What take and count let through lies in front of the end.               *)
LEMMA TakeIsInside ==
    ASSUME NEW p \in Nat, NEW length, end \in Nat, p <= end, CanTake(p, length)
    PROVE  length \in Nat /\ p + length \in p .. end
BY DEF CanTake

(* A CompactSize that is there ends in front of the end, too.              *)
LEMMA SizeIsInside ==
    ASSUME NEW p \in Nat, end \in Nat, end <= Len(bytes), bytes \in Seq(Byte),
           HasCompactSize(p)
    PROVE  After(p) \in Nat /\ p < After(p) /\ After(p) <= end
<1>1. p + 1 \in 1 .. Len(bytes)
    BY DEF HasCompactSize
<1>2. ByteAt(p) \in 0 .. Base - 1 /\ Base \in Nat /\ Base > 4
    BY <1>1, SizeAssumption DEF ByteAt, Byte
<1>3. Width(p) \in Nat
    <2>1. CASE ByteAt(p) < FirstPrefix
        BY <2>1 DEF Width
    <2>2. CASE ~(ByteAt(p) < FirstPrefix)
        <3>1. ByteAt(p) - FirstPrefix + 1 \in 1 .. 3
            BY <1>2, <2>2 DEF FirstPrefix
        <3>2. Widths[ByteAt(p) - FirstPrefix + 1] \in Nat
            BY <3>1, SizeAssumption
        <3> QED BY <2>2, <3>2 DEF Width
    <2> QED BY <2>1, <2>2
<1>4. After(p) <= end
    BY DEF HasCompactSize
<1> QED BY <1>3, <1>4 DEF After

LEMMA CountIsInside ==
    ASSUME NEW size, position \in Nat, end \in Nat, end <= Len(bytes),
           bytes \in Seq(Byte), CanCount(size)
    PROVE  CompactSize(position) \in Nat /\ After(position) \in 0 .. end
<1>1. After(position) \in Nat /\ After(position) <= end
    BY SizeIsInside DEF CanCount
<1> QED BY <1>1 DEF CanCount

-----------------------------------------------------------------------------
(* The calls to be made.                                                   *)

LEMMA TimesType ==
    ASSUME NEW op \in Ops, NEW n \in Nat
    PROVE  Times(op, n) \in Seq(Call)
<1>1. [op |-> op, n |-> n, size |-> 0] \in Call
    BY DEF Call
<1> QED BY <1>1 DEF Times

LEMMA DoType == ASSUME NEW op \in Ops PROVE Do(op) \in Seq(Call)
BY TimesType DEF Do

LEMMA SkipType == ASSUME NEW size \in Nat PROVE Skip(size) \in Seq(Call)
BY DEF Skip, Call, Ops

LEMMA Joined ==
    ASSUME NEW s \in Seq(Call), NEW t \in Seq(Call)
    PROVE  s \o t \in Seq(Call)
OBVIOUS

LEMMA RestType ==
    ASSUME work \in Seq(Call), work # << >>
    PROVE  Rest \in Seq(Call)
<1>1. Head(work) \in Call /\ Tail(work) \in Seq(Call)
    OBVIOUS
<1>2. CASE Head(work).n > 1
    <2>1. [Head(work) EXCEPT !.n = @ - 1] \in Call
        BY <1>1, <1>2 DEF Call
    <2>2. <<[Head(work) EXCEPT !.n = @ - 1]>> \in Seq(Call)
        BY <2>1
    <2> QED BY <1>1, <1>2, <2>2, Joined DEF Rest
<1>3. CASE ~(Head(work).n > 1)
    BY <1>1, <1>3 DEF Rest
<1> QED BY <1>2, <1>3

(* A call that reads on within the bytes and makes calls keeps the types,  *)
(* and so does one that ends the walk.                                     *)
LEMMA ReadToKeeps ==
    ASSUME TypeOK, work # << >>, NEW p \in 0 .. end, NEW calls \in Seq(Call),
           ReadTo(p, calls), shape' \in [known : BOOLEAN, inputs : Nat, outputs : Nat]
    PROVE  TypeOK'
<1>1. work' \in Seq(Call)
    BY RestType, Joined DEF ReadTo, TypeOK
<1>2. position' \in 0 .. end' /\ end' = end /\ bytes' = bytes
    BY DEF ReadTo, bytes
<1> QED BY <1>1, <1>2 DEF TypeOK, ReadTo

LEMMA ReturnKeeps ==
    ASSUME TypeOK, NEW verdict \in {"invalid", "inconclusive", "decoded"}, Return(verdict)
    PROVE  TypeOK'
BY DEF TypeOK, Return, bytes

LEMMA CheckKeeps ==
    ASSUME TypeOK, work # << >>, NEW condition, NEW p, NEW calls,
           condition => p \in 0 .. end /\ calls \in Seq(Call),
           Check(condition, p, calls)
    PROVE  TypeOK'
<1>1. CASE condition
    BY <1>1, ReadToKeeps DEF Check, TypeOK
<1>2. CASE ~condition
    BY <1>2, ReturnKeeps DEF Check
<1> QED BY <1>1, <1>2

-----------------------------------------------------------------------------
(* The calls, one by one.                                                  *)

LEMMA CursorKeeps ==
    ASSUME TypeOK, SkipBytes \/ SkipSized \/ ReadWitness \/ ReadMarker \/ ReadOutputs
                       \/ ReadInputs \/ ReadSegwit
    PROVE  TypeOK'
<1>0. /\ position \in Nat /\ end \in Nat /\ position <= end /\ end <= Len(bytes)
      /\ bytes \in Seq(Byte) /\ << >> \in Seq(Call)
    BY DEF TypeOK, Payload, bytes
<1>1. CASE SkipBytes
    <2>1. CanTake(position, Head(work).size) => position + Head(work).size \in 0 .. end
        BY <1>0, TakeIsInside
    <2> QED BY <1>0, <1>1, <2>1, CheckKeeps DEF SkipBytes, Calls
<1>2. CASE SkipSized
    <2>1. HasCompactSize(position) =>
              /\ After(position) \in Nat /\ After(position) <= end
              /\ CanTake(After(position), CompactSize(position)) =>
                     After(position) + CompactSize(position) \in 0 .. end
        BY <1>0, SizeIsInside, TakeIsInside
    <2> QED BY <1>0, <1>2, <2>1, CheckKeeps DEF SkipSized, Calls
<1>3. ASSUME NEW size, CanCount(size)
      PROVE  CompactSize(position) \in Nat /\ After(position) \in 0 .. end
    BY <1>0, <1>3, CountIsInside
<1>4. CASE ReadWitness
    <2>1. CanCount(1) => Times("sized", CompactSize(position)) \in Seq(Call)
        BY <1>3, TimesType DEF Ops
    <2> QED BY <1>3, <1>4, <2>1, CheckKeeps DEF ReadWitness, Calls
<1>5. CASE ReadMarker
    <2>1. position < end => position + 1 \in 0 .. end
        BY <1>0
    <2> QED BY <1>0, <1>5, <2>1, CheckKeeps DEF ReadMarker, Calls
<1>6. CASE ReadOutputs
    <2>1. CanCount(MinOutput) => Times("output", CompactSize(position)) \in Seq(Call)
        BY <1>3, TimesType DEF Ops
    <2> QED BY <1>3, <1>6, <2>1, CheckKeeps DEF ReadOutputs, Calls
<1>7. Do("outputs") \in Seq(Call) /\ Do("marker") \in Seq(Call) /\ Do("segwit") \in Seq(Call)
      /\ Skip(LockTimeSize) \in Seq(Call)
    BY DoType, SkipType, SizeAssumption DEF Ops
<1>8. CanCount(MinInput) => /\ Times("input", CompactSize(position)) \in Seq(Call)
                            /\ Times("witness", CompactSize(position)) \in Seq(Call)
    BY <1>3, TimesType DEF Ops
<1>9. CASE ReadInputs
    <2> DEFINE calls == IF CompactSize(position) = 0 THEN Do("marker") \o Do("segwit")
                        ELSE Times("input", CompactSize(position)) \o Do("outputs")
                                 \o Skip(LockTimeSize)
    <2>1. CanCount(MinInput) => calls \in Seq(Call)
        BY <1>7, <1>8, Joined
    <2>2. Check(CanCount(MinInput), After(position), calls) /\ work # << >>
        BY <1>9 DEF ReadInputs, Calls
    <2> HIDE DEF calls
    <2> QED BY <1>3, <2>1, <2>2, CheckKeeps
<1>10. CASE ReadSegwit
    <2> DEFINE calls == Times("input", CompactSize(position)) \o Do("outputs")
                            \o Times("witness", CompactSize(position)) \o Skip(LockTimeSize)
    <2>1. CanCount(MinInput) => calls \in Seq(Call)
        BY <1>7, <1>8, Joined
    <2>2. Check(CanCount(MinInput), After(position), calls) /\ work # << >>
        BY <1>10 DEF ReadSegwit, Calls
    <2> HIDE DEF calls
    <2> QED BY <1>3, <2>1, <2>2, CheckKeeps
<1> QED BY <1>1, <1>2, <1>4, <1>5, <1>6, <1>9, <1>10

LEMMA ExpansionKeeps ==
    ASSUME TypeOK, ReadInput \/ ReadOutput \/ ReadTransaction
    PROVE  TypeOK'
<1>1. position \in 0 .. end /\ shape \in [known : BOOLEAN, inputs : Nat, outputs : Nat]
    BY DEF TypeOK
<1>2. Do("sized") \in Seq(Call) /\ Do("inputs") \in Seq(Call)
    BY DoType DEF Ops
<1>3. /\ Skip(OutpointSize) \in Seq(Call) /\ Skip(SequenceSize) \in Seq(Call)
      /\ Skip(ValueSize) \in Seq(Call) /\ Skip(VersionSize) \in Seq(Call)
    BY SkipType, SizeAssumption
<1>4. CASE ReadInput
    <2>1. Skip(OutpointSize) \o Do("sized") \o Skip(SequenceSize) \in Seq(Call)
        BY <1>2, <1>3, Joined
    <2> QED BY <1>1, <1>4, <2>1, ReadToKeeps DEF ReadInput, Calls
<1>5. CASE ReadOutput
    <2>1. Skip(ValueSize) \o Do("sized") \in Seq(Call)
        BY <1>2, <1>3, Joined
    <2> QED BY <1>1, <1>5, <2>1, ReadToKeeps DEF ReadOutput, Calls
<1>6. CASE ReadTransaction
    <2>1. Skip(VersionSize) \o Do("inputs") \in Seq(Call)
        BY <1>2, <1>3, Joined
    <2> QED BY <1>1, <1>6, <2>1, ReadToKeeps DEF ReadTransaction, Calls
<1> QED BY <1>4, <1>5, <1>6

LEMMA UnsignedKeeps ==
    ASSUME TypeOK, ReadUnsigned \/ ReadUnsignedOutputs
    PROVE  TypeOK'
<1>0. /\ position \in Nat /\ end \in Nat /\ end <= Len(bytes) /\ bytes \in Seq(Byte)
      /\ shape \in [known : BOOLEAN, inputs : Nat, outputs : Nat]
    BY DEF TypeOK, Payload, bytes
<1>1. ASSUME NEW size, CanCount(size)
      PROVE  CompactSize(position) \in Nat /\ After(position) \in 0 .. end
    BY <1>0, <1>1, CountIsInside
<1>2. CASE ReadUnsigned
    <2>1. CASE CanCount(MinInput)
        <3>1. Times("input", CompactSize(position)) \o Do("unsigned_outputs") \in Seq(Call)
            BY <1>1, <2>1, TimesType, DoType, Joined DEF Ops
        <3>2. shape' \in [known : BOOLEAN, inputs : Nat, outputs : Nat]
            BY <1>0, <1>1, <1>2, <2>1 DEF ReadUnsigned
        <3> QED BY <1>1, <1>2, <2>1, <3>1, <3>2, ReadToKeeps DEF ReadUnsigned, Calls
    <2>2. CASE ~CanCount(MinInput)
        BY <1>2, <2>2, ReturnKeeps DEF ReadUnsigned
    <2> QED BY <2>1, <2>2
<1>3. CASE ReadUnsignedOutputs
    <2>1. CASE CanCount(MinOutput)
        <3>1. Times("output", CompactSize(position)) \o Skip(LockTimeSize) \in Seq(Call)
            BY <1>1, <2>1, TimesType, SkipType, Joined, SizeAssumption DEF Ops
        <3>2. shape' \in [known : BOOLEAN, inputs : Nat, outputs : Nat]
            BY <1>0, <1>1, <1>3, <2>1 DEF ReadUnsignedOutputs
        <3> QED BY <1>1, <1>3, <2>1, <3>1, <3>2, ReadToKeeps DEF ReadUnsignedOutputs, Calls
    <2>2. CASE ~CanCount(MinOutput)
        BY <1>3, <2>2, ReturnKeeps DEF ReadUnsignedOutputs
    <2> QED BY <2>1, <2>2
<1> QED BY <1>2, <1>3

-----------------------------------------------------------------------------
(* The maps.                                                               *)

LEMMA PairIsInside ==
    ASSUME TypeOK, AtPair
    PROVE  /\ ValueStart \in 0 .. ValueEnd /\ ValueEnd \in 0 .. end
<1>0. /\ position \in Nat /\ end \in Nat /\ end <= Len(bytes) /\ bytes \in Seq(Byte)
    BY DEF TypeOK, Payload, bytes
<1>1. KeyStart \in Nat /\ KeyStart <= end
    BY <1>0, SizeIsInside DEF AtPair, HasKey, KeyStart
<1>2. KeyEnd \in Nat /\ KeyEnd <= end
    BY <1>0, <1>1, TakeIsInside DEF AtPair, HasKey, KeyEnd
<1>3. ValueStart \in Nat /\ ValueStart <= end
    BY <1>0, <1>2, SizeIsInside DEF AtPair, HasValue, ValueStart
<1> QED BY <1>0, <1>3, TakeIsInside DEF AtPair, HasValue, ValueEnd

LEMMA KeyIsInside ==
    ASSUME TypeOK, AtSeparator
    PROVE  KeyEnd \in 0 .. end
<1>0. /\ position \in Nat /\ end \in Nat /\ end <= Len(bytes) /\ bytes \in Seq(Byte)
    BY DEF TypeOK, Payload, bytes
<1>1. KeyStart \in Nat /\ KeyStart <= end
    BY <1>0, SizeIsInside DEF AtSeparator, HasKey, KeyStart
<1> QED BY <1>0, <1>1, TakeIsInside DEF AtSeparator, HasKey, KeyEnd

LEMMA ValueKeeps ==
    ASSUME TypeOK, AtPair, NEW calls \in Seq(Call), SkipPair \/ EnterValue(calls)
    PROVE  TypeOK'
<1>1. ValueStart \in 0 .. ValueEnd /\ ValueEnd \in 0 .. end /\ end \in 0 .. Len(bytes)
    BY PairIsInside DEF TypeOK
<1>2. CASE SkipPair
    BY <1>1, <1>2 DEF SkipPair, TypeOK, bytes
<1>3. CASE EnterValue(calls)
    <2>1. work' \in Seq(Call)
        BY <1>3, Joined DEF EnterValue, TypeOK
    <2>2. position' \in 0 .. end' /\ end' \in 0 .. Len(bytes') /\ bytes' = bytes
        BY <1>1, <1>3, Len(bytes) \in Nat DEF EnterValue, bytes, TypeOK, Payload
    <2> QED BY <1>3, <2>1, <2>2 DEF EnterValue, TypeOK
<1> QED BY <1>2, <1>3

LEMMA MapsKeep ==
    ASSUME TypeOK, \/ GlobalPair \/ GlobalSeparator \/ InputPair \/ OutputPair
                   \/ MapSeparator \/ BadPair
    PROVE  TypeOK'
<1>1. CASE GlobalPair
    <2>1. Skip(VersionSize) \o Do("unsigned") \o Do("return_exact") \in Seq(Call)
        BY SkipType, DoType, Joined, SizeAssumption DEF Ops
    <2> QED BY <1>1, <2>1, ValueKeeps, ReturnKeeps DEF GlobalPair
<1>2. CASE GlobalSeparator
    <2>1. shape.inputs \in Nat /\ shape.outputs \in Nat
        BY DEF TypeOK
    <2>2. Times("input_map", shape.inputs) \o Times("output_map", shape.outputs) \in Seq(Call)
        BY <2>1, TimesType, Joined DEF Ops
    <2> QED BY <1>2, <2>2, KeyIsInside, CheckKeeps DEF GlobalSeparator, Calls
<1>3. CASE InputPair
    <2>1. /\ Do("transaction") \o Do("return") \in Seq(Call)
          /\ Do("witness") \o Do("return") \in Seq(Call)
        BY DoType, Joined DEF Ops
    <2> QED BY <1>3, <2>1, ValueKeeps, ReturnKeeps DEF InputPair
<1>4. CASE OutputPair
    BY <1>4, ValueKeeps, << >> \in Seq(Call) DEF OutputPair
<1>5. CASE MapSeparator
    <2>1. shape' \in [known : BOOLEAN, inputs : Nat, outputs : Nat]
        BY <1>5 DEF MapSeparator, TypeOK
    <2> QED BY <1>5, <2>1, KeyIsInside, ReadToKeeps, << >> \in Seq(Call)
            DEF MapSeparator, Calls
<1>6. CASE BadPair
    BY <1>6, ReturnKeeps DEF BadPair
<1> QED BY <1>1, <1>2, <1>3, <1>4, <1>5, <1>6

LEMMA LeavingKeeps ==
    ASSUME TypeOK, LeaveValue \/ LeaveUnsigned
    PROVE  TypeOK'
<1>1. end \in 0 .. Len(bytes) /\ Len(bytes) \in Nat
    BY DEF TypeOK, Payload, bytes
<1>2. CASE position' = end /\ end' = Len(bytes) /\ work' = Rest /\ work # << >>
           /\ UNCHANGED <<payload, decoded, pc, shape, result>>
    <2>1. work' \in Seq(Call)
        BY <1>2, RestType DEF TypeOK
    <2> QED BY <1>1, <1>2, <2>1 DEF TypeOK, bytes
<1>3. CASE Return("invalid")
    BY <1>3, ReturnKeeps
<1> QED BY <1>2, <1>3 DEF LeaveValue, LeaveUnsigned, Calls

-----------------------------------------------------------------------------

LEMMA EntryKeeps ==
    ASSUME TypeOK, Start \/ ReadMagic \/ FinishWalk \/ DecodeExact
    PROVE  TypeOK'
<1>1. CASE Start
    <2>1. ASSUME NEW calls \in Seq(Call), Walk(calls) PROVE TypeOK'
        BY <2>1 DEF Walk, TypeOK, bytes
    <2>2. /\ Do("witness") \in Seq(Call) /\ Do("transaction") \in Seq(Call)
          /\ Do("magic") \o Do("global") \in Seq(Call)
        BY DoType, Joined DEF Ops
    <2>3. payload.format \in {"smp", "ful", "pof"}
        BY DEF TypeOK, Payload
    <2> QED BY <1>1, <2>1, <2>2, <2>3, ReturnKeeps DEF Start
<1>2. CASE ReadMagic
    <2>1. CanTake(0, Len(Magic)) => Len(Magic) \in 0 .. end
        BY DEF CanTake, TypeOK
    <2> QED BY <1>2, <2>1, CheckKeeps, << >> \in Seq(Call) DEF ReadMagic, Calls
<1>3. CASE FinishWalk
    <2>1. GoOn => TypeOK'
        BY DEF GoOn, TypeOK, bytes
    <2> QED BY <1>3, <2>1, ReturnKeeps DEF FinishWalk
<1>4. CASE DecodeExact
    BY <1>4, ReturnKeeps DEF DecodeExact
<1> QED BY <1>1, <1>2, <1>3, <1>4

(* The walk of preflight.rs stays within the bytes it is given, whatever   *)
(* these are: what take returns is a part of them, and neither remaining   *)
(* nor the count that is compared with it leaves the natural numbers.      *)
THEOREM CursorInBounds == Spec => []TypeOK
<1>1. Init => TypeOK
    <2> SUFFICES ASSUME Init PROVE TypeOK
        OBVIOUS
    <2>1. payload \in Payload /\ Len(bytes) \in Nat
        BY PayloadAssumption DEF Init, Payload, bytes
    <2> QED BY <2>1 DEF Init, TypeOK, NoShape
<1>2. TypeOK /\ [Next]_vars => TypeOK'
    <2> SUFFICES ASSUME TypeOK, [Next]_vars PROVE TypeOK'
        OBVIOUS
    <2>1. CASE Next
        BY <2>1, CursorKeeps, ExpansionKeeps, UnsignedKeeps, MapsKeep, LeavingKeeps,
           EntryKeeps DEF Next
    <2>2. CASE UNCHANGED vars
        BY <2>2 DEF vars, TypeOK, bytes
    <2> QED BY <2>1, <2>2
<1> QED BY <1>1, <1>2, PTL DEF Spec
=============================================================================
