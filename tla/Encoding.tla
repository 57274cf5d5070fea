------------------------------ MODULE Encoding ------------------------------
(***************************************************************************)
(* The consensus and PSBT encodings and their decoder, rust-bitcoin, which *)
(* is external: modelled from how src/verify/decode.rs calls it and from   *)
(* what src/verify/preflight.rs and its tests say about it.  What matters  *)
(* is where it reads, and how much it allocates for a count or a length    *)
(* before it has read what follows.  A script is read in pieces.           *)
(***************************************************************************)
EXTENDS Integers, Sequences, SequencesExt

CONSTANTS
    Base,                  \* there are this many bytes: 256
    Widths,                \* of a CompactSize behind each prefix: <<2, 4, 8>>
    VersionSize, OutpointSize, SequenceSize, ValueSize, LockTimeSize,
    Magic,                 \* what a PSBT starts with
    UnsignedTx, NonWitnessUtxo, FinalScriptwitness      \* key types

ASSUME SizeAssumption ==
    /\ Widths \in [1 .. 3 -> Nat \ {0}]
    /\ Base \in Nat /\ Base > 4
    /\ VersionSize \in Nat /\ OutpointSize \in Nat /\ SequenceSize \in Nat
    /\ ValueSize \in Nat /\ LockTimeSize \in Nat
    /\ Magic \in Seq(0 .. Base - 1)

Byte == 0 .. Base - 1
FirstPrefix == Base - 3         \* 0xfd

(* A number and its only encoding, the shortest one.                       *)
Digits(v, width) == [j \in 1 .. width |-> (v \div Base ^ (j - 1)) % Base]
EncodedSize(v) ==
    IF v < FirstPrefix THEN <<v>>
    ELSE LET form == CHOOSE j \in 1 .. 3 :
                         /\ v < Base ^ Widths[j]
                         /\ \A h \in 1 .. j - 1 : v >= Base ^ Widths[h]
         IN  <<FirstPrefix + form - 1>> \o Digits(v, Widths[form])

LittleEndian(digits) == FoldRight(LAMBDA byte, value : value * Base + byte, digits, 0)

-----------------------------------------------------------------------------
(* A reader of the bytes b: whether all went well, where it is, the last   *)
(* size it read and the largest that it allocated for.  Of a transaction,  *)
(* whether an input had a witness; of a PSBT, the keys of the map, whether *)
(* it goes on, the counts, and the longest previous transaction and final  *)
(* witness that were decoded.                                              *)

Reader == [ok |-> TRUE, at |-> 0, size |-> 0, largest |-> 0, witness |-> FALSE,
           keys |-> {}, open |-> TRUE, inputs |-> -1, outputs |-> -1,
           longest_previous |-> 0, longest_witness |-> 0]

Fail(r) == [r EXCEPT !.ok = FALSE]
Expect(r, condition) == IF condition THEN r ELSE Fail(r)
Allocate(r) == [r EXCEPT !.largest = IF @ < r.size THEN r.size ELSE @]

Fixed(b, r, length) ==
    IF ~r.ok \/ r.at + length > Len(b) THEN Fail(r) ELSE [r EXCEPT !.at = @ + length]

Size(b, r) ==
    IF ~r.ok \/ r.at = Len(b) THEN Fail(r)
    ELSE LET first == b[r.at + 1]
             width == IF first < FirstPrefix THEN 0 ELSE Widths[first - FirstPrefix + 1]
             digits == SubSeq(b, r.at + 2, r.at + 1 + width)
             v == IF width = 0 THEN first ELSE LittleEndian(digits)
         IN  IF r.at + 1 + width > Len(b) \/ EncodedSize(v) # <<first>> \o digits THEN Fail(r)
             ELSE [r EXCEPT !.at = @ + 1 + width, !.size = v]

Sized(b, r) == LET s == Size(b, r) IN Fixed(b, s, s.size)

(* An item takes a byte at least, so that this many are enough to fail.    *)
Many(b, Item(_), r) ==
    LET Again(s, j) == IF s.ok THEN Item(s) ELSE s
        most == Len(b) - r.at + 1
    IN  FoldLeft(Again, r, [j \in 1 .. (IF r.size < most THEN r.size ELSE most) |-> j])

(* The items of a vector, or of a witness, which are allocated for first.  *)
Vector(b, Item(_), r) ==
    LET s == Size(b, r) IN IF s.ok THEN Many(b, Item, Allocate(s)) ELSE s

WitnessItem(b, r) == LET s == Size(b, r) IN Fixed(b, Allocate(s), s.size)
Witness(b, r) ==
    LET s == Size(b, r)
        Item(t) == WitnessItem(b, t)
    IN  IF ~s.ok THEN s
        ELSE Many(b, Item, Allocate([s EXCEPT !.witness = @ \/ s.size > 0]))

Input(b, r) == Fixed(b, Sized(b, Fixed(b, r, OutpointSize)), SequenceSize)
Output(b, r) == Sized(b, Fixed(b, r, ValueSize))

(* An unsigned transaction has no scriptSig.                               *)
UnsignedInput(b, r) ==
    LET s == Size(b, Fixed(b, r, OutpointSize))
    IN  Fixed(b, Expect(s, s.size = 0), SequenceSize)

Inputs(b, r) == LET Item(s) == Input(b, s) IN Vector(b, Item, r)
Outputs(b, r) == LET Item(s) == Output(b, s) IN Vector(b, Item, r)

(* Without a witness the transaction has another form.                     *)
LockTime(b, r, number) == Fixed(b, Expect(r, number > 0 => r.witness), LockTimeSize)
FlaggedTransaction(b, flag) ==
    LET number == Size(b, flag).size
        Item(s) == Witness(b, s)
        outputs == Outputs(b, Inputs(b, flag))
    IN  IF ~flag.ok \/ b[flag.at] # 1 THEN Fail(flag)
        ELSE LockTime(b, Many(b, Item, [outputs EXCEPT !.size = number]), number)

VersionedTransaction(b, r) ==
    IF Size(b, r).ok /\ Size(b, r).size = 0
       THEN FlaggedTransaction(b, Fixed(b, Size(b, r), 1))
    ELSE Fixed(b, Outputs(b, Inputs(b, r)), LockTimeSize)
Transaction(b, r) == VersionedTransaction(b, Fixed(b, r, VersionSize))

UnsignedTransaction(b, r) ==
    LET Item(s) == UnsignedInput(b, s)
        start == Fixed(b, r, VersionSize)
        inputs == Vector(b, Item, start)
        outputs == Outputs(b, inputs)
        finish == Fixed(b, outputs, LockTimeSize)
    IN  IF ~finish.ok THEN finish
        ELSE [finish EXCEPT !.inputs = Size(b, start).size, !.outputs = Size(b, inputs).size]

-----------------------------------------------------------------------------

(* A value that is decoded must be read to its end.                        *)
Nested(r, s, value) ==
    Expect([r EXCEPT !.largest = IF @ < s.largest THEN s.largest ELSE @],
           s.ok /\ s.at = Len(value))

(* A pair of a map, by what is done with a pair of this key and value, or  *)
(* the separator.  Keys are not given twice.  A pair is three bytes or more.*)
AddPair(r, key, Value(_, _, _), value) ==
    IF ~r.ok THEN r
    ELSE Value([Expect(r, key \notin r.keys) EXCEPT !.keys = @ \cup {key}], key, value)

PairValue(b, vallen, key, Value(_, _, _)) ==
    AddPair(Fixed(b, Allocate(vallen), vallen.size), key, Value,
            SubSeq(b, vallen.at + 1, vallen.at + vallen.size))

PairKey(b, keylen, Value(_, _, _)) ==
    LET keyend == Fixed(b, Allocate(keylen), keylen.size) IN
        IF ~keyend.ok THEN keyend
        ELSE IF keylen.size = 0 THEN [keyend EXCEPT !.open = FALSE]
        ELSE PairValue(b, Size(b, keyend), SubSeq(b, keylen.at + 1, keyend.at), Value)

Pair(b, Value(_, _, _), r) ==
    IF r.ok /\ r.open THEN PairKey(b, Size(b, r), Value) ELSE r

Closed(r) == Expect(r, ~r.open)
Map(b, Value(_, _, _), r) ==
    LET Item(s, j) == Pair(b, Value, s)
        most == (Len(b) - r.at) \div 3 + 1
    IN  IF ~r.ok THEN r
        ELSE Closed(FoldLeft(Item, [r EXCEPT !.keys = {}, !.open = TRUE],
                             [j \in 1 .. most |-> j]))

NestedUnsigned(r, tx, value) ==
    [Nested(r, tx, value) EXCEPT !.inputs = tx.inputs, !.outputs = tx.outputs]
GlobalValue(r, key, value) ==
    IF ~r.ok \/ key[1] # UnsignedTx THEN r
    ELSE IF Len(key) > 1 THEN Fail(r)
    ELSE NestedUnsigned(r, UnsignedTransaction(value, Reader), value)

LongerOf(length, value) == IF length < Len(value) THEN Len(value) ELSE length
InputValue(r, key, value) ==
    IF ~r.ok \/ key[1] \notin {NonWitnessUtxo, FinalScriptwitness} THEN r
    ELSE IF Len(key) > 1 THEN Fail(r)
    ELSE IF key[1] = NonWitnessUtxo
       THEN [Nested(r, Transaction(value, Reader), value)
             EXCEPT !.longest_previous = LongerOf(@, value)]
    ELSE [Nested(r, Witness(value, Reader), value) EXCEPT !.longest_witness = LongerOf(@, value)]

OutputValue(r, key, value) == r

(* The maps are allocated for once the unsigned transaction is known.      *)
PsbtMaps(b, global) ==
    LET InputMap(s) == Map(b, InputValue, s)
        OutputMap(s) == Map(b, OutputValue, s)
        inputs == Many(b, InputMap, Allocate([global EXCEPT !.size = global.inputs]))
    IN  IF ~global.ok \/ global.inputs < 0 THEN Fail(global)
        ELSE Many(b, OutputMap, Allocate([inputs EXCEPT !.size = global.outputs]))
Psbt(b, r) ==
    PsbtMaps(b, Map(b, GlobalValue,
                    Fixed(b, Expect(r, IsPrefix(Magic, b)), Len(Magic))))

(* What each format is decoded as.                                         *)
Decoded(payload) ==
    CASE payload.format = "smp" -> Witness(payload.bytes, Reader)
      [] payload.format = "ful" -> Transaction(payload.bytes, Reader)
      [] payload.format = "pof" -> Psbt(payload.bytes, Reader)
=============================================================================
