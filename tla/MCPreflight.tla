---------------------------- MODULE MCPreflight ----------------------------
(***************************************************************************)
(* Payloads over the eight bytes 0 .. 7, of which 5, 6 and 7 introduce a   *)
(* CompactSize of one, two or three bytes more.  Short witnesses: all of   *)
(* them.  Encodings of every kind: truncated at every place, with every    *)
(* byte replaced, and with a byte behind; one PSBT with any two replaced.  *)
(***************************************************************************)
EXTENDS Preflight

MCWidths == <<1, 2, 3>>
MCMagic == <<7>>

Zeros(length) == [j \in 1 .. length |-> 0]
Copies(s, n) == [j \in 1 .. n |-> s]

Prefixed(s) == EncodedSize(Len(s)) \o s
List(encodings) == EncodedSize(Len(encodings)) \o FlattenSeq(encodings)

WitnessOf(lengths) == List([j \in DOMAIN lengths |-> Prefixed(Zeros(lengths[j]))])
TxInOf(length) == <<2, 2>> \o Prefixed(Zeros(length)) \o <<3>>
TxOutOf(length) == <<4>> \o Prefixed(Zeros(length))
TxOf(ins, outs) == <<2>> \o List(ins) \o List(outs) \o <<1>>
SegwitTxOf(ins, outs, witnesses) ==
    <<2, 0, 1>> \o List(ins) \o List(outs) \o FlattenSeq(witnesses) \o <<1>>

PairOf(key, value) == Prefixed(key) \o Prefixed(value)
MapOf(pairs) == FlattenSeq(pairs) \o <<0>>
PsbtOf(global, inputs, outputs) ==
    MCMagic \o MapOf(global) \o FlattenSeq([j \in DOMAIN inputs |-> MapOf(inputs[j])])
            \o FlattenSeq([j \in DOMAIN outputs |-> MapOf(outputs[j])])
Unsigned(ins, outs) == PairOf(<<0>>, TxOf(Copies(TxInOf(0), ins), Copies(TxOutOf(1), outs)))

Legacy == TxOf(<<TxInOf(1)>>, <<TxOutOf(0)>>)
Segwit == SegwitTxOf(<<TxInOf(0), TxInOf(0)>>, <<TxOutOf(1)>>, <<WitnessOf(<<2>>), <<0>>>>)

LongTx == TxOf(Copies(TxInOf(0), 5), << >>)

Witnesses == { WitnessOf(<<1, 0, 5>>), WitnessOf(<<8>>), WitnessOf(<<20>>), WitnessOf(<<21>>),
               WitnessOf(Copies(0, 9)) }
Transactions ==
    { Legacy, Segwit, LongTx, TxOf(<<TxInOf(7)>>, Copies(TxOutOf(0), 5)),
      SegwitTxOf(<< >>, <<TxOutOf(0)>>, << >>) }

Psbts ==
    { PsbtOf(<<Unsigned(2, 1)>>,
             <<<<PairOf(<<3>>, WitnessOf(<<1, 2>>)), PairOf(<<1>>, <<6>>)>>,
               <<PairOf(<<0>>, Legacy)>>>>, <<<<PairOf(<<0>>, <<4>>)>>>>),
      PsbtOf(<<PairOf(<<2, 1>>, <<1>>), Unsigned(1, 1)>>, <<<<PairOf(<<0>>, Segwit)>>>>, << << >> >>),
      PsbtOf(<<Unsigned(3, 1)>>, Copies(<< >>, 3), << << >> >>),
      PsbtOf(<<Unsigned(1, 2)>>, << << >> >>, << << >>, << >> >>),
      PsbtOf(<<Unsigned(15, 1)>>, Copies(<< >>, 15), << << >> >>),
      PsbtOf(<<Unsigned(0, 1)>>, << >>, << << >> >>),
      PsbtOf(<<Unsigned(1, 1)>>, << <<PairOf(<<3>>, WitnessOf(<<21>>))>> >>, << << >> >>),
      PsbtOf(<<Unsigned(1, 1)>>, << <<PairOf(<<0>>, LongTx)>> >>, << << >> >>),
      PsbtOf(<<Unsigned(1, 1), PairOf(<<0>>, TxOf(<< >>, << >>))>>, << << >> >>, << << >> >>) }

(* Three inputs, one more than there may be, and another limit broken.     *)
ThreeInputs(pair) == PsbtOf(<<Unsigned(3, 1)>>, << << >>, << >>, <<pair>> >>, << << >> >>)
BeyondTwoLimits ==
    { ThreeInputs(PairOf(<<3>>, WitnessOf(<<21>>))), ThreeInputs(PairOf(<<0>>, LongTx)),
      PsbtOf(<<Unsigned(3, 2)>>, Copies(<< >>, 3), << << >>, << >> >>) }

Mutations(b) ==
    {b} \cup { SubSeq(b, 1, length) : length \in 0 .. Len(b) - 1 }
        \cup { [b EXCEPT ![j] = x] : j \in DOMAIN b, x \in Byte }
        \cup { Append(b, x) : x \in Byte }

(* The bytes that say most: an end, a one, and a wider size.               *)
Small == PsbtOf(<<Unsigned(1, 1)>>, << <<PairOf(<<3>>, WitnessOf(<<1>>))>> >>, << << >> >>)
Twice(b) ==
    { [b EXCEPT ![h] = x, ![j] = y] : h, j \in DOMAIN b, x, y \in {0, 1, 2, 6} }

Proof(format, b) == [format |-> format, bytes |-> b]

MCPayloads ==
    { Proof("smp", b) : b \in UNION { [1 .. length -> {0, 1, 2, 5, 6, 7}] : length \in 0 .. 4 } }
    \cup { Proof("smp", b) : b \in UNION { Mutations(w) : w \in Witnesses } }
    \cup { Proof("ful", b) : b \in UNION { Mutations(t) : t \in Transactions } }
    \cup { Proof("pof", b) : b \in UNION { Mutations(p) : p \in Psbts } }
    \cup { Proof("pof", b) : b \in Twice(Small) \cup BeyondTwoLimits }

MCLimits == { Proof("pof", b) : b \in BeyondTwoLimits }
=============================================================================
