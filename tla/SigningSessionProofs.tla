------------------------ MODULE SigningSessionProofs ------------------------
(***************************************************************************)
(* Theorems about a session, for every set of keys, messages, transactions *)
(* and parties, and any number of alterations.  The first part is about the*)
(* copies and the proof: every signature in them was released by a signer  *)
(* or made over something else, and no role takes one out again.  The      *)
(* second is about the calls of the signer: what it releases commits to    *)
(* what the call displays and to the value it took for the input.  The     *)
(* third is that valid means consent: what the verifier accepts is owed to *)
(* signatures that the proof shows (AuthorisationProofs), and a released   *)
(* one is only good for what its signer was shown.                         *)
(***************************************************************************)
EXTENDS SigningSession, AuthorisationProofs

(* Items and stacks, final ones included.                                  *)
ItemOK(item, pool) ==
    /\ item.kind = "signature" => item.data \in pool
    /\ item.kind # "control"

StackOK(items, pool) ==
    \E S : items \in Seq(S) /\ \A item \in S : ItemOK(item, pool)

FinalOK(items, pool) == items = None \/ StackOK(items, pool)

MapOK(map, pool) ==
    /\ DOMAIN map = DOMAIN EmptyInput
    /\ map.tap_key_sig \in pool \cup {None}
    /\ map.partial_sigs \in [Key -> pool \cup {None}]
    /\ FinalOK(map.final_script_sig, pool)
    /\ FinalOK(map.final_script_witness, pool)

MapsOK(inputs, pool) ==
    \E S : inputs \in Seq(S) /\ \A map \in S : MapOK(map, pool)

(* A transaction with a sequence of inputs, and a PSBT with a map for each.*)
TxOK(tx) == "input" \in DOMAIN tx /\ \E S : tx.input \in Seq(S)

PsbtOK(psbt, pool) ==
    /\ {"inputs", "unsigned_tx"} \subseteq DOMAIN psbt
    /\ MapsOK(psbt.inputs, pool)
    /\ TxOK(psbt.unsigned_tx)
    /\ Len(psbt.unsigned_tx.input) = Len(psbt.inputs)

(* The signed transaction of a proof without proven inputs has one input.  *)
ToSignOK(to_sign, pool) ==
    /\ {"tx", "script_sig", "witness"} \subseteq DOMAIN to_sign
    /\ TxOK(to_sign.tx)
    /\ DOMAIN to_sign.script_sig = {1} /\ StackOK(to_sign.script_sig[1], pool)
    /\ DOMAIN to_sign.witness = {1} /\ StackOK(to_sign.witness[1], pool)

ProofOK(finished, pool) ==
    /\ "format" \in DOMAIN finished /\ finished.format \in {"pof", "ful"}
    /\ finished.format = "pof" =>
           "psbt" \in DOMAIN finished /\ PsbtOK(finished.psbt, pool)
    /\ finished.format = "ful" =>
           "to_sign" \in DOMAIN finished /\ ToSignOK(finished.to_sign, pool)

-----------------------------------------------------------------------------
(* Maps.                                                                   *)

LEMMA EmptyMapOK == ASSUME NEW pool PROVE MapOK(EmptyInput, pool)
BY DEF EmptyInput, MapOK, FinalOK

LEMMA MoreItems ==
    ASSUME NEW items, NEW pool, NEW more, StackOK(items, pool), pool \subseteq more
    PROVE  StackOK(items, more)
BY DEF StackOK, ItemOK

LEMMA MoreSignatures ==
    ASSUME NEW map, NEW pool, NEW more, MapOK(map, pool), pool \subseteq more
    PROVE  MapOK(map, more)
<1>1. map.partial_sigs \in [Key -> more \cup {None}]
    BY DEF MapOK
<1>2. FinalOK(map.final_script_sig, more) /\ FinalOK(map.final_script_witness, more)
    BY MoreItems DEF MapOK, FinalOK
<1> QED BY <1>1, <1>2 DEF MapOK

(* Every field but the two with signatures may be set to anything.         *)
LEMMA OtherFields ==
    ASSUME NEW map, NEW pool, MapOK(map, pool), NEW x
    PROVE  /\ MapOK([map EXCEPT !.witness_utxo = x], pool)
           /\ MapOK([map EXCEPT !.non_witness_utxo = x], pool)
           /\ MapOK([map EXCEPT !.sighash_type = x], pool)
           /\ MapOK([map EXCEPT !.redeem_script = x], pool)
           /\ MapOK([map EXCEPT !.witness_script = x], pool)
           /\ MapOK([map EXCEPT !.tap_internal_key = x], pool)
BY Fields DEF MapOK

LEMMA SignatureFields ==
    ASSUME NEW map, NEW pool, MapOK(map, pool), NEW sig \in pool \cup {None}, NEW key \in Key
    PROVE  /\ MapOK([map EXCEPT !.tap_key_sig = sig], pool)
           /\ MapOK([map EXCEPT !.partial_sigs[key] = sig], pool)
BY Fields DEF MapOK

LEMMA ScriptFields ==
    ASSUME NEW map, NEW pool, MapOK(map, pool), NEW script, NEW spk
    PROVE  MapOK(WithScript(map, script, spk), pool)
<1>1. ASSUME NEW s PROVE MapOK([map EXCEPT !.witness_script = script, !.redeem_script = s], pool)
    BY OtherFields
<1> QED BY <1>1, OtherFields DEF WithScript, SetInputScript

(* A sequence of maps, one of them replaced.                               *)
LEMMA MapOfInput ==
    ASSUME NEW inputs, NEW pool, MapsOK(inputs, pool), NEW n \in DOMAIN inputs
    PROVE  MapOK(inputs[n], pool)
BY DEF MapsOK

LEMMA ReplaceMap ==
    ASSUME NEW inputs, NEW pool, MapsOK(inputs, pool), NEW n \in DOMAIN inputs,
           NEW map, MapOK(map, pool)
    PROVE  MapsOK([inputs EXCEPT ![n] = map], pool)
<1>1. PICK S : inputs \in Seq(S) /\ \A m \in S : MapOK(m, pool)
    BY DEF MapsOK
<1> DEFINE T == S \cup {map}
<1>2. inputs \in Seq(T) /\ n \in 1 .. Len(inputs)
    BY <1>1, SeqMonotonic
<1>3. [inputs EXCEPT ![n] = map] \in Seq(T)
    BY <1>2, ExceptSeq
<1>4. \A m \in T : MapOK(m, pool)
    BY <1>1
<1> HIDE DEF T
<1> QED BY <1>3, <1>4 DEF MapsOK

LEMMA ReplaceInput ==
    ASSUME NEW psbt, NEW pool, PsbtOK(psbt, pool), NEW n \in DOMAIN psbt.inputs,
           NEW map, MapOK(map, pool)
    PROVE  PsbtOK([psbt EXCEPT !.inputs[n] = map], pool)
<1>1. [psbt EXCEPT !.inputs[n] = map].inputs = [psbt.inputs EXCEPT ![n] = map]
    BY DEF PsbtOK
<1>2. MapsOK([psbt.inputs EXCEPT ![n] = map], pool)
    BY ReplaceMap DEF PsbtOK
<1> QED BY <1>1, <1>2 DEF PsbtOK

LEMMA MoreForAll ==
    ASSUME NEW psbt, NEW pool, NEW more, PsbtOK(psbt, pool), pool \subseteq more
    PROVE  PsbtOK(psbt, more)
BY MoreSignatures DEF PsbtOK, MapsOK

-----------------------------------------------------------------------------
(* The roles.                                                              *)

LEMMA CreatedTxOK ==
    ASSUME NEW r \in Requests
    PROVE  LET psbt == CreateProofPsbt(r) IN
               TxOK(psbt.unsigned_tx) /\ Len(psbt.unsigned_tx.input) = Len(psbt.inputs)
<1> DEFINE psbt == CreateProofPsbt(r)
           tx == RequestTx(r)
           size == Len(r.inputs)
           TxInOf(n) == TxIn(r.inputs[n].outpoint.txid, r.inputs[n].outpoint.vout, 0)
           first == <<TxIn(ToSpend(r.challenge, r.message), 0, r.locks.sequence)>>
           challenge == <<ChallengeInputMap(r)>>
           others == [n \in 1 .. size |-> TxInOf(n)]
           maps == [n \in 1 .. size |-> ProofInputMap(r.inputs[n])]
           S == Range(first) \cup { TxInOf(n) : n \in 1 .. size }
           T == {ChallengeInputMap(r)} \cup { ProofInputMap(r.inputs[n]) : n \in 1 .. size }
<1>1. size \in Nat /\ DOMAIN r.inputs = 1 .. size
    <2>1. r.inputs \in Seq({ r.inputs[n] : n \in DOMAIN r.inputs })
        BY SessionAssumption DEF Sequential
    <2> QED BY <2>1, LenProperties
<1>2. /\ psbt.unsigned_tx = tx
      /\ psbt.inputs = challenge \o maps
    BY <1>1 DEF CreateProofPsbt, Psbt
<1>3. "input" \in DOMAIN tx /\ tx.input = first \o others
    BY <1>1 DEF RequestTx, ToSignTransaction
<1> HIDE DEF psbt, tx, size, TxInOf
<1>4. first \in Seq(S) /\ Len(first) = 1
    BY DEF Range
<1>5. others \in Seq(S) /\ Len(others) = size
    BY <1>1
<1>6. tx.input \in Seq(S) /\ Len(tx.input) = 1 + size
    <2> HIDE DEF S, first, others
    <2>1. first \o others \in Seq(S) /\ Len(first \o others) = Len(first) + Len(others)
        BY <1>4, <1>5, ConcatProperties
    <2> QED BY <1>1, <1>3, <1>4, <1>5, <2>1
<1>7. maps \in Seq(T) /\ Len(maps) = size
    BY <1>1
<1>8. challenge \in Seq(T) /\ Len(challenge) = 1
    OBVIOUS
<1>9. Len(psbt.inputs) = 1 + size
    <2> HIDE DEF T, maps, challenge
    <2>1. Len(challenge \o maps) = Len(challenge) + Len(maps)
        BY <1>7, <1>8, ConcatProperties
    <2> QED BY <1>1, <1>2, <1>7, <1>8, <2>1
<1> QED BY <1>2, <1>3, <1>6, <1>9 DEF TxOK, psbt

LEMMA CreatedOK ==
    ASSUME NEW r \in Requests, NEW pool
    PROVE  PsbtOK(CreateBip322Psbt(r), pool)
<1> DEFINE first == <<ChallengeInputMap(r)>>
           others == [n \in DOMAIN r.inputs |-> ProofInputMap(r.inputs[n])]
           proposed == CreateProofPsbt(r)
           Done(n) == WithScript(proposed.inputs[n], RequestedScript(r, n),
                                 RequestedPrevout(r, n).script_pubkey)
           S == {ChallengeInputMap(r)} \cup { ProofInputMap(r.inputs[n]) : n \in DOMAIN r.inputs }
<1>1. MapOK(ChallengeInputMap(r), pool)
    BY EmptyMapOK, OtherFields DEF ChallengeInputMap
<1>2. \A n \in DOMAIN r.inputs : MapOK(ProofInputMap(r.inputs[n]), pool)
    BY EmptyMapOK, OtherFields DEF ProofInputMap
<1>3. first \in Seq(S)
    OBVIOUS
<1>4. others \in Seq(S)
    <2>1. r.inputs \in Seq({ r.inputs[n] : n \in DOMAIN r.inputs })
        BY SessionAssumption DEF Sequential
    <2>2. DOMAIN r.inputs = 1 .. Len(r.inputs) /\ Len(r.inputs) \in Nat
        BY <2>1
    <2> QED BY <2>2
<1>5. first \o others \in Seq(S)
    BY <1>3, <1>4, ConcatProperties
<1>6. \A map \in S : MapOK(map, pool)
    BY <1>1, <1>2
<1>7. proposed.inputs = first \o others /\ "inputs" \in DOMAIN proposed
    BY DEF CreateProofPsbt, Psbt
<1> HIDE DEF S, first, others
<1>8. /\ proposed.inputs \in Seq(S)
      /\ DOMAIN proposed.inputs = 1 .. Len(proposed.inputs) /\ Len(proposed.inputs) \in Nat
    BY <1>5, <1>7
<1>9. \A n \in DOMAIN proposed.inputs : MapOK(Done(n), pool)
    BY <1>6, <1>8, ScriptFields
<1>10. CreateBip322Psbt(r) =
           [proposed EXCEPT !.inputs = [n \in DOMAIN proposed.inputs |-> Done(n)]]
    BY DEF CreateBip322Psbt
<1> HIDE DEF proposed, Done
<1> DEFINE T == { Done(n) : n \in DOMAIN proposed.inputs }
<1>11. [n \in DOMAIN proposed.inputs |-> Done(n)] \in Seq(T)
    BY <1>8
<1>12. \A map \in T : MapOK(map, pool)
    BY <1>9
<1> HIDE DEF T
<1>13. LET tx == proposed.unsigned_tx IN
           TxOK(tx) /\ Len(tx.input) = Len(proposed.inputs)
    BY CreatedTxOK DEF proposed
<1>14. /\ {"inputs", "unsigned_tx"} \subseteq DOMAIN CreateBip322Psbt(r)
       /\ CreateBip322Psbt(r).unsigned_tx = proposed.unsigned_tx
       /\ CreateBip322Psbt(r).inputs = [n \in DOMAIN proposed.inputs |-> Done(n)]
    <2>1. {"inputs", "unsigned_tx"} \subseteq DOMAIN proposed
        BY DEF CreateProofPsbt, Psbt, proposed
    <2> QED BY <1>10, <2>1
<1>15. Len([n \in DOMAIN proposed.inputs |-> Done(n)]) = Len(proposed.inputs)
    BY <1>8
<1> QED BY <1>11, <1>12, <1>13, <1>14, <1>15 DEF PsbtOK, MapsOK

LEMMA CombinedMapOK ==
    ASSUME NEW a, NEW b, NEW pool, MapOK(a, pool), MapOK(b, pool)
    PROVE  MapOK(CombineInput(a, b), pool)
<1>1. DOMAIN CombineInput(a, b) = DOMAIN EmptyInput
    BY Fields DEF CombineInput
<1>2. CombineInput(a, b).tap_key_sig \in pool \cup {None}
    BY DEF CombineInput, OrElse, MapOK
<1>3. [k \in Key |-> OrElse(b.partial_sigs[k], a.partial_sigs[k])]
          \in [Key -> pool \cup {None}]
    BY DEF OrElse, MapOK
<1>4. CombineInput(a, b).partial_sigs \in [Key -> pool \cup {None}]
    BY <1>3 DEF CombineInput
<1>5. /\ FinalOK(CombineInput(a, b).final_script_sig, pool)
      /\ FinalOK(CombineInput(a, b).final_script_witness, pool)
    BY DEF CombineInput, OrElse, MapOK, FinalOK
<1> QED BY <1>1, <1>2, <1>4, <1>5 DEF MapOK

LEMMA CombinedOK ==
    ASSUME NEW a, NEW b, NEW pool, PsbtOK(a, pool), PsbtOK(b, pool)
    PROVE  PsbtOK(Combine(a, b), pool)
<1> DEFINE Merged(n) == IF n \in DOMAIN b.inputs THEN CombineInput(a.inputs[n], b.inputs[n])
                        ELSE a.inputs[n]
           T == { Merged(n) : n \in DOMAIN a.inputs }
<1>1. /\ Combine(a, b).inputs = [n \in DOMAIN a.inputs |-> Merged(n)]
      /\ Combine(a, b).unsigned_tx = a.unsigned_tx
      /\ {"inputs", "unsigned_tx"} \subseteq DOMAIN Combine(a, b)
    BY DEF Combine, PsbtOK
<1>2. DOMAIN a.inputs = 1 .. Len(a.inputs) /\ Len(a.inputs) \in Nat
    BY DEF PsbtOK, MapsOK
<1>3. [n \in DOMAIN a.inputs |-> Merged(n)] \in Seq(T)
    BY <1>2
<1>4. \A n \in DOMAIN a.inputs : MapOK(Merged(n), pool)
    BY MapOfInput, CombinedMapOK DEF PsbtOK
<1>5. \A map \in T : MapOK(map, pool)
    BY <1>4
<1>6. Len([n \in DOMAIN a.inputs |-> Merged(n)]) = Len(a.inputs)
    BY <1>2
<1> HIDE DEF T, Merged
<1> QED BY <1>1, <1>3, <1>5, <1>6 DEF PsbtOK, MapsOK

LEMMA SignedOK ==
    ASSUME NEW psbt, NEW key \in Key, NEW n \in DOMAIN psbt.inputs, NEW pool,
           PsbtOK(psbt, pool), SignatureOf(psbt, key, n) \in pool
    PROVE  PsbtOK(SignBip322PsbtInput(psbt, key, n), pool)
<1> DEFINE map == psbt.inputs[n]  sig == SignatureOf(psbt, key, n)
<1>1. MapOK(map, pool)
    BY MapOfInput DEF PsbtOK
<1>2. MapOK([[map EXCEPT !.tap_internal_key = Point[key]] EXCEPT !.tap_key_sig = sig], pool)
    BY <1>1, OtherFields, SignatureFields
<1>3. MapOK([[map EXCEPT !.redeem_script = P2wpkh(key)] EXCEPT !.partial_sigs[key] = sig], pool)
    BY <1>1, OtherFields, SignatureFields
<1>4. MapOK([map EXCEPT !.partial_sigs[key] = sig], pool)
    BY <1>1, SignatureFields
<1> HIDE DEF sig
<1>5. MapOK(SignedInput(psbt, key, n), pool)
    BY <1>2, <1>3, <1>4 DEF SignedInput, sig
<1> QED BY <1>5, ReplaceInput DEF SignBip322PsbtInput

-----------------------------------------------------------------------------
(* Alterations.                                                            *)

LEMMA UtxoEditsOK ==
    ASSUME NEW map, NEW pool, MapOK(map, pool), NEW edited \in UtxoEdits(map)
    PROVE  MapOK(edited, pool)
<1>1. \/ \E x : edited = [map EXCEPT !.witness_utxo = x]
      \/ \E x : edited = [map EXCEPT !.non_witness_utxo = x]
    BY DEF UtxoEdits
<1> QED BY <1>1, Fields DEF MapOK

LEMMA SigningEditsOK ==
    ASSUME NEW map, MapOK(map, SignaturePool), NEW edited \in SigningEdits(map)
    PROVE  MapOK(edited, SignaturePool)
<1>1. \/ \E x : edited = [map EXCEPT !.redeem_script = x]
      \/ \E x : edited = [map EXCEPT !.witness_script = x]
      \/ \E x : edited = [map EXCEPT !.sighash_type = x]
      \/ \E k \in Key, x \in SignaturePool \cup {None} :
             edited = [map EXCEPT !.partial_sigs[k] = x]
      \/ \E x \in SignaturePool \cup {None} : edited = [map EXCEPT !.tap_key_sig = x]
    <2> HIDE DEF SignaturePool
    <2> QED BY DEF SigningEdits
<1>2. ASSUME NEW k \in Key, NEW x \in SignaturePool \cup {None},
             edited = [map EXCEPT !.partial_sigs[k] = x]
      PROVE  MapOK(edited, SignaturePool)
    BY <1>2, Fields DEF MapOK
<1>3. ASSUME NEW x \in SignaturePool \cup {None}, edited = [map EXCEPT !.tap_key_sig = x]
      PROVE  MapOK(edited, SignaturePool)
    BY <1>3, Fields DEF MapOK
<1>4. ASSUME NEW x, \/ edited = [map EXCEPT !.redeem_script = x]
                    \/ edited = [map EXCEPT !.witness_script = x]
                    \/ edited = [map EXCEPT !.sighash_type = x]
      PROVE  MapOK(edited, SignaturePool)
    BY <1>4, Fields DEF MapOK
<1> QED BY <1>1, <1>2, <1>3, <1>4

LEMMA OtherParts ==
    ASSUME NEW psbt, NEW pool, PsbtOK(psbt, pool), NEW x, NEW y
    PROVE  /\ PsbtOK([psbt EXCEPT !.message = x], pool)
           /\ TxOK(x) /\ Len(x.input) = Len(psbt.unsigned_tx.input) =>
                  PsbtOK([psbt EXCEPT !.unsigned_tx = x, !.outputs = y], pool)
BY DEF PsbtOK

LEMMA TxidSet ==
    ASSUME NEW tx, TxOK(tx), NEW txid
    PROVE  LET edited == [tx EXCEPT !.input[1].previous_output.txid = txid] IN
               TxOK(edited) /\ Len(edited.input) = Len(tx.input)
<1> DEFINE edited == [tx EXCEPT !.input[1].previous_output.txid = txid]
           first == [tx.input[1] EXCEPT !.previous_output.txid = txid]
<1>1. PICK S : tx.input \in Seq(S)
    BY DEF TxOK
<1>2. "input" \in DOMAIN edited /\ edited.input = [tx.input EXCEPT ![1] = first]
    BY DEF TxOK
<1> HIDE DEF edited, first
<1> DEFINE T == S \cup {first}
<1>3. CASE 1 \in DOMAIN tx.input
    <2>1. tx.input \in Seq(T) /\ 1 \in 1 .. Len(tx.input)
        BY <1>1, <1>3, SeqMonotonic, LenProperties
    <2>2. edited.input \in Seq(T) /\ Len(edited.input) = Len(tx.input)
        <3> HIDE DEF T
        <3> QED BY <1>2, <2>1, ExceptSeq DEF T
    <2> QED BY <1>2, <2>2 DEF TxOK, edited
<1>4. CASE 1 \notin DOMAIN tx.input
    <2>1. edited.input = tx.input
        BY <1>1, <1>2, <1>4
    <2> QED BY <1>1, <1>2, <2>1 DEF TxOK, edited
<1> QED BY <1>3, <1>4

LEMMA TxEditsOK ==
    ASSUME NEW tx, TxOK(tx), NEW edited \in TxEdits(tx)
    PROVE  TxOK(edited) /\ Len(edited.input) = Len(tx.input)
<1>1. ASSUME NEW x, edited = [tx EXCEPT !.output = x]
      PROVE  TxOK(edited) /\ edited.input = tx.input
    BY <1>1 DEF TxOK
<1>2. CASE edited = [tx EXCEPT !.version = 1]
    BY <1>2 DEF TxOK
<1>3. ASSUME NEW t, edited = [tx EXCEPT !.input[1].previous_output.txid = t]
      PROVE  TxOK(edited) /\ Len(edited.input) = Len(tx.input)
    BY <1>3, TxidSet
<1> QED BY <1>1, <1>2, <1>3 DEF TxEdits

LEMMA RebindOK ==
    ASSUME NEW psbt, NEW pool, PsbtOK(psbt, pool), NEW message
    PROVE  PsbtOK(Rebind(psbt, message), pool)
<1> DEFINE to_spend == ToSpend(ClaimedChallenge(psbt).script_pubkey, message)
           old == psbt.inputs[1].non_witness_utxo
           new == IF old = None THEN None ELSE to_spend
           map == [psbt.inputs[1] EXCEPT !.non_witness_utxo = new]
           tx == [psbt.unsigned_tx EXCEPT !.input[1].previous_output.txid = to_spend]
<1>1. /\ {"inputs", "unsigned_tx"} \subseteq DOMAIN Rebind(psbt, message)
      /\ Rebind(psbt, message).unsigned_tx = tx
    BY DEF Rebind, PsbtOK
<1>0. TxOK(tx) /\ Len(tx.input) = Len(psbt.inputs)
    BY TxidSet DEF PsbtOK
<1> HIDE DEF to_spend, tx
<1>2. CASE 1 \in DOMAIN psbt.inputs
    <2>1. MapOK(map, pool)
        BY <1>2, MapOfInput, OtherFields DEF PsbtOK
    <2>2. /\ MapsOK([psbt.inputs EXCEPT ![1] = map], pool)
          /\ Len([psbt.inputs EXCEPT ![1] = map]) = Len(psbt.inputs)
        <3> HIDE DEF map
        <3>1. Len([psbt.inputs EXCEPT ![1] = map]) = Len(psbt.inputs)
            BY <1>2 DEF PsbtOK, MapsOK
        <3> QED BY <1>2, <2>1, <3>1, ReplaceMap DEF PsbtOK
    <2>3. Rebind(psbt, message).inputs = [psbt.inputs EXCEPT ![1] = map]
        BY <1>2, Fields, MapOfInput DEF Rebind, PsbtOK, MapOK, to_spend
    <2> QED BY <1>0, <1>1, <2>2, <2>3 DEF PsbtOK
<1>3. CASE 1 \notin DOMAIN psbt.inputs
    <2>1. Rebind(psbt, message).inputs = psbt.inputs
        BY <1>3 DEF Rebind, PsbtOK, MapsOK
    <2> QED BY <1>0, <1>1, <2>1 DEF PsbtOK
<1> QED BY <1>2, <1>3

LEMMA DropLastOK ==
    ASSUME NEW psbt, NEW pool, PsbtOK(psbt, pool), Len(psbt.inputs) > 1
    PROVE  PsbtOK(DropLastInput(psbt), pool)
<1> DEFINE last == Len(psbt.inputs) - 1
<1>1. PICK S : psbt.inputs \in Seq(S) /\ \A map \in S : MapOK(map, pool)
    BY DEF PsbtOK, MapsOK
<1>2. last \in Int /\ \A j \in 1 .. last : psbt.inputs[j] \in S
    BY <1>1
<1>3. SubSeq(psbt.inputs, 1, last) \in Seq(S)
    BY <1>2, SubSeqProperties
<1>4. LET dropped == DropLastInput(psbt) IN
          /\ {"inputs", "unsigned_tx"} \subseteq DOMAIN dropped
          /\ dropped.inputs = SubSeq(psbt.inputs, 1, last)
          /\ "input" \in DOMAIN dropped.unsigned_tx
          /\ dropped.unsigned_tx.input = SubSeq(psbt.unsigned_tx.input, 1, last)
    BY DEF DropLastInput, PsbtOK, TxOK
<1>5. PICK T : psbt.unsigned_tx.input \in Seq(T)
    BY DEF PsbtOK, TxOK
<1>6. \A j \in 1 .. last : psbt.unsigned_tx.input[j] \in T
    BY <1>2, <1>5, ElementOfSeq DEF PsbtOK
<1> HIDE DEF last
<1>7. /\ SubSeq(psbt.unsigned_tx.input, 1, last) \in Seq(T)
      /\ Len(SubSeq(psbt.unsigned_tx.input, 1, last)) = Len(SubSeq(psbt.inputs, 1, last))
    BY <1>2, <1>6, SubSeqProperties
<1> QED BY <1>1, <1>3, <1>4, <1>7 DEF PsbtOK, MapsOK, TxOK

LEMMA SwapLastOK ==
    ASSUME NEW psbt, NEW pool, PsbtOK(psbt, pool), Len(psbt.inputs) > 1
    PROVE  PsbtOK(SwapLastInputs(psbt), pool)
<1> DEFINE n == Len(psbt.inputs)
           seq == psbt.inputs
           once == [seq EXCEPT ![n] = seq[n - 1]]
           twice == [once EXCEPT ![n - 1] = seq[n]]
<1>1. n \in DOMAIN seq /\ n - 1 \in DOMAIN seq
    BY DEF PsbtOK, MapsOK
<1>2. MapOK(seq[n], pool) /\ MapOK(seq[n - 1], pool)
    BY <1>1, MapOfInput DEF PsbtOK
<1>3. MapsOK(once, pool) /\ n - 1 \in DOMAIN once
    BY <1>1, <1>2, ReplaceMap DEF PsbtOK
<1>4. MapsOK(twice, pool)
    BY <1>2, <1>3, ReplaceMap
<1>5. Len(twice) = n
    BY <1>1 DEF PsbtOK, MapsOK
<1> DEFINE ins == psbt.unsigned_tx.input
           swapped == [ins EXCEPT ![n] = ins[n - 1], ![n - 1] = ins[n]]
<1>6. LET result == SwapLastInputs(psbt) IN
          /\ {"inputs", "unsigned_tx"} \subseteq DOMAIN result
          /\ result.inputs = twice
          /\ "input" \in DOMAIN result.unsigned_tx
          /\ result.unsigned_tx.input = swapped
    BY DEF SwapLastInputs, PsbtOK, TxOK
<1>7. PICK T : ins \in Seq(T)
    BY DEF PsbtOK, TxOK
<1>8. swapped \in Seq(T) /\ Len(swapped) = n
    <2>1. Len(ins) = n /\ n \in 1 .. n /\ n - 1 \in 1 .. n
        BY <1>1 DEF PsbtOK, MapsOK
    <2> HIDE DEF ins, n
    <2>2. ins[n] \in T /\ ins[n - 1] \in T
        BY <1>7, <2>1, ElementOfSeq
    <2>3. [ins EXCEPT ![n] = ins[n - 1]] \in Seq(T) /\ Len([ins EXCEPT ![n] = ins[n - 1]]) = n
        BY <1>7, <2>1, <2>2, ExceptSeq
    <2> QED BY <2>1, <2>2, <2>3, ExceptSeq
<1> QED BY <1>4, <1>5, <1>6, <1>8 DEF PsbtOK, TxOK

LEMMA RequestEditsOK ==
    ASSUME NEW psbt, NEW pool, PsbtOK(psbt, pool),
           NEW edited \in RequestEdits(psbt)
    PROVE  PsbtOK(edited, pool)
<1>1. \/ \E x : edited = [psbt EXCEPT !.message = x]
      \/ \E m : edited = Rebind(psbt, m)
      \/ \E x \in TxEdits(psbt.unsigned_tx) :
             edited = [psbt EXCEPT !.unsigned_tx = x, !.outputs = Len(x.output)]
      \/ Len(psbt.inputs) > 1 /\ edited \in {DropLastInput(psbt), SwapLastInputs(psbt)}
    BY DEF RequestEdits
<1>2. ASSUME NEW m, edited = Rebind(psbt, m) PROVE PsbtOK(edited, pool)
    BY <1>2, RebindOK
<1>3. ASSUME NEW x, edited = [psbt EXCEPT !.message = x] PROVE PsbtOK(edited, pool)
    BY <1>3, OtherParts
<1>4. ASSUME NEW x \in TxEdits(psbt.unsigned_tx),
             edited = [psbt EXCEPT !.unsigned_tx = x, !.outputs = Len(x.output)]
      PROVE  PsbtOK(edited, pool)
    <2>1. TxOK(x) /\ Len(x.input) = Len(psbt.unsigned_tx.input)
        BY TxEditsOK DEF PsbtOK
    <2> QED BY <1>4, <2>1, OtherParts
<1> QED BY <1>1, <1>2, <1>3, <1>4, DropLastOK, SwapLastOK

LEMMA AlteredOK ==
    ASSUME NEW psbt, PsbtOK(psbt, SignaturePool),
           NEW edited \in RequestEdits(psbt) \cup InputEdits(psbt, UtxoEdits)
                          \cup InputEdits(psbt, SigningEdits)
    PROVE  PsbtOK(edited, SignaturePool)
<1>1. CASE edited \in RequestEdits(psbt)
    BY <1>1, RequestEditsOK
<1>2. CASE edited \in InputEdits(psbt, UtxoEdits)
    <2>1. PICK n \in DOMAIN psbt.inputs : \E map \in UtxoEdits(psbt.inputs[n]) :
              edited = [psbt EXCEPT !.inputs[n] = map]
        BY <1>2 DEF InputEdits
    <2>2. PICK map \in UtxoEdits(psbt.inputs[n]) : edited = [psbt EXCEPT !.inputs[n] = map]
        BY <2>1
    <2>3. MapOK(map, SignaturePool)
        BY MapOfInput, UtxoEditsOK DEF PsbtOK
    <2>4. PsbtOK([psbt EXCEPT !.inputs[n] = map], SignaturePool)
        BY <2>3, ReplaceInput
    <2> QED BY <2>2, <2>4
<1>3. CASE edited \in InputEdits(psbt, SigningEdits)
    <2>1. PICK n \in DOMAIN psbt.inputs : \E map \in SigningEdits(psbt.inputs[n]) :
              edited = [psbt EXCEPT !.inputs[n] = map]
        BY <1>3 DEF InputEdits
    <2>2. PICK map \in SigningEdits(psbt.inputs[n]) : edited = [psbt EXCEPT !.inputs[n] = map]
        BY <2>1
    <2>3. MapOK(map, SignaturePool)
        BY MapOfInput, SigningEditsOK DEF PsbtOK
    <2>4. PsbtOK([psbt EXCEPT !.inputs[n] = map], SignaturePool)
        BY <2>3, ReplaceInput
    <2> QED BY <2>2, <2>4
<1> QED BY <1>1, <1>2, <1>3

-----------------------------------------------------------------------------
(* The session.                                                            *)

SessionOK ==
    /\ request \in Requests
    /\ alterations \in 0 .. MaxAlterations
    /\ proof # None => "format" \in DOMAIN proof /\ proof.format \in {"pof", "ful"}
    /\ DOMAIN copy = Party
    /\ \A p \in Party : copy[p] # None => PsbtOK(copy[p], SignaturePool)

LEMMA PoolOnlyGrows == ASSUME [Next]_vars PROVE SignaturePool \subseteq SignaturePool'
<1>1. released \subseteq released'
    BY DEF Next, vars, Create, Receive, Sign, Finalize, AlterCopy, AlterProof
<1> QED BY <1>1 DEF SignaturePool

(* A step that leaves p's copy alone, or puts a good one in its place.     *)
LEMMA CopyReplaced ==
    ASSUME SessionOK, [Next]_vars, NEW p \in Party, NEW psbt,
           PsbtOK(psbt, SignaturePool'), copy' = [copy EXCEPT ![p] = psbt]
    PROVE  /\ DOMAIN copy' = Party
           /\ \A q \in Party : copy'[q] # None => PsbtOK(copy'[q], SignaturePool')
BY PoolOnlyGrows, MoreForAll DEF SessionOK

LEMMA ReleasedIsInPool ==
    ASSUME NEW p, NEW key, NEW n, Sign(p, key, n)
    PROVE  SignatureOf(copy[p], key, n) \in SignaturePool'
<1> DEFINE r == Release(copy[p], key, n)
<1>1. r \in released' /\ r.sig = SignatureOf(copy[p], key, n)
    BY DEF Sign, Release
<1> HIDE DEF r
<1> QED BY <1>1 DEF SignaturePool

LEMMA SessionStep == SessionOK /\ [Next]_vars => SessionOK'
<1> SUFFICES ASSUME SessionOK, [Next]_vars PROVE SessionOK'
    OBVIOUS
<1>1. SignaturePool \subseteq SignaturePool'
    BY PoolOnlyGrows
<1>2. CASE Create
    <2>1. request \in Requests /\ Creator \in Party
        BY SessionAssumption DEF SessionOK
    <2>2. PsbtOK(CreateBip322Psbt(request), SignaturePool')
        BY <2>1, CreatedOK
    <2> QED BY <1>2, <2>1, <2>2, CopyReplaced DEF Create, SessionOK
<1>3. ASSUME NEW p \in Party, NEW q \in Party, Receive(p, q) PROVE SessionOK'
    <2>1. PsbtOK(copy[q], SignaturePool')
        BY <1>1, <1>3, MoreForAll DEF Receive, Holds, SessionOK
    <2>2. copy[p] # None => PsbtOK(Combine(copy[p], copy[q]), SignaturePool')
        BY <1>1, <2>1, MoreForAll, CombinedOK DEF SessionOK
    <2> QED BY <1>3, <2>1, <2>2, CopyReplaced DEF Receive, SessionOK
<1>4. ASSUME NEW p \in Party, NEW key \in KeyOf[p], NEW n \in 1 .. MaxProofInputs,
             Sign(p, key, n)
      PROVE  SessionOK'
    <2>1. PsbtOK(copy[p], SignaturePool')
        BY <1>1, <1>4, MoreForAll DEF Sign, Holds, SessionOK
    <2>2. n \in DOMAIN copy[p].inputs /\ key \in Key
        BY <1>4, SessionAssumption DEF Sign, SignAccepted
    <2>3. SignatureOf(copy[p], key, n) \in SignaturePool'
        BY <1>4, ReleasedIsInPool
    <2>4. PsbtOK(SignBip322PsbtInput(copy[p], key, n), SignaturePool')
        BY <2>1, <2>2, <2>3, SignedOK
    <2> QED BY <1>4, <2>4, CopyReplaced DEF Sign, SessionOK
<1>5. ASSUME NEW p \in Party, Finalize(p) PROVE SessionOK'
    <2>1. "format" \in DOMAIN proof' /\ proof'.format \in {"pof", "ful"}
        BY <1>5 DEF Finalize, FinalizeBip322Psbt
    <2> QED BY <1>1, <1>5, <2>1, MoreForAll DEF Finalize, SessionOK
<1>6. ASSUME NEW p \in Party, AlterCopy(p) PROVE SessionOK'
    <2>1. PsbtOK(copy[p], SignaturePool)
        BY <1>6 DEF AlterCopy, Holds, SessionOK
    <2>2. PICK psbt \in RequestEdits(copy[p]) \cup InputEdits(copy[p], UtxoEdits)
                        \cup InputEdits(copy[p], SigningEdits) :
              copy' = [copy EXCEPT ![p] = psbt]
        BY <1>6 DEF AlterCopy
    <2>3. PsbtOK(psbt, SignaturePool')
        BY <1>1, <2>1, AlteredOK, MoreForAll
    <2>4. alterations' \in 0 .. MaxAlterations
        BY <1>6, SessionAssumption DEF AlterCopy, SessionOK
    <2> QED BY <1>6, <2>2, <2>3, <2>4, CopyReplaced DEF AlterCopy, SessionOK
<1>7. CASE AlterProof
    <2>1. "format" \in DOMAIN proof' /\ proof'.format \in {"pof", "ful"}
        BY <1>7 DEF AlterProof, SessionOK
    <2>2. alterations' \in 0 .. MaxAlterations
        BY <1>7, SessionAssumption DEF AlterProof, SessionOK
    <2> QED BY <1>1, <1>7, <2>1, <2>2, MoreForAll DEF AlterProof, SessionOK
<1>8. CASE UNCHANGED vars
    BY <1>8 DEF vars, SessionOK, SignaturePool
<1> QED BY <1>2, <1>3, <1>4, <1>5, <1>6, <1>7, <1>8 DEF Next

LEMMA SessionInvariant == Spec => []SessionOK
<1>1. ASSUME Init PROVE SessionOK
    <2>1. alterations \in 0 .. MaxAlterations
        BY <1>1, SessionAssumption DEF Init
    <2>2. DOMAIN copy = Party /\ \A p \in Party : copy[p] = None
        BY <1>1 DEF Init
    <2>3. request \in Requests /\ proof = None
        BY <1>1 DEF Init
    <2>4. \A p \in Party : copy[p] # None => PsbtOK(copy[p], SignaturePool)
        BY <2>2
    <2> QED BY <2>1, <2>2, <2>3, <2>4 DEF SessionOK
<1> QED BY <1>1, SessionStep, PTL DEF Spec

(* TypeOK, of every session: whatever was done to a copy, it stays a PSBT  *)
(* with a map for each input, and nobody's signature comes out of nowhere  *)
(* (sign_bip322_psbt_input, Psbt::combine).                                *)
THEOREM TypeCorrect == Spec => []TypeOK
<1>1. SessionOK => TypeOK
    BY MapOfInput DEF SessionOK, TypeOK, PsbtOK, MapOK
<1> QED BY <1>1, SessionInvariant, PTL

-----------------------------------------------------------------------------
(* Signatures are kept.                                                    *)

Keeps(old, new, pool) ==
    /\ old.tap_key_sig # None => new.tap_key_sig \in pool
    /\ \A k \in Key : old.partial_sigs[k] # None => new.partial_sigs[k] \in pool

LEMMA Kept == ASSUME NEW map, NEW pool, MapOK(map, pool) PROVE Keeps(map, map, pool)
BY DEF Keeps, MapOK

LEMMA CombiningKeeps ==
    ASSUME NEW a, NEW b, NEW pool, MapOK(a, pool), MapOK(b, pool)
    PROVE  Keeps(a, CombineInput(a, b), pool)
BY DEF Keeps, CombineInput, OrElse, MapOK

LEMMA SigningKeeps ==
    ASSUME NEW psbt, NEW key \in Key, NEW n \in DOMAIN psbt.inputs, NEW pool,
           PsbtOK(psbt, pool), SignatureOf(psbt, key, n) \in pool
    PROVE  Keeps(psbt.inputs[n], SignedInput(psbt, key, n), pool)
<1> DEFINE map == psbt.inputs[n]  sig == SignatureOf(psbt, key, n)
<1>1. MapOK(map, pool)
    BY MapOfInput DEF PsbtOK
<1> HIDE DEF sig
<1>2. Keeps(map, [map EXCEPT !.tap_internal_key = Point[key], !.tap_key_sig = sig], pool)
    BY <1>1, Fields DEF Keeps, MapOK, sig
<1>3. Keeps(map, [map EXCEPT !.redeem_script = P2wpkh(key), !.partial_sigs[key] = sig], pool)
    BY <1>1, Fields DEF Keeps, MapOK, sig
<1>4. Keeps(map, [map EXCEPT !.partial_sigs[key] = sig], pool)
    BY <1>1, Fields DEF Keeps, MapOK, sig
<1> QED BY <1>2, <1>3, <1>4 DEF SignedInput, sig

KeepsCopy(p) ==
    \A n \in DOMAIN copy[p].inputs : Keeps(copy[p].inputs[n], copy'[p].inputs[n], SignaturePool')

LEMMA UnchangedKeeps ==
    ASSUME SessionOK, [Next]_vars, NEW p \in Party, copy[p] # None, copy'[p] = copy[p]
    PROVE  KeepsCopy(p)
<1>1. PsbtOK(copy[p], SignaturePool')
    BY PoolOnlyGrows, MoreForAll DEF SessionOK
<1> QED BY <1>1, MapOfInput, Kept DEF KeepsCopy, PsbtOK

LEMMA StepKeeps ==
    ASSUME SessionOK, [Next]_vars, alterations' = alterations
    PROVE  \A p \in Party : copy[p] # None => KeepsCopy(p)
<1> SUFFICES ASSUME NEW p \in Party, copy[p] # None PROVE KeepsCopy(p)
    OBVIOUS
<1>1. PsbtOK(copy[p], SignaturePool')
    BY PoolOnlyGrows, MoreForAll DEF SessionOK
<1>2. CASE Create
    BY <1>2, UnchangedKeeps DEF Create, SessionOK
<1>3. ASSUME NEW r \in Party, NEW q \in Party, Receive(r, q) PROVE KeepsCopy(p)
    <2>1. CASE r # p
        BY <1>3, <2>1, UnchangedKeeps DEF Receive, SessionOK
    <2>2. CASE r = p
        <3>1. copy'[p] = Combine(copy[p], copy[q])
            BY <1>3, <2>2 DEF Receive, SessionOK
        <3>2. PsbtOK(copy[q], SignaturePool')
            BY <1>3, PoolOnlyGrows, MoreForAll DEF Receive, Holds, SessionOK
        <3>3. ASSUME NEW n \in DOMAIN copy[p].inputs
              PROVE  copy'[p].inputs[n] \in {copy[p].inputs[n],
                                             CombineInput(copy[p].inputs[n], copy[q].inputs[n])}
                     /\ (n \notin DOMAIN copy[q].inputs => copy'[p].inputs[n] = copy[p].inputs[n])
            BY <1>1, <3>1 DEF Combine, PsbtOK
        <3> QED BY <1>1, <3>2, <3>3, MapOfInput, Kept, CombiningKeeps DEF KeepsCopy, PsbtOK
    <2> QED BY <2>1, <2>2
<1>4. ASSUME NEW r \in Party, NEW key \in KeyOf[r], NEW j \in 1 .. MaxProofInputs,
             Sign(r, key, j)
      PROVE  KeepsCopy(p)
    <2>1. CASE r # p
        BY <1>4, <2>1, UnchangedKeeps DEF Sign, SessionOK
    <2>2. CASE r = p
        <3>1. copy'[p].inputs = [copy[p].inputs EXCEPT ![j] = SignedInput(copy[p], key, j)]
            BY <1>1, <1>4, <2>2 DEF Sign, SessionOK, SignBip322PsbtInput, PsbtOK
        <3>2. j \in DOMAIN copy[p].inputs /\ key \in Key
            BY <1>4, <2>2, SessionAssumption DEF Sign, SignAccepted
        <3>3. SignatureOf(copy[p], key, j) \in SignaturePool'
            BY <1>4, <2>2, ReleasedIsInPool
        <3>4. Keeps(copy[p].inputs[j], SignedInput(copy[p], key, j), SignaturePool')
            BY <1>1, <3>2, <3>3, SigningKeeps
        <3> QED BY <1>1, <3>1, <3>4, MapOfInput, Kept DEF KeepsCopy, PsbtOK
    <2> QED BY <2>1, <2>2
<1>5. ASSUME NEW r \in Party, Finalize(r) PROVE KeepsCopy(p)
    BY <1>5, UnchangedKeeps DEF Finalize
<1>6. ASSUME NEW r \in Party, AlterCopy(r) PROVE FALSE
    BY <1>6, SessionAssumption DEF AlterCopy, SessionOK
<1>7. CASE AlterProof
    BY <1>7, SessionAssumption DEF AlterProof, SessionOK
<1>8. CASE UNCHANGED vars
    BY <1>8, UnchangedKeeps DEF vars
<1> QED BY <1>2, <1>3, <1>4, <1>5, <1>6, <1>7, <1>8 DEF Next

(* SignaturesAccumulate, of every session: no call of a role loses a       *)
(* signature, in whatever order copies are passed on, combined and signed  *)
(* (sign_bip322_psbt_input, Psbt::combine).                                *)
THEOREM NoSignatureIsLost == Spec => SignaturesAccumulate
<1>1. SessionOK /\ [Next]_vars =>
          [alterations' = alterations =>
              \A p \in Party : copy[p] # None =>
                  \A n \in DOMAIN copy[p].inputs :
                      LET old == copy[p].inputs[n] new == copy'[p].inputs[n] IN
                          /\ old.tap_key_sig # None => new.tap_key_sig \in SignaturePool'
                          /\ \A k \in Key :
                                 old.partial_sigs[k] # None =>
                                     new.partial_sigs[k] \in SignaturePool']_vars
    BY StepKeeps DEF KeepsCopy, Keeps
<1> QED BY <1>1, SessionInvariant, PTL DEF Spec, SignaturesAccumulate

-----------------------------------------------------------------------------
(* Every route of the signer hashes the PSBT's own transaction, for the    *)
(* input it was asked to sign.                                             *)
LEMMA SighashCoversTx ==
    ASSUME NEW psbt, NEW key, NEW n
    PROVE  /\ SignatureOf(psbt, key, n).sighash.tx = psbt.unsigned_tx
           /\ SignatureOf(psbt, key, n).sighash.index = n
<1>1. /\ SigningSighash(psbt, key, n).tx = psbt.unsigned_tx
      /\ SigningSighash(psbt, key, n).index = n
    BY DEF SigningSighash, TaprootSighash, SegwitSighash, LegacySighash, Sighash
<1>2. SignatureOf(psbt, key, n).sighash = SigningSighash(psbt, key, n)
    BY DEF SignatureOf, Signature
<1> QED BY <1>1, <1>2

(* A call of the signer that succeeds releases a signature that is only    *)
(* good for what the call reports (sign_bip322_psbt_input).                *)
LEMMA SigningIsDisplayed ==
    ASSUME NEW psbt, NEW key, NEW n, SignAccepted(psbt, key, n)
    PROVE  GoodOnlyForDisplay(Release(psbt, key, n))
<1> DEFINE r == Release(psbt, key, n)
<1>1. Detected(psbt)
    BY DEF SignAccepted, RequestAccepted
<1>2. /\ r.message = psbt.message
      /\ r.challenge = ClaimedChallenge(psbt).script_pubkey
      /\ r.index = n
      /\ r.sig = SignatureOf(psbt, key, n)
    BY DEF Release, DetectedRequest
<1>3. r.sig.sighash.tx = psbt.unsigned_tx /\ r.sig.sighash.index = n
    BY <1>2, SighashCoversTx
<1>4. /\ psbt.message \in Utf8
      /\ psbt.unsigned_tx.input[1].previous_output.vout = 0
      /\ psbt.unsigned_tx.input[1].previous_output.txid
             = ToSpend(ClaimedChallenge(psbt).script_pubkey, psbt.message)
      /\ psbt.unsigned_tx.output = <<TxOut(0, OpReturn)>>
    BY <1>1 DEF Detected, Outpoint, IsBip322Output
<1> HIDE DEF r
<1>5. GoodOnlyForDisplay(r)
    BY <1>2, <1>3, <1>4 DEF GoodOnlyForDisplay
<1> QED BY <1>5 DEF r

(* The challenge that input n is signed against is the script of the       *)
(* output that the resolver returns for it, input 1 included.              *)
LEMMA ChallengeIsResolved ==
    ASSUME NEW psbt, NEW n, RequestAccepted(psbt)
    PROVE  Challenge(psbt, n) = Resolve(psbt, n).script_pubkey
<1>1. CASE n # 1
    BY <1>1 DEF Challenge
<1>2. CASE n = 1
    <2>1. Detected(psbt)
        BY DEF RequestAccepted
    <2>2. Outpoint(psbt, 1).vout = 0 /\ ChallengeUtxoConsistent(psbt)
        BY <2>1 DEF Detected
    <2>3. CASE psbt.inputs[1].witness_utxo # None
        BY <1>2, <2>3 DEF Challenge, ClaimedChallenge, Resolve
    <2>4. CASE psbt.inputs[1].witness_utxo = None
        <3>1. psbt.inputs[1].non_witness_utxo = Outpoint(psbt, 1).txid
            BY <2>2, <2>4 DEF ChallengeUtxoConsistent
        <3>2. ClaimedChallenge(psbt) = Outputs(Outpoint(psbt, 1).txid)[1]
            BY <2>4, <3>1 DEF ClaimedChallenge
        <3>3. Resolve(psbt, 1) = Outputs(Outpoint(psbt, 1).txid)[1]
            BY <2>2, <2>4 DEF Resolve, SpentOutput
        <3> QED BY <1>2, <3>2, <3>3 DEF Challenge
    <2> QED BY <2>3, <2>4
<1> QED BY <1>1, <1>2

(* What the resolver returns for a spend it takes for a legacy one is the  *)
(* output of the transaction that the outpoint names.                      *)
LEMMA LegacyOutputIsSpent ==
    ASSUME NEW psbt, NEW n, n \in DOMAIN psbt.inputs, RequestAccepted(psbt),
           ~SpendsWitness(Resolve(psbt, n).script_pubkey, psbt.inputs[n].redeem_script)
    PROVE  Resolve(psbt, n) = SpentOutput(psbt, n)
<1>1. CheckedPrevout(psbt, n)
    BY DEF RequestAccepted
<1>2. HasNonWitness(psbt, n) /\ Resolvable(psbt, n)
    BY <1>1 DEF CheckedPrevout
<1>3. psbt.inputs[n].witness_utxo \in {None, SpentOutput(psbt, n)}
    BY <1>2 DEF Resolvable
<1> QED BY <1>3 DEF Resolve

(* The signer makes a legacy sighash only for what the resolver took for a *)
(* legacy spend: a key hash output, or P2SH with a redeem script that is a *)
(* multisig script and hence no witness program.                           *)
LEMMA LegacySighashIsLegacySpend ==
    ASSUME NEW psbt, NEW key, NEW n, SignAccepted(psbt, key, n),
           SigningRoute(psbt, n) \in {"p2pkh", "multisig"},
           SigningRoute(psbt, n) = "multisig" => ~IsWitnessMultisig(psbt.inputs[n])
    PROVE  ~SpendsWitness(Resolve(psbt, n).script_pubkey, psbt.inputs[n].redeem_script)
<1> DEFINE map == psbt.inputs[n]
           spk == Resolve(psbt, n).script_pubkey
<1>1. Challenge(psbt, n) = spk
    BY ChallengeIsResolved DEF SignAccepted
<1>2. KeyAccepted(psbt, key, n)
    BY DEF SignAccepted
<1>3. CASE SigningRoute(psbt, n) = "p2pkh"
    <2>1. spk = P2pkh(key)
        BY <1>1, <1>2, <1>3 DEF KeyAccepted
    <2>2. spk.type = "p2pkh"
        BY <2>1 DEF P2pkh
    <2> QED BY <2>2 DEF SpendsWitness, IsWitnessProgram
<1>4. CASE SigningRoute(psbt, n) = "multisig"
    <2>1. /\ MultisigScript(map) # None
          /\ ParsesMultisig(MultisigScript(map))
          /\ MultisigChallengeAccepted(map, spk)
        BY <1>1, <1>2, <1>4 DEF KeyAccepted
    <2>2. ~IsWitnessMultisig(map)
        BY <1>4
    <2>3. MultisigScript(map) = map.redeem_script
        BY <2>2 DEF MultisigScript, IsWitnessMultisig
    <2>4. map.redeem_script # None /\ map.redeem_script.type = "multisig"
        BY <2>1, <2>3 DEF ParsesMultisig
    <2>5. spk = P2sh(map.redeem_script)
        BY <2>1, <2>2, <2>3 DEF MultisigChallengeAccepted
    <2>6. spk.type = "p2sh"
        BY <2>5 DEF P2sh
    <2> QED BY <2>4, <2>6 DEF SpendsWitness, IsWitnessProgram
<1> QED BY <1>3, <1>4

(* A call of the signer that succeeds binds the value it took: each route, *)
(* by what its sighash covers or by where the resolver took the value from.*)
LEMMA SigningBindsValue ==
    ASSUME NEW psbt, NEW key, NEW n, SignAccepted(psbt, key, n)
    PROVE  ValueBound(Release(psbt, key, n))
<1> DEFINE r == Release(psbt, key, n)
           route == SigningRoute(psbt, n)
           sighash == SigningSighash(psbt, key, n)
<1>1. /\ r.sig.sighash = sighash
      /\ r.index = n
      /\ r.value = Resolve(psbt, n).value
    BY DEF Release, SignatureOf, Signature
<1>2. RequestAccepted(psbt) /\ n \in DOMAIN psbt.inputs /\ KeyAccepted(psbt, key, n)
    BY DEF SignAccepted
<1>3. route \in {"p2tr", "p2wpkh", "p2pkh", "p2sh_p2wpkh", "multisig"}
    BY <1>2 DEF KeyAccepted
<1>4. sighash.tx = psbt.unsigned_tx
    BY DEF SigningSighash, TaprootSighash, SegwitSighash, LegacySighash, Sighash
<1>5. CASE route = "p2tr"
    <2>1. sighash.algorithm = "taproot" /\ sighash.prevouts = Prevouts(psbt)
        BY <1>5 DEF SigningSighash, TaprootSighash, Sighash
    <2>2. Prevouts(psbt)[n] = Resolve(psbt, n)
        BY <1>2 DEF Prevouts
    <2> QED BY <1>1, <2>1, <2>2 DEF ValueBound
<1>6. CASE \/ route \in {"p2wpkh", "p2sh_p2wpkh"}
           \/ route = "multisig" /\ IsWitnessMultisig(psbt.inputs[n])
    <2>1. sighash.algorithm = "v0" /\ sighash.prevouts = <<Resolve(psbt, n).value>>
        BY <1>6 DEF SigningSighash, SegwitSighash, Sighash
    <2> QED BY <1>1, <2>1 DEF ValueBound
<1>7. CASE \/ route = "p2pkh"
           \/ route = "multisig" /\ ~IsWitnessMultisig(psbt.inputs[n])
    <2>1. sighash.algorithm = "legacy"
        BY <1>7 DEF SigningSighash, LegacySighash, Sighash
    <2>2. ~SpendsWitness(Resolve(psbt, n).script_pubkey, psbt.inputs[n].redeem_script)
        BY <1>7, LegacySighashIsLegacySpend
    <2>3. Resolve(psbt, n) = SpentOutput(psbt, n)
        BY <1>2, <2>2, LegacyOutputIsSpent
    <2> QED BY <1>1, <1>4, <2>1, <2>3 DEF ValueBound, SpentOutput, Outpoint
<1> QED BY <1>3, <1>5, <1>6, <1>7

-----------------------------------------------------------------------------

(* Signatures come from accepted calls of the signer and from nowhere      *)
(* else: an alteration changes what is signed next, never what was given.  *)
LEMMA OnlySignReleases ==
    ASSUME [Next]_vars
    PROVE  \A r \in released' :
               \/ r \in released
               \/ \E psbt, key, n : SignAccepted(psbt, key, n) /\ r = Release(psbt, key, n)
<1>1. CASE Create
    BY <1>1 DEF Create
<1>2. ASSUME NEW p \in Party, NEW q \in Party, Receive(p, q)
      PROVE  released' = released
    BY <1>2 DEF Receive
<1>3. ASSUME NEW p \in Party, NEW key \in KeyOf[p],
             NEW n \in 1 .. MaxProofInputs, Sign(p, key, n)
      PROVE  /\ SignAccepted(copy[p], key, n)
             /\ released' = released \cup {Release(copy[p], key, n)}
    BY <1>3 DEF Sign
<1>4. ASSUME NEW p \in Party, Finalize(p) PROVE released' = released
    BY <1>4 DEF Finalize
<1>5. ASSUME NEW p \in Party, AlterCopy(p) PROVE released' = released
    BY <1>5 DEF AlterCopy
<1>6. CASE AlterProof
    BY <1>6 DEF AlterProof
<1>7. CASE UNCHANGED vars
    BY <1>7 DEF vars
<1> QED BY <1>1, <1>2, <1>3, <1>4, <1>5, <1>6, <1>7 DEF Next

(* SignedOnlyAsDisplayed, of every session: the message and the challenge  *)
(* that sign_bip322_psbt_input returns are those its signature commits to. *)
THEOREM DisplayedBeforeSigned == Spec => []SignedOnlyAsDisplayed
<1>1. Init => SignedOnlyAsDisplayed
    BY DEF Init, SignedOnlyAsDisplayed
<1>2. SignedOnlyAsDisplayed /\ [Next]_vars => SignedOnlyAsDisplayed'
    BY OnlySignReleases, SigningIsDisplayed DEF SignedOnlyAsDisplayed
<1> QED BY <1>1, <1>2, PTL DEF Spec

(* SignedValueBound, of every session: no copy makes a signer sign for a   *)
(* value that only the PSBT claims.                                        *)
THEOREM ValueBeforeSigned == Spec => []SignedValueBound
<1>1. Init => SignedValueBound
    BY DEF Init, SignedValueBound
<1>2. SignedValueBound /\ [Next]_vars => SignedValueBound'
    BY OnlySignReleases, SigningBindsValue DEF SignedValueBound
<1> QED BY <1>1, <1>2, PTL DEF Spec

-----------------------------------------------------------------------------
(* The keys that the finalizer chooses.                                    *)

(* Position by position a count goes up by at most one, so that it comes by*)
(* every number up to the last one.                                        *)
LEMMA Counted ==
    ASSUME NEW size \in Nat, NEW signed, signed \subseteq 1 .. size,
           NEW m \in Nat \ {0}, Cardinality(signed) >= m
    PROVE  \E j \in signed : Cardinality(signed \cap 1 .. j) = m
<1> DEFINE Up(j) == signed \cap 1 .. j
           T == { j \in 0 .. size : Cardinality(Up(j)) >= m }
<1>1. \A j \in Nat : IsFiniteSet(Up(j)) /\ Cardinality(Up(j)) \in Nat
    <2> SUFFICES ASSUME NEW j \in Nat
                 PROVE  IsFiniteSet(Up(j)) /\ Cardinality(Up(j)) \in Nat
        OBVIOUS
    <2>1. IsFiniteSet(1 .. j) /\ Up(j) \subseteq 1 .. j
        BY FS_Interval
    <2> QED BY <2>1, FS_Subset, FS_CardinalityType
<1>2. PICK j \in T : \A h \in T : j <= h
    <2>1. Up(size) = signed
        OBVIOUS
    <2>2. size \in T /\ T \subseteq Nat
        BY <2>1
    <2> HIDE DEF T
    <2> QED BY <2>2, LeastOf
<1>3. j # 0
    <2>1. Up(0) = {}
        OBVIOUS
    <2>2. Cardinality(Up(0)) = 0
        BY <2>1, FS_EmptySet
    <2> QED BY <2>2
<1>4. j - 1 \in 0 .. size /\ j - 1 \notin T
    BY <1>2, <1>3
<1>5. Cardinality(Up(j - 1)) < m /\ Cardinality(Up(j)) >= m
    <2> HIDE DEF Up
    <2> QED BY <1>1, <1>4
<1>6. j \in signed
    <2>1. j \notin signed => Up(j) = Up(j - 1)
        BY <1>3
    <2> HIDE DEF Up
    <2> QED BY <1>1, <1>4, <1>5, <2>1
<1>7. Up(j) = Up(j - 1) \cup {j} /\ j \notin Up(j - 1)
    BY <1>3, <1>6
<1>8. Cardinality(Up(j)) = Cardinality(Up(j - 1)) + 1
    <2>1. IsFiniteSet(Up(j - 1))
        BY <1>1, <1>4
    <2> HIDE DEF Up
    <2> QED BY <1>7, <2>1, FS_AddElement
<1>9. Cardinality(Up(j)) = m
    <2>1. j \in Nat /\ j - 1 \in Nat
        BY <1>3
    <2> HIDE DEF Up
    <2> QED BY <1>1, <1>5, <1>8, <2>1
<1> QED BY <1>6, <1>9

(* Each of them has signed.                                                *)
LEMMA ChosenHaveSigned ==
    ASSUME NEW map, ParsesMultisig(MultisigScript(map)), EnoughSigned(map)
    PROVE  LET chosen == ChosenKeys(map) IN
               /\ DOMAIN chosen = 1 .. MultisigScript(map).required
               /\ MultisigScript(map).required \in Nat
               /\ \A m \in DOMAIN chosen :
                      chosen[m] \in Key /\ map.partial_sigs[chosen[m]] # None
<1> DEFINE keys == MultisigScript(map).keys
           required == MultisigScript(map).required
           size == Len(keys)
           signed == { j \in DOMAIN keys : map.partial_sigs[keys[j]] # None }
           Nth(m) == CHOOSE j \in signed : Cardinality(signed \cap 1 .. j) = m
<1>1. size \in Nat /\ DOMAIN keys = 1 .. size /\ required \in 1 .. size
      /\ \A j \in 1 .. size : keys[j] \in Key
    BY LenProperties, ElementOfSeq DEF ParsesMultisig
<1>2. signed \subseteq 1 .. size /\ Cardinality(signed) \in Nat
    <2>1. IsFiniteSet(1 .. size) /\ signed \subseteq 1 .. size
        BY <1>1, FS_Interval
    <2> QED BY <2>1, FS_Subset, FS_CardinalityType
<1>3. Cardinality(signed) >= required
    BY DEF EnoughSigned
<1>4. ASSUME NEW m \in 1 .. required
      PROVE  \E j \in signed : Cardinality(signed \cap 1 .. j) = m
    <2> HIDE DEF signed, size, required
    <2>1. Cardinality(signed) >= m /\ m \in Nat \ {0}
        BY <1>1, <1>2, <1>3
    <2> QED BY <1>1, <1>2, <2>1, Counted
<1>5. ChosenKeys(map) = [m \in 1 .. required |-> keys[Nth(m)]]
    BY DEF ChosenKeys
<1>6. \A m \in 1 .. required : Nth(m) \in signed
    <2> HIDE DEF signed, required
    <2> QED BY <1>4
<1>7. \A m \in 1 .. required :
          keys[Nth(m)] \in Key /\ map.partial_sigs[keys[Nth(m)]] # None
    <2> HIDE DEF Nth
    <2> QED BY <1>1, <1>6
<1> HIDE DEF Nth
<1> QED BY <1>1, <1>5, <1>7

-----------------------------------------------------------------------------
(* Witnesses and scriptSigs.                                               *)

LEMMA ItemsOfStack ==
    ASSUME NEW items, NEW pool, StackOK(items, pool)
    PROVE  Sequential(items) /\ \A j \in DOMAIN items : ItemOK(items[j], pool)
<1>1. PICK S : items \in Seq(S) /\ \A item \in S : ItemOK(item, pool)
    BY DEF StackOK
<1>2. Len(items) \in Nat /\ DOMAIN items = 1 .. Len(items)
      /\ \A j \in DOMAIN items : items[j] \in S
    BY <1>1, LenProperties
<1>3. Sequential(items)
    BY <1>1, <1>2 DEF Sequential
<1> QED BY <1>1, <1>2, <1>3

LEMMA FewItems ==
    ASSUME NEW pool, NEW x, ItemOK(x, pool), NEW y, ItemOK(y, pool)
    PROVE  StackOK(<< >>, pool) /\ StackOK(<<x>>, pool) /\ StackOK(<<x, y>>, pool)
<1> DEFINE T == {x, y}
           one == <<x>>
           two == <<x, y>>
           none == << >>
<1>1. none \in Seq(T) /\ one \in Seq(T) /\ two \in Seq(T)
    OBVIOUS
<1>2. \A item \in T : ItemOK(item, pool)
    OBVIOUS
<1>3. ASSUME NEW items \in Seq(T) PROVE StackOK(items, pool)
    <2> HIDE DEF T
    <2> QED BY <1>2 DEF StackOK
<1>4. StackOK(none, pool) /\ StackOK(one, pool) /\ StackOK(two, pool)
    <2> HIDE DEF T, none, one, two
    <2> QED BY <1>1, <1>3
<1> QED BY <1>4

LEMMA JoinedItems ==
    ASSUME NEW pool, NEW a, StackOK(a, pool), NEW b, StackOK(b, pool)
    PROVE  StackOK(a \o b, pool)
<1>1. PICK S : a \in Seq(S) /\ \A item \in S : ItemOK(item, pool)
    BY DEF StackOK
<1>2. PICK T : b \in Seq(T) /\ \A item \in T : ItemOK(item, pool)
    BY DEF StackOK
<1> DEFINE U == S \cup T
<1>3. a \in Seq(U) /\ b \in Seq(U)
    BY <1>1, <1>2, SeqMonotonic
<1>4. \A item \in U : ItemOK(item, pool)
    BY <1>1, <1>2
<1> HIDE DEF U
<1>5. a \o b \in Seq(U)
    BY <1>3, ConcatProperties
<1> QED BY <1>4, <1>5 DEF StackOK

LEMMA SomeItems ==
    ASSUME NEW items, NEW pool, StackOK(items, pool),
           NEW m \in Int, NEW n \in Int, m .. n \subseteq DOMAIN items
    PROVE  StackOK(SubSeq(items, m, n), pool)
<1>1. PICK S : items \in Seq(S) /\ \A item \in S : ItemOK(item, pool)
    BY DEF StackOK
<1>2. \A j \in m .. n : items[j] \in S
    BY <1>1, LenProperties
<1>3. SubSeq(items, m, n) \in Seq(S)
    BY <1>2, SubSeqProperties
<1> QED BY <1>1, <1>3 DEF StackOK

LEMMA ReplacedItem ==
    ASSUME NEW items, NEW pool, StackOK(items, pool), NEW j \in DOMAIN items,
           NEW x, ItemOK(x, pool)
    PROVE  StackOK([items EXCEPT ![j] = x], pool)
<1>1. PICK S : items \in Seq(S) /\ \A item \in S : ItemOK(item, pool)
    BY DEF StackOK
<1> DEFINE U == S \cup {x}
<1>2. items \in Seq(U) /\ j \in 1 .. Len(items)
    BY <1>1, SeqMonotonic, LenProperties
<1>3. \A item \in U : ItemOK(item, pool)
    BY <1>1
<1>4. x \in U
    OBVIOUS
<1> HIDE DEF U
<1>5. [items EXCEPT ![j] = x] \in Seq(U)
    BY <1>2, <1>4, ExceptSeq
<1> QED BY <1>3, <1>5 DEF StackOK

LEMMA StackEditsOK ==
    ASSUME NEW items, StackOK(items, SignaturePool), NEW edited \in StackEdits(items)
    PROVE  StackOK(edited, SignaturePool)
<1>1. \A x \in Items : ItemOK(x, SignaturePool)
    <2> QED BY DEF Items, ItemOK, SigItem, KeyItem, ScriptItem, EmptyItem
<1>2. \/ \E j \in DOMAIN items : \E x \in Items : edited = [items EXCEPT ![j] = x]
      \/ \E j \in DOMAIN items : edited = Without(items, j)
      \/ \E x \in Items : edited = <<x>> \o items
    <2> DEFINE Put(j, x) == [items EXCEPT ![j] = x]
               More(x) == <<x>> \o items
    <2>1. StackEdits(items) =
              { Put(j, x) : j \in DOMAIN items, x \in Items }
              \cup { Without(items, j) : j \in DOMAIN items }
              \cup { More(x) : x \in Items }
        BY DEF StackEdits
    <2>2. edited \in StackEdits(items)
        OBVIOUS
    <2> HIDE DEF Put, More
    <2>3. \/ \E j \in DOMAIN items : \E x \in Items : edited = Put(j, x)
          \/ \E j \in DOMAIN items : edited = Without(items, j)
          \/ \E x \in Items : edited = More(x)
        BY <2>1, <2>2
    <2> QED BY <2>3 DEF Put, More
<1>3. ASSUME NEW j \in DOMAIN items PROVE StackOK(Without(items, j), SignaturePool)
    <2>1. Len(items) \in Nat /\ DOMAIN items = 1 .. Len(items)
        BY LenProperties DEF StackOK
    <2>2. /\ 1 .. j - 1 \subseteq DOMAIN items /\ j + 1 .. Len(items) \subseteq DOMAIN items
          /\ 1 \in Int /\ j - 1 \in Int /\ j + 1 \in Int /\ Len(items) \in Int
        BY <2>1
    <2>3. /\ StackOK(SubSeq(items, 1, j - 1), SignaturePool)
          /\ StackOK(SubSeq(items, j + 1, Len(items)), SignaturePool)
        BY <2>2, SomeItems
    <2> QED BY <2>3, JoinedItems DEF Without
<1>4. ASSUME NEW x \in Items PROVE StackOK(<<x>> \o items, SignaturePool)
    <2>1. StackOK(<<x>>, SignaturePool)
        BY <1>1, FewItems
    <2> QED BY <2>1, JoinedItems
<1>5. ASSUME NEW j \in DOMAIN items, NEW x \in Items
      PROVE  StackOK([items EXCEPT ![j] = x], SignaturePool)
    BY <1>1, ReplacedItem
<1> QED BY <1>2, <1>3, <1>4, <1>5, Zenon

LEMMA FinalEditsOK ==
    ASSUME NEW map, MapOK(map, SignaturePool), NEW edited \in FinalEdits(map)
    PROVE  MapOK(edited, SignaturePool)
<1>1. \/ \E x \in StackEdits(map.final_script_sig) :
             map.final_script_sig # None /\ edited = [map EXCEPT !.final_script_sig = x]
      \/ \E x \in StackEdits(map.final_script_witness) :
             map.final_script_witness # None /\ edited = [map EXCEPT !.final_script_witness = x]
    BY DEF FinalEdits
<1>2. ASSUME NEW x, StackOK(x, SignaturePool)
      PROVE  /\ MapOK([map EXCEPT !.final_script_sig = x], SignaturePool)
             /\ MapOK([map EXCEPT !.final_script_witness = x], SignaturePool)
    BY <1>2, Fields DEF MapOK, FinalOK
<1> QED BY <1>1, <1>2, StackEditsOK DEF MapOK, FinalOK

-----------------------------------------------------------------------------
(* The finalizer.                                                          *)

LEMMA KeySpendOK ==
    ASSUME NEW map, NEW pool, MapOK(map, pool), NEW key \in Key, SinglePartialSig(map, key)
    PROVE  StackOK(KeySpend(map), pool)
<1> DEFINE chosen == CHOOSE k \in Key : Signers(map) = {k}
<1>1. Signers(map) = {key}
    BY DEF SinglePartialSig
<1>2. chosen \in Key /\ Signers(map) = {chosen}
    BY <1>1
<1> HIDE DEF chosen
<1>3. map.partial_sigs[chosen] \in pool
    BY <1>2 DEF Signers, MapOK
<1>4. ItemOK(SigItem(map.partial_sigs[chosen]), pool) /\ ItemOK(KeyItem(chosen), pool)
    BY <1>3 DEF ItemOK, SigItem, KeyItem
<1> QED BY <1>4, FewItems DEF KeySpend, chosen

LEMMA MultisigSpendOK ==
    ASSUME NEW map, NEW pool, MapOK(map, pool),
           ParsesMultisig(MultisigScript(map)), EnoughSigned(map)
    PROVE  StackOK(MultisigSpend(map), pool)
<1> DEFINE chosen == ChosenKeys(map)
           required == MultisigScript(map).required
           Signed(j) == SigItem(map.partial_sigs[chosen[j]])
           sigs == [j \in DOMAIN chosen |-> Signed(j)]
           first == <<EmptyItem>>
           last == <<ScriptItem(MultisigScript(map))>>
           T == { Signed(j) : j \in DOMAIN chosen }
<1>1. /\ DOMAIN chosen = 1 .. required /\ required \in Nat
      /\ \A m \in DOMAIN chosen : map.partial_sigs[chosen[m]] \in pool
    BY ChosenHaveSigned DEF MapOK
<1> HIDE DEF chosen, required
<1>2. sigs \in Seq(T)
    BY <1>1
<1>3. \A item \in T : ItemOK(item, pool)
    BY <1>1 DEF ItemOK, SigItem
<1>4. StackOK(sigs, pool)
    <2> HIDE DEF sigs, T
    <2> QED BY <1>2, <1>3 DEF StackOK
<1>5. StackOK(first, pool) /\ StackOK(last, pool)
    <2>1. ItemOK(EmptyItem, pool) /\ ItemOK(ScriptItem(MultisigScript(map)), pool)
        BY DEF ItemOK, EmptyItem, ScriptItem
    <2> QED BY <2>1, FewItems
<1>6. MultisigSpend(map) = first \o sigs \o last
    BY DEF MultisigSpend, chosen
<1> HIDE DEF first, sigs, last
<1>7. StackOK(first \o sigs \o last, pool)
    BY <1>4, <1>5, JoinedItems
<1> QED BY <1>6, <1>7

LEMMA FinalizedMapOK ==
    ASSUME NEW map, NEW pool, MapOK(map, pool), NEW challenge, InputFinalizable(map, challenge)
    PROVE  MapOK(FinalizedInput(map, challenge), pool)
<1> DEFINE route == FinalizingRoute(map, challenge)
           script_sig == FinalScriptSig(map, route)
           witness == FinalScriptWitness(map, route)
<1>1. route \in {"p2tr", "p2sh_p2wpkh", "p2wpkh", "p2pkh", "multisig"}
    BY DEF InputFinalizable
<1>2. CASE route = "p2tr"
    <2>1. ItemOK(SigItem(map.tap_key_sig), pool)
        BY <1>2 DEF FinalizingRoute, MapOK, ItemOK, SigItem
    <2>2. witness = <<SigItem(map.tap_key_sig)>> /\ script_sig = None
        BY <1>2 DEF FinalScriptSig, FinalScriptWitness
    <2> HIDE DEF witness, script_sig
    <2>3. FinalOK(script_sig, pool) /\ FinalOK(witness, pool)
        BY <2>1, <2>2, FewItems DEF FinalOK
    <2> QED BY <2>3, EmptyMapOK, Fields DEF FinalizedInput, MapOK, script_sig, witness
<1>3. ASSUME route \in {"p2sh_p2wpkh", "p2wpkh", "p2pkh"}
      PROVE  FinalOK(script_sig, pool) /\ FinalOK(witness, pool)
    <2>1. PICK key \in Key : SinglePartialSig(map, key)
        BY <1>3, DataAssumption DEF InputFinalizable
    <2>2. StackOK(KeySpend(map), pool)
        BY <2>1, KeySpendOK
    <2>3. ItemOK(ScriptItem(map.redeem_script), pool)
        BY DEF ItemOK, ScriptItem
    <2>4. StackOK(<<ScriptItem(map.redeem_script)>>, pool)
        BY <2>3, FewItems
    <2>5. script_sig \in {None, KeySpend(map), <<ScriptItem(map.redeem_script)>>}
        BY <1>3 DEF FinalScriptSig
    <2>6. witness \in {None, KeySpend(map)}
        BY <1>3 DEF FinalScriptWitness
    <2> HIDE DEF witness, script_sig
    <2> QED BY <2>2, <2>4, <2>5, <2>6 DEF FinalOK
<1>4. ASSUME route = "multisig"
      PROVE  FinalOK(script_sig, pool) /\ FinalOK(witness, pool)
    <2>1. ParsesMultisig(MultisigScript(map)) /\ EnoughSigned(map)
        BY <1>4 DEF InputFinalizable
    <2>2. StackOK(MultisigSpend(map), pool)
        BY <2>1, MultisigSpendOK
    <2>3. ItemOK(ScriptItem(map.redeem_script), pool)
        BY DEF ItemOK, ScriptItem
    <2>4. StackOK(<<ScriptItem(map.redeem_script)>>, pool)
        BY <2>3, FewItems
    <2>5. script_sig \in {None, MultisigSpend(map), <<ScriptItem(map.redeem_script)>>}
        BY <1>4 DEF FinalScriptSig
    <2>6. witness \in {None, MultisigSpend(map)}
        BY <1>4 DEF FinalScriptWitness
    <2> HIDE DEF witness, script_sig
    <2> QED BY <2>2, <2>4, <2>5, <2>6 DEF FinalOK
<1>5. ASSUME FinalOK(script_sig, pool) /\ FinalOK(witness, pool)
      PROVE  MapOK(FinalizedInput(map, challenge), pool)
    <2> HIDE DEF script_sig, witness
    <2> QED BY <1>5, EmptyMapOK, Fields DEF FinalizedInput, MapOK, script_sig, witness
<1> HIDE DEF route, script_sig, witness
<1> QED BY <1>1, <1>2, <1>3, <1>4, <1>5

LEMMA FinalizedPsbtOK ==
    ASSUME NEW psbt, NEW pool, PsbtOK(psbt, pool), FinalizeAccepted(psbt)
    PROVE  PsbtOK(FinalizedPsbt(psbt), pool)
<1> DEFINE Done(n) == FinalizedInput(psbt.inputs[n], Challenge(psbt, n))
           maps == [n \in DOMAIN psbt.inputs |-> Done(n)]
           T == { Done(n) : n \in DOMAIN psbt.inputs }
<1>1. /\ {"inputs", "unsigned_tx"} \subseteq DOMAIN FinalizedPsbt(psbt)
      /\ FinalizedPsbt(psbt).inputs = maps
      /\ FinalizedPsbt(psbt).unsigned_tx = psbt.unsigned_tx
    BY DEF FinalizedPsbt, PsbtOK
<1>2. DOMAIN psbt.inputs = 1 .. Len(psbt.inputs) /\ Len(psbt.inputs) \in Nat
    BY DEF PsbtOK, MapsOK
<1>3. \A n \in DOMAIN psbt.inputs : MapOK(Done(n), pool)
    BY MapOfInput, FinalizedMapOK DEF FinalizeAccepted, PsbtOK
<1> HIDE DEF Done
<1>4. maps \in Seq(T) /\ Len(maps) = Len(psbt.inputs)
    BY <1>2
<1>5. \A map \in T : MapOK(map, pool)
    BY <1>3
<1> HIDE DEF maps, T
<1> QED BY <1>1, <1>4, <1>5 DEF PsbtOK, MapsOK

LEMMA ExtractedInput ==
    ASSUME NEW psbt, NEW pool, PsbtOK(psbt, pool), NEW n \in DOMAIN psbt.inputs
    PROVE  /\ StackOK(ExtractTx(psbt).script_sig[n], pool)
           /\ StackOK(ExtractTx(psbt).witness[n], pool)
<1>1. /\ FinalOK(psbt.inputs[n].final_script_sig, pool)
      /\ FinalOK(psbt.inputs[n].final_script_witness, pool)
    BY MapOfInput DEF PsbtOK, MapOK
<1>2. StackOK(<< >>, pool)
    <2>1. ItemOK(EmptyItem, pool)
        BY DEF ItemOK, EmptyItem
    <2> QED BY <2>1, FewItems
<1>3. \A x : FinalOK(x, pool) => StackOK(IF x = None THEN << >> ELSE x, pool)
    BY <1>2 DEF FinalOK
<1>4. LET items(x) == IF x = None THEN << >> ELSE x IN
          /\ ExtractTx(psbt).script_sig[n] = items(psbt.inputs[n].final_script_sig)
          /\ ExtractTx(psbt).witness[n] = items(psbt.inputs[n].final_script_witness)
    BY DEF ExtractTx
<1> QED BY <1>1, <1>3, <1>4

LEMMA FinalizedProofOK ==
    ASSUME NEW psbt, NEW pool, PsbtOK(psbt, pool), FinalizeAccepted(psbt)
    PROVE  ProofOK(FinalizeBip322Psbt(psbt), pool)
<1> DEFINE finalized == FinalizedPsbt(psbt)
           to_sign == ExtractTx(finalized)
<1>1. PsbtOK(finalized, pool)
    BY FinalizedPsbtOK
<1>2. DOMAIN finalized.inputs = DOMAIN psbt.inputs
    BY DEF FinalizedPsbt, PsbtOK
<1>3. /\ Len(psbt.inputs) \in Nat /\ Len(psbt.inputs) > 0
      /\ DOMAIN psbt.inputs = 1 .. Len(psbt.inputs)
    <2>1. Len(psbt.inputs) > 0
        BY DEF FinalizeAccepted, RequestAccepted, Detected
    <2> QED BY <2>1 DEF PsbtOK, MapsOK
<1> HIDE DEF finalized
<1>4. CASE Len(psbt.inputs) > 1
    BY <1>1, <1>4 DEF FinalizeBip322Psbt, ProofOK, finalized
<1>5. CASE ~(Len(psbt.inputs) > 1)
    <2>1. DOMAIN finalized.inputs = {1}
        BY <1>2, <1>3, <1>5
    <2>2. /\ {"tx", "script_sig", "witness"} \subseteq DOMAIN to_sign
          /\ DOMAIN to_sign.script_sig = {1} /\ DOMAIN to_sign.witness = {1}
          /\ to_sign.tx = finalized.unsigned_tx
        BY <2>1 DEF ExtractTx
    <2>3. StackOK(to_sign.script_sig[1], pool) /\ StackOK(to_sign.witness[1], pool)
        BY <1>1, <2>1, ExtractedInput
    <2> HIDE DEF to_sign
    <2>4. ToSignOK(to_sign, pool)
        BY <1>1, <2>2, <2>3 DEF ToSignOK, PsbtOK
    <2> QED BY <1>5, <2>4 DEF FinalizeBip322Psbt, ProofOK, finalized, to_sign
<1> QED BY <1>4, <1>5

-----------------------------------------------------------------------------
(* The proof, through alterations.                                         *)

LEMMA AlteredPofOK ==
    ASSUME NEW psbt, PsbtOK(psbt, SignaturePool),
           NEW edited \in RequestEdits(psbt) \cup InputEdits(psbt, UtxoEdits)
                          \cup InputEdits(psbt, FinalEdits)
    PROVE  PsbtOK(edited, SignaturePool)
<1>1. CASE edited \in InputEdits(psbt, FinalEdits)
    <2>1. PICK n \in DOMAIN psbt.inputs : \E map \in FinalEdits(psbt.inputs[n]) :
              edited = [psbt EXCEPT !.inputs[n] = map]
        BY <1>1 DEF InputEdits
    <2>2. PICK map \in FinalEdits(psbt.inputs[n]) : edited = [psbt EXCEPT !.inputs[n] = map]
        BY <2>1
    <2>3. MapOK(map, SignaturePool)
        BY MapOfInput, FinalEditsOK DEF PsbtOK
    <2>4. PsbtOK([psbt EXCEPT !.inputs[n] = map], SignaturePool)
        BY <2>3, ReplaceInput
    <2> QED BY <2>2, <2>4
<1> QED BY <1>1, AlteredOK

LEMMA ToSignEditsOK ==
    ASSUME NEW to_sign, ToSignOK(to_sign, SignaturePool),
           NEW edited \in ToSignEdits(to_sign)
    PROVE  ToSignOK(edited, SignaturePool)
<1>1. \/ \E x \in TxEdits(to_sign.tx) : edited = [to_sign EXCEPT !.tx = x]
      \/ \E x \in StackEdits(to_sign.script_sig[1]) : edited = [to_sign EXCEPT !.script_sig[1] = x]
      \/ \E x \in StackEdits(to_sign.witness[1]) : edited = [to_sign EXCEPT !.witness[1] = x]
    BY DEF ToSignEdits
<1>2. ASSUME NEW x, TxOK(x) PROVE ToSignOK([to_sign EXCEPT !.tx = x], SignaturePool)
    BY <1>2 DEF ToSignOK
<1>3. ASSUME NEW x, StackOK(x, SignaturePool)
      PROVE  /\ ToSignOK([to_sign EXCEPT !.script_sig[1] = x], SignaturePool)
             /\ ToSignOK([to_sign EXCEPT !.witness[1] = x], SignaturePool)
    BY <1>3 DEF ToSignOK
<1> QED BY <1>1, <1>2, <1>3, TxEditsOK, StackEditsOK DEF ToSignOK

LEMMA MoreForProof ==
    ASSUME NEW finished, NEW pool, NEW more, ProofOK(finished, pool), pool \subseteq more
    PROVE  ProofOK(finished, more)
BY MoreForAll, MoreItems DEF ProofOK, ToSignOK

(* Every signature a proof shows was released or is made over something    *)
(* else, and a signer who signed for the challenge took it to have no value*)
ConsentInv ==
    /\ SessionOK
    /\ proof # None => ProofOK(proof, SignaturePool)
    /\ \A r \in released : r.index = 1 => r.value = 0

LEMMA ChallengeHasNoValue ==
    ASSUME NEW psbt, NEW key, SignAccepted(psbt, key, 1)
    PROVE  Resolve(psbt, 1).value = 0
<1>1. Detected(psbt)
    BY DEF SignAccepted, RequestAccepted
<1>2. /\ Outpoint(psbt, 1).vout = 0 /\ ChallengeUtxoConsistent(psbt)
      /\ ClaimedChallenge(psbt).value = 0
    BY <1>1 DEF Detected
<1>3. CASE psbt.inputs[1].witness_utxo # None
    BY <1>2, <1>3 DEF ClaimedChallenge, Resolve
<1>4. CASE psbt.inputs[1].witness_utxo = None
    <2>1. psbt.inputs[1].non_witness_utxo = Outpoint(psbt, 1).txid
        BY <1>2, <1>4 DEF ChallengeUtxoConsistent
    <2>2. ClaimedChallenge(psbt) = Outputs(Outpoint(psbt, 1).txid)[1]
        BY <1>4, <2>1 DEF ClaimedChallenge
    <2>3. Resolve(psbt, 1) = Outputs(Outpoint(psbt, 1).txid)[1]
        BY <1>2, <1>4 DEF Resolve, SpentOutput
    <2> QED BY <1>2, <2>2, <2>3
<1> QED BY <1>3, <1>4

LEMMA ConsentStep == ConsentInv /\ [Next]_vars => ConsentInv'
<1> SUFFICES ASSUME ConsentInv, [Next]_vars PROVE ConsentInv'
    OBVIOUS
<1>1. SessionOK'
    BY SessionStep DEF ConsentInv
<1>2. SignaturePool \subseteq SignaturePool'
    BY PoolOnlyGrows
<1>3. \A r \in released' : r.index = 1 => r.value = 0
    <2>1. ASSUME NEW psbt, NEW key, NEW n, SignAccepted(psbt, key, n), n = 1
          PROVE  Release(psbt, key, n).value = 0
        BY <2>1, ChallengeHasNoValue DEF Release
    <2>2. \A psbt, key, n : Release(psbt, key, n).index = n
        BY DEF Release
    <2> QED BY <2>1, <2>2, OnlySignReleases DEF ConsentInv
<1>4. proof' # None => ProofOK(proof', SignaturePool')
    <2>1. ASSUME proof' = proof PROVE proof' # None => ProofOK(proof', SignaturePool')
        <3> QED BY <1>2, <2>1, MoreForProof DEF ConsentInv
    <2>2. ASSUME NEW p \in Party, Finalize(p) PROVE ProofOK(proof', SignaturePool')
        <3>1. PsbtOK(copy[p], SignaturePool)
            BY <2>2 DEF Finalize, Holds, ConsentInv, SessionOK
        <3>2. ProofOK(proof', SignaturePool)
            BY <2>2, <3>1, FinalizedProofOK DEF Finalize
        <3> QED BY <1>2, <3>2, MoreForProof
    <2>3. ASSUME AlterProof PROVE ProofOK(proof', SignaturePool')
        <3>1. ProofOK(proof, SignaturePool)
            BY <2>3 DEF AlterProof, ConsentInv
        <3>2. ASSUME NEW psbt, proof.format = "pof",
                     psbt \in RequestEdits(proof.psbt) \cup InputEdits(proof.psbt, UtxoEdits)
                              \cup InputEdits(proof.psbt, FinalEdits),
                     proof' = [proof EXCEPT !.psbt = psbt]
              PROVE  ProofOK(proof', SignaturePool)
            <4>1. PsbtOK(psbt, SignaturePool)
                BY <3>1, <3>2, AlteredPofOK DEF ProofOK
            <4> QED BY <3>1, <3>2, <4>1 DEF ProofOK
        <3>3. ASSUME NEW to_sign, proof.format = "ful", to_sign \in ToSignEdits(proof.to_sign),
                     proof' = [proof EXCEPT !.to_sign = to_sign]
              PROVE  ProofOK(proof', SignaturePool)
            <4>1. ToSignOK(to_sign, SignaturePool)
                BY <3>1, <3>3, ToSignEditsOK DEF ProofOK
            <4> QED BY <3>1, <3>3, <4>1 DEF ProofOK
        <3>4. ProofOK(proof', SignaturePool)
            BY <2>3, <3>2, <3>3 DEF AlterProof
        <3> QED BY <1>2, <3>4, MoreForProof
    <2>4. CASE Create
        BY <2>1, <2>4 DEF Create
    <2>5. ASSUME NEW p \in Party, NEW q \in Party, Receive(p, q) PROVE proof' = proof
        BY <2>5 DEF Receive
    <2>6. ASSUME NEW p \in Party, NEW key, NEW n, Sign(p, key, n) PROVE proof' = proof
        BY <2>6 DEF Sign
    <2>7. ASSUME NEW p \in Party, AlterCopy(p) PROVE proof' = proof
        BY <2>7 DEF AlterCopy
    <2>8. CASE UNCHANGED vars
        BY <2>1, <2>8 DEF vars
    <2> QED BY <2>1, <2>2, <2>3, <2>4, <2>5, <2>6, <2>7, <2>8 DEF Next
<1> QED BY <1>1, <1>3, <1>4 DEF ConsentInv

LEMMA ConsentInvariant == Spec => []ConsentInv
<1>1. Init /\ SessionOK => ConsentInv
    BY DEF Init, ConsentInv
<1> QED BY <1>1, ConsentStep, SessionInvariant, PTL DEF Spec

-----------------------------------------------------------------------------
(* What a Valid verdict says of one input.                                 *)

ValidInput(to_sign, outs, n, pool) ==
    /\ InputOK(to_sign, n)
    /\ \A item \in ItemsOf(to_sign, n) : ItemOK(item, pool)
    /\ Parse(to_sign, outs, n) # Malformed
    /\ VerifyInput(to_sign, outs, n, Parse(to_sign, outs, n)) = "valid"

LEMMA ShownByInput ==
    ASSUME NEW to_sign, NEW n, NEW pool,
           StackOK(to_sign.script_sig[n], pool), StackOK(to_sign.witness[n], pool)
    PROVE  InputOK(to_sign, n) /\ \A item \in ItemsOf(to_sign, n) : ItemOK(item, pool)
<1>1. /\ Sequential(to_sign.script_sig[n]) /\ Sequential(to_sign.witness[n])
      /\ \A j \in DOMAIN to_sign.script_sig[n] : ItemOK(to_sign.script_sig[n][j], pool)
      /\ \A j \in DOMAIN to_sign.witness[n] : ItemOK(to_sign.witness[n][j], pool)
    BY ItemsOfStack
<1>2. InputOK(to_sign, n)
    BY <1>1 DEF InputOK, ItemOK
<1> QED BY <1>1, <1>2 DEF ItemsOf, Range

LEMMA ValidSpends ==
    ASSUME NEW to_sign, NEW outs, NEW n \in DOMAIN to_sign.tx.input, NEW pool,
           InputOK(to_sign, n), \A item \in ItemsOf(to_sign, n) : ItemOK(item, pool),
           Parse(to_sign, outs, n) # Malformed,
           VerifySpends(to_sign, outs, ParseSpends(to_sign, outs)) = "Valid"
    PROVE  ValidInput(to_sign, outs, n, pool)
<1> DEFINE spends == ParseSpends(to_sign, outs)
<1>1. n \in DOMAIN spends /\ spends[n] = Parse(to_sign, outs, n)
    BY DEF ParseSpends
<1>2. VerifyInput(to_sign, outs, n, spends[n]) \notin {"invalid", "inconclusive"}
    BY <1>1 DEF VerifySpends
<1> QED BY <1>1, <1>2, ThreeOutcomes DEF ValidInput

LEMMA ValidFull ==
    ASSUME NEW address, NEW message, NEW to_sign, NEW pool, ToSignOK(to_sign, pool),
           VerifyFull(address, message, to_sign) = "Valid"
    PROVE  /\ DOMAIN to_sign.tx.input = {1}
           /\ SpendsChallenge(to_sign.tx, address, message)
           /\ IsBip322Output(to_sign.tx.output)
           /\ ValidInput(to_sign, <<TxOut(0, address)>>, 1, pool)
<1> DEFINE outs == <<TxOut(0, address)>>
<1>1. /\ CheckToSign(address, message, to_sign)
      /\ ParseSpends(to_sign, outs)[1] # Malformed
      /\ VerifySpends(to_sign, outs, ParseSpends(to_sign, outs)) = "Valid"
    BY DEF VerifyFull
<1>2. DOMAIN to_sign.tx.input = {1}
    BY <1>1, LenProperties DEF CheckToSign, ToSignOK, TxOK
<1>3. InputOK(to_sign, 1) /\ \A item \in ItemsOf(to_sign, 1) : ItemOK(item, pool)
    BY ShownByInput DEF ToSignOK
<1>4. Parse(to_sign, outs, 1) # Malformed
    BY <1>1, <1>2 DEF ParseSpends
<1> QED BY <1>1, <1>2, <1>3, <1>4, ValidSpends DEF CheckToSign

LEMMA ValidPof ==
    ASSUME NEW address, NEW message, NEW psbt, NEW pool, PsbtOK(psbt, pool),
           VerifyPof(address, message, psbt) = "Valid",
           NEW n \in DOMAIN psbt.unsigned_tx.input
    PROVE  /\ PofConsistent(address, message, psbt)
           /\ n \in DOMAIN psbt.inputs
           /\ ValidInput(ExtractTx(psbt), PofPrevouts(address, message, psbt), n, pool)
           /\ Backed(psbt, n, Parse(ExtractTx(psbt), PofPrevouts(address, message, psbt), n))
<1> DEFINE to_sign == ExtractTx(psbt)
           outs == PofPrevouts(address, message, psbt)
           spends == ParseSpends(to_sign, outs)
<1>1. /\ PofConsistent(address, message, psbt)
      /\ \A j \in DOMAIN spends : spends[j] # Malformed /\ Backed(psbt, j, spends[j])
      /\ VerifySpends(to_sign, outs, spends) = "Valid"
    BY DEF VerifyPof
<1>2. n \in DOMAIN psbt.inputs
    BY LenProperties DEF PsbtOK, MapsOK, TxOK
<1>3. n \in DOMAIN to_sign.tx.input
    BY DEF ExtractTx
<1>4. InputOK(to_sign, n) /\ \A item \in ItemsOf(to_sign, n) : ItemOK(item, pool)
    BY <1>2, ExtractedInput, ShownByInput
<1> HIDE DEF to_sign, outs
<1>5. Parse(to_sign, outs, n) # Malformed /\ Backed(psbt, n, Parse(to_sign, outs, n))
    BY <1>1, <1>3 DEF ParseSpends
<1>6. ValidInput(to_sign, outs, n, pool)
    BY <1>1, <1>3, <1>4, <1>5, ValidSpends
<1> QED BY <1>1, <1>2, <1>5, <1>6 DEF to_sign, outs

-----------------------------------------------------------------------------
(* From what is shown to who was asked.                                    *)

LEMMA LegacyNotWitness ==
    ASSUME NEW to_sign, NEW outs, NEW n, NEW pool, ValidInput(to_sign, outs, n, pool),
           Algorithm(outs[n].script_pubkey) = "legacy"
    PROVE  ~IsWitnessSpend(Parse(to_sign, outs, n))
<1> DEFINE spend == Parse(to_sign, outs, n)
<1>1. SpendOK(spend, outs[n].script_pubkey, ItemsOf(to_sign, n))
    BY Parsed DEF ValidInput
<1>2. VerifyInput(to_sign, outs, n, spend) = "valid"
    BY DEF ValidInput
<1> HIDE DEF spend
<1>3. spend.kind # "unknown"
    BY <1>2 DEF VerifyInput
<1>4. ~IsWitnessSpend(spend)
    BY <1>1, <1>3 DEF SpendOK, IsWitnessSpend, Algorithm, Kinds
<1> QED BY <1>4 DEF spend

(* The outputs that a proof is about are those of the chain where the      *)
(* sighash says nothing of them, and the challenge has no value.           *)
OutputsKnown(tx, outs, n) ==
    IF n = 1 THEN outs[n].value = 0
    ELSE Algorithm(outs[n].script_pubkey) = "legacy" =>
             LET spent == tx.input[n].previous_output IN
                 outs[n] = Outputs(spent.txid)[spent.vout + 1]

LEMMA PofOutputsKnown ==
    ASSUME NEW address, NEW message, NEW psbt, NEW pool, PsbtOK(psbt, pool),
           VerifyPof(address, message, psbt) = "Valid",
           NEW n \in DOMAIN psbt.unsigned_tx.input
    PROVE  OutputsKnown(psbt.unsigned_tx, PofPrevouts(address, message, psbt), n)
<1> DEFINE outs == PofPrevouts(address, message, psbt)
           spend == Parse(ExtractTx(psbt), outs, n)
<1>1. /\ PofConsistent(address, message, psbt) /\ n \in DOMAIN psbt.inputs
      /\ ValidInput(ExtractTx(psbt), outs, n, pool) /\ Backed(psbt, n, spend)
    BY ValidPof
<1>2. outs[n] = IF n = 1 THEN TxOut(0, address) ELSE Resolve(psbt, n)
    BY <1>1 DEF PofPrevouts
<1>3. CASE n = 1
    BY <1>2, <1>3 DEF OutputsKnown, TxOut
<1>4. ASSUME n # 1, Algorithm(outs[n].script_pubkey) = "legacy"
      PROVE  outs[n] = SpentOutput(psbt, n)
    <2> HIDE DEF outs
    <2>1. ~IsWitnessSpend(spend)
        BY <1>1, <1>4, LegacyNotWitness
    <2>2. HasNonWitness(psbt, n)
        BY <1>1, <2>1 DEF Backed
    <2>3. Resolvable(psbt, n)
        BY <1>1 DEF PofConsistent
    <2> QED BY <1>2, <1>4, <2>2, <2>3 DEF Resolvable, Resolve
<1> HIDE DEF outs
<1>5. OutputsKnown(psbt.unsigned_tx, outs, n)
    BY <1>3, <1>4 DEF OutputsKnown, SpentOutput, Outpoint, outs
<1> QED BY <1>5 DEF outs

(* A signature that commits to all of a transaction that can be a to_sign  *)
(* is none that was made elsewhere.                                        *)
CommitsTo(sig, tx, outs, n) ==
    /\ sig.sighash.tx = tx /\ sig.sighash.index = n
    /\ sig.sighash.algorithm = Algorithm(outs[n].script_pubkey)
    /\ sig.sighash.prevouts =
           CASE sig.sighash.algorithm = "legacy" -> << >>
             [] sig.sighash.algorithm = "v0" -> <<outs[n].value>>
             [] sig.sighash.algorithm = "taproot" -> outs

LEMMA SignerWasAsked ==
    ASSUME SignedOnlyAsDisplayed, SignedValueBound, ConsentInv,
           NEW address, NEW message, NEW tx, NEW outs, NEW n,
           SpendsChallenge(tx, address, message),
           IsBip322Output(tx.output), OutputsKnown(tx, outs, n),
           NEW sig \in SignaturePool, CommitsTo(sig, tx, outs, n)
    PROVE  \E r \in released :
               /\ r.sig = sig
               /\ r.message = message /\ r.challenge = address
               /\ r.index = n /\ r.value = outs[n].value
<1>1. CommitsTo(sig, tx, outs, n)
    OBVIOUS
<1>2. \A k \in Key : sig # Foreign(k)
    <2>1. tx.output # << >>
        BY DEF IsBip322Output
    <2> QED BY <1>1, <2>1 DEF CommitsTo, Foreign, Signature, NoToSign
<1>3. PICK r \in released : r.sig = sig
    BY <1>2 DEF SignaturePool
<1>4. GoodOnlyForDisplay(r) /\ ValueBound(r) /\ (r.index = 1 => r.value = 0)
    BY DEF SignedOnlyAsDisplayed, SignedValueBound, ConsentInv
<1>5. r.index = n
    BY <1>1, <1>3, <1>4 DEF CommitsTo, GoodOnlyForDisplay
<1>6. r.message = message /\ r.challenge = address
    <2>1. ToSpend(r.challenge, r.message) = ToSpend(address, message)
        BY <1>1, <1>3, <1>4 DEF CommitsTo, GoodOnlyForDisplay, SpendsChallenge
    <2> QED BY <2>1 DEF ToSpend
<1>7. r.value = outs[n].value
    <2>1. CASE n = 1
        BY <1>4, <1>5, <2>1 DEF OutputsKnown
    <2>2. CASE n # 1 /\ sig.sighash.algorithm = "legacy"
        <3>1. sig.sighash.algorithm \notin {"v0", "taproot"}
            BY <2>2
        <3> QED BY <1>1, <1>3, <1>4, <1>5, <2>2, <3>1 DEF CommitsTo, OutputsKnown, ValueBound
    <2>3. CASE sig.sighash.algorithm = "v0"
        <3>1. <<outs[n].value>> = <<r.value>>
            BY <1>1, <1>3, <1>4, <2>3 DEF CommitsTo, ValueBound
        <3> QED BY <3>1
    <2>4. CASE sig.sighash.algorithm = "taproot"
        <3>1. sig.sighash.prevouts = outs
            BY <1>1, <2>4 DEF CommitsTo
        <3> QED BY <1>3, <1>4, <1>5, <2>4, <3>1 DEF ValueBound
    <2>5. sig.sighash.algorithm \in {"legacy", "v0", "taproot"}
        BY <1>1 DEF CommitsTo, Algorithm
    <2> QED BY <2>1, <2>2, <2>3, <2>4, <2>5
<1> QED BY <1>3, <1>5, <1>6, <1>7

LEMMA SignersConsent ==
    ASSUME SignedOnlyAsDisplayed, SignedValueBound, ConsentInv,
           NEW address, NEW message, NEW tx, NEW to_sign, NEW n,
           tx = ProofTx(proof), to_sign.tx = tx,
           SpendsChallenge(tx, address, message), IsBip322Output(tx.output),
           OutputsKnown(tx, ProvenOutputs(address, message, proof), n),
           \A item \in ItemsOf(to_sign, n) : ItemOK(item, SignaturePool)
    PROVE  SignersOf(to_sign, ProvenOutputs(address, message, proof), n)
               \subseteq Consenting(address, message, n)
<1> DEFINE outs == ProvenOutputs(address, message, proof)
<1> HIDE DEF outs
<1> SUFFICES ASSUME NEW item \in ItemsOf(to_sign, n), item.kind = "signature",
                    CommitsToAll(item.data, to_sign, outs, n)
             PROVE  item.data.point \in Consenting(address, message, n)
    BY DEF SignersOf, outs
<1>1. item.data \in SignaturePool
    BY DEF ItemOK
<1>2. PICK r \in released :
          /\ r.sig = item.data
          /\ r.message = message /\ r.challenge = address
          /\ r.index = n /\ r.value = outs[n].value
    <2>1. OutputsKnown(tx, outs, n)
        BY DEF outs
    <2> DEFINE sig == item.data
    <2>2. sig \in SignaturePool /\ CommitsTo(sig, tx, outs, n)
        BY <1>1 DEF CommitsToAll, CommitsTo
    <2> HIDE DEF sig
    <2>3. \E r \in released :
              /\ r.sig = sig
              /\ r.message = message /\ r.challenge = address
              /\ r.index = n /\ r.value = outs[n].value
        BY <2>1, <2>2, SignerWasAsked
    <2> QED BY <2>3 DEF sig
<1>3. r.sig.sighash.tx = ProofTx(proof)
    BY <1>2 DEF CommitsToAll
<1> QED BY <1>2, <1>3 DEF Consenting, outs

(* More signers can do no less.                                            *)
LEMMA MoreSigners ==
    ASSUME NEW spk, NEW signers, NEW more, signers \subseteq more,
           OutputAuthorised(spk, signers)
    PROVE  OutputAuthorised(spk, more)
<1>1. ASSUME NEW s, ScriptAuthorised(s, signers) PROVE ScriptAuthorised(s, more)
    <2>1. CASE ParsesMultisig(s)
        <3> DEFINE A == { j \in DOMAIN s.keys : Point[s.keys[j]] \in signers }
                   B == { j \in DOMAIN s.keys : Point[s.keys[j]] \in more }
        <3>1. /\ s.type = "multisig" /\ s.required \in Nat
              /\ Len(s.keys) \in Nat /\ DOMAIN s.keys = 1 .. Len(s.keys)
            BY <2>1, LenProperties DEF ParsesMultisig
        <3>2. A \subseteq B /\ B \subseteq 1 .. Len(s.keys)
            BY <3>1
        <3>3. Cardinality(A) >= s.required
            BY <1>1, <3>1 DEF ScriptAuthorised, ChecksKeys, Ops
        <3> HIDE DEF A, B
        <3>4. IsFiniteSet(B)
            <4>1. IsFiniteSet(1 .. Len(s.keys))
                BY <3>1, FS_Interval
            <4> QED BY <3>2, <4>1, FS_Subset
        <3>5. Cardinality(B) \in Nat /\ Cardinality(A) \in Nat /\ Cardinality(A) <= Cardinality(B)
            BY <3>2, <3>4, FS_Subset, FS_CardinalityType
        <3>6. Cardinality(B) >= s.required
            BY <3>1, <3>3, <3>5
        <3> QED BY <2>1, <3>6 DEF ScriptAuthorised, B
    <2>2. CASE ~ParsesMultisig(s)
        BY <1>1, <2>2 DEF ScriptAuthorised
    <2> QED BY <2>1, <2>2
<1>2. TaprootAuthorised(spk, signers) => TaprootAuthorised(spk, more)
    BY <1>1 DEF TaprootAuthorised
<1> QED BY <1>1, <1>2 DEF OutputAuthorised

LEMMA ValidProof ==
    ASSUME ConsentInv, proof # None, NEW address, NEW message,
           Verify(address, message, proof) = "Valid",
           NEW n \in DOMAIN ProofTx(proof).input
    PROVE  \E to_sign :
               /\ to_sign.tx = ProofTx(proof)
               /\ SpendsChallenge(ProofTx(proof), address, message)
               /\ IsBip322Output(ProofTx(proof).output)
               /\ OutputsKnown(ProofTx(proof), ProvenOutputs(address, message, proof), n)
               /\ ValidInput(to_sign, ProvenOutputs(address, message, proof), n, SignaturePool)
<1> DEFINE tx == ProofTx(proof)
           outs == ProvenOutputs(address, message, proof)
<1>1. ProofOK(proof, SignaturePool)
    BY DEF ConsentInv
<1>2. CASE proof.format = "ful"
    <2>1. tx = proof.to_sign.tx /\ outs = <<TxOut(0, address)>>
        BY <1>2 DEF ProofTx, ProvenOutputs
    <2>2. VerifyFull(address, message, proof.to_sign) = "Valid"
        BY <1>2 DEF Verify
    <2>3. ToSignOK(proof.to_sign, SignaturePool)
        BY <1>1, <1>2 DEF ProofOK
    <2>4. /\ DOMAIN tx.input = {1}
          /\ SpendsChallenge(tx, address, message) /\ IsBip322Output(tx.output)
          /\ ValidInput(proof.to_sign, outs, 1, SignaturePool)
        <3> HIDE DEF tx, outs
        <3> QED BY <2>1, <2>2, <2>3, ValidFull
    <2>5. n = 1
        BY <2>4
    <2>6. OutputsKnown(tx, outs, n)
        BY <2>1, <2>5 DEF OutputsKnown, TxOut
    <2> HIDE DEF tx, outs
    <2> QED BY <2>1, <2>4, <2>5, <2>6 DEF tx, outs
<1>3. CASE proof.format = "pof"
    <2>1. tx = proof.psbt.unsigned_tx /\ outs = PofPrevouts(address, message, proof.psbt)
        BY <1>3 DEF ProofTx, ProvenOutputs
    <2>2. VerifyPof(address, message, proof.psbt) = "Valid"
        BY <1>3 DEF Verify
    <2>3. PsbtOK(proof.psbt, SignaturePool)
        BY <1>1, <1>3 DEF ProofOK
    <2>4. n \in DOMAIN proof.psbt.unsigned_tx.input
        BY <2>1
    <2> DEFINE psbt == proof.psbt
               to_sign == ExtractTx(psbt)
    <2>5. to_sign.tx = tx
        BY <2>1 DEF ExtractTx
    <2> HIDE DEF tx, outs, psbt, to_sign
    <2>6. /\ PofConsistent(address, message, psbt)
          /\ ValidInput(to_sign, outs, n, SignaturePool)
          /\ OutputsKnown(tx, outs, n)
        BY <2>1, <2>2, <2>3, <2>4, ValidPof, PofOutputsKnown DEF psbt, to_sign
    <2>7. SpendsChallenge(tx, address, message) /\ IsBip322Output(tx.output)
        BY <2>1, <2>6 DEF PofConsistent, psbt
    <2> QED BY <2>5, <2>6, <2>7 DEF tx, outs
<1> QED BY <1>1, <1>2, <1>3 DEF ProofOK

(* ValidImpliesConsent, of every session: whatever was altered between the *)
(* calls of the roles, a proof is Valid for an address and a message only  *)
(* if holders who can spend each of its inputs signed it for them          *)
(* (sign_bip322_psbt_input, finalize_bip322_psbt, verify_full, verify_pof).*)
THEOREM ValidMeansConsent == Spec => []ValidImpliesConsent
<1>1. ConsentInv /\ SignedOnlyAsDisplayed /\ SignedValueBound => ValidImpliesConsent
    <2> SUFFICES ASSUME ConsentInv, SignedOnlyAsDisplayed, SignedValueBound, proof # None,
                        NEW address \in Addresses, NEW message \in Message,
                        Verify(address, message, proof) = "Valid",
                        NEW n \in DOMAIN ProofTx(proof).input
                 PROVE  OutputAuthorised(
                            ProvenOutputs(address, message, proof)[n].script_pubkey,
                            Consenting(address, message, n))
        BY DEF ValidImpliesConsent
    <2> DEFINE tx == ProofTx(proof)
               outs == ProvenOutputs(address, message, proof)
    <2>1. PICK to_sign :
              /\ to_sign.tx = tx
              /\ SpendsChallenge(tx, address, message)
              /\ IsBip322Output(tx.output)
              /\ OutputsKnown(tx, outs, n)
              /\ ValidInput(to_sign, outs, n, SignaturePool)
        BY ValidProof
    <2>2. \A item \in ItemsOf(to_sign, n) : ItemOK(item, SignaturePool)
        BY <2>1 DEF ValidInput
    <2>3. OutputAuthorised(outs[n].script_pubkey, SignersOf(to_sign, outs, n))
        <3> HIDE DEF outs
        <3> QED BY <2>1, ValidInputIsAuthorised DEF ValidInput
    <2>4. SignersOf(to_sign, outs, n) \subseteq Consenting(address, message, n)
        BY <2>1, <2>2, SignersConsent
    <2> HIDE DEF outs
    <2>5. OutputAuthorised(outs[n].script_pubkey, Consenting(address, message, n))
        BY <2>3, <2>4, MoreSigners
    <2> QED BY <2>5 DEF outs
<1> QED BY <1>1, ConsentInvariant, DisplayedBeforeSigned, ValueBeforeSigned, PTL
=============================================================================
