------------------------ MODULE DirectSigningProofs ------------------------
(***************************************************************************)
(* Direct signing, for every call, keys, scripts and claims: what it       *)
(* returns, the verifier accepts, exactly when the claims of the call agree*)
(* with each other.  Each input is satisfied as soon as it is finished, and*)
(* finishing the others does not disturb it; within the loop over the keys *)
(* of a multisig script, the signatures made so far are by keys of the     *)
(* script seen so far, in its order, and by no private key twice.          *)
(* What direct signing refuses is had in closed form as well (Signable), so*)
(* that it can be compared with what a single signer with the same keys    *)
(* gets from the PSBT roles, key by key and input by input.                *)
(***************************************************************************)
EXTENDS DirectSigning, AuthorisationProofs

-----------------------------------------------------------------------------
(* One input, by itself: what its map makes of it in the transaction.      *)

PrevoutsOf(c) == [j \in 1 .. Len(c.inputs) + 1 |-> RequestedPrevout(c, j)]

Alone(map, c, j) ==
    [tx |-> RequestTx(c),
     script_sig |-> [h \in {j} |-> ItemsOrNone(map.final_script_sig)],
     witness |-> [h \in {j} |-> ItemsOrNone(map.final_script_witness)]]

(* A finished input is satisfied; a native segwit one has only a witness,  *)
(* and a legacy one has its transaction with it.                           *)
SignedMap(map, c, j) ==
    LET spk == RequestedPrevout(c, j).script_pubkey IN
        /\ map.final_script_sig # None \/ map.final_script_witness # None
        /\ IsWitnessProgram(spk) => /\ map.final_script_sig = None
                                    /\ map.final_script_witness # None
        /\ InputOK(Alone(map, c, j), j)
        /\ InputSatisfied(Alone(map, c, j), PrevoutsOf(c), j)
        /\ Algorithm(spk) = "legacy" => ~RequestSpendsWitness(c, j)

Unsigned(map) == map.final_script_sig = None /\ map.final_script_witness = None

(* The loop over the keys: the signatures are by some of the keys seen.    *)
SignedSoFar(sigs, size, keys, seen, sighash) ==
    /\ Listed(sigs, size)
    /\ \E f \in [1 .. size -> 1 .. seen] :
           /\ \A h, j \in DOMAIN f : h < j => f[h] < f[j]
           /\ \A m \in DOMAIN f : sigs[m] = EcdsaBy(keys[f[m]], sighash)

-----------------------------------------------------------------------------
(* The inductive invariant.                                                *)

MapSoFar(map, c, j, signed) ==
    /\ DOMAIN map = DOMAIN EmptyInput
    /\ c.format = "pof" => SameOutputs(map, StartMap(c, j))
    /\ IF signed THEN SignedMap(map, c, j) ELSE Unsigned(map)

PsbtSoFar(psbt, c) ==
    /\ DOMAIN psbt = {"unsigned_tx", "message", "inputs", "outputs"}
    /\ psbt.unsigned_tx = RequestTx(c) /\ psbt.outputs = 1
    /\ c.format = "pof" => psbt.message = c.message
    /\ Len(psbt.inputs) = Len(c.inputs) + 1
    /\ DOMAIN psbt.inputs = 1 .. Len(c.inputs) + 1

SignedUpTo(psbt, c, input, all) ==
    \A j \in 1 .. Len(c.inputs) + 1 :
        MapSoFar(psbt.inputs[j], c, j, j < input \/ all)

LoopInv ==
    /\ Route \in MultisigRoutes /\ SignersAccepted
    /\ k \in 0 .. Len(witness_script.keys)
    /\ used \subseteq DOMAIN private_keys /\ IsFiniteSet(used)
    /\ SignedSoFar(signatures, Cardinality(used), witness_script.keys, k, InputSighash)

Accepting == pc # "create" /\ result # "refused"

DirectInv ==
    /\ call \in Calls /\ n \in 1 .. Count
    /\ pc \in {"create", "input", "keys", "done"}
    /\ IF pc = "done" THEN result \in {"refused", "ok"} ELSE result = "pending"
    /\ pc = "create" => n = 1
    /\ pc # "keys" /\ result # "refused" => k = 0 /\ used = {} /\ signatures = << >>
    /\ Accepting => /\ CallAccepted /\ PsbtSoFar(to_sign, call)
                    /\ SignedUpTo(to_sign, call, n, result = "ok")
    /\ pc = "keys" => LoopInv

-----------------------------------------------------------------------------
(* The calls.                                                              *)

LEMMA CallIsRequest ==
    ASSUME NEW c \in Calls
    PROVE  /\ RequestOK(c) /\ Sequential(c.inputs)
           /\ Len(c.inputs) \in Nat /\ Len(c.inputs) + 1 \in Nat
           /\ 1 \in 1 .. Len(c.inputs) + 1
           /\ DOMAIN PrevoutsOf(c) = 1 .. Len(c.inputs) + 1
           /\ \A j \in 1 .. Len(c.inputs) + 1 :
                  /\ PrevoutsOf(c)[j] = RequestedPrevout(c, j)
                  /\ c.private_keys[j] \in Seq(Key)
<1>1. RequestOK(c)
    BY CallAssumption, ChainAssumption DEF RequestOK
<1>2. /\ Len(c.inputs) \in Nat /\ Len(c.inputs) + 1 \in Nat
      /\ 1 \in 1 .. Len(c.inputs) + 1
    BY <1>1, RequestedSizes DEF RequestOK
<1>3. \A j \in 1 .. Len(c.inputs) + 1 : c.private_keys[j] \in Seq(Key)
    BY CallAssumption
<1>4. /\ DOMAIN PrevoutsOf(c) = 1 .. Len(c.inputs) + 1
      /\ \A j \in 1 .. Len(c.inputs) + 1 : PrevoutsOf(c)[j] = RequestedPrevout(c, j)
    BY DEF PrevoutsOf
<1> QED BY <1>1, <1>2, <1>3, <1>4 DEF RequestOK

(* The branches of sign_input, and what they tell of the output.           *)
LEMMA Routed ==
    /\ Route \in {"p2tr", "p2wpkh", "p2pkh"} => script_pubkey.type = Route
    /\ Route = "p2sh_p2wpkh" => script_pubkey.type = "p2sh"
    /\ Route \in MultisigRoutes => witness_script # None
    /\ Route = "p2wsh" => script_pubkey = P2wsh(witness_script)
    /\ Route = "p2sh" => /\ script_pubkey = P2sh(witness_script)
                         /\ ScriptLen(witness_script) <= MaxElementSize
    /\ Route = "p2sh_p2wsh" => script_pubkey = P2sh(P2wsh(witness_script))
<1> DEFINE type == script_pubkey.type
<1> HIDE DEF type
<1>1. Route = IF type \in {"p2tr", "p2wpkh", "p2pkh"} THEN type
              ELSE IF witness_script = None
                 THEN IF type = "p2sh" THEN "p2sh_p2wpkh" ELSE "none"
              ELSE IF script_pubkey = P2wsh(witness_script) THEN "p2wsh"
              ELSE IF script_pubkey = P2sh(witness_script)
                 THEN IF ScriptLen(witness_script) <= MaxElementSize THEN "p2sh" ELSE "none"
              ELSE IF script_pubkey = P2sh(P2wsh(witness_script)) THEN "p2sh_p2wsh"
              ELSE "none"
    BY DEF Route, type
<1> QED BY <1>1 DEF MultisigRoutes, type

LEMMA InputParts ==
    ASSUME call \in Calls, n \in 1 .. Count
    PROVE  /\ prevouts = PrevoutsOf(call) /\ prevouts[n] = RequestedPrevout(call, n)
           /\ script_pubkey = RequestedPrevout(call, n).script_pubkey
           /\ private_keys \in Seq(Key)
<1>1. prevouts = PrevoutsOf(call)
    BY DEF prevouts, PrevoutsOf, Count
<1>2. prevouts[n] = RequestedPrevout(call, n) /\ private_keys \in Seq(Key)
    BY <1>1, CallIsRequest DEF Count, private_keys
<1> QED BY <1>1, <1>2 DEF script_pubkey

-----------------------------------------------------------------------------
(* Finished inputs.                                                        *)

(* A map with its two final fields set.                                    *)
Fills(new, map, sig, wit) ==
    /\ new.final_script_sig = sig /\ new.final_script_witness = wit
    /\ SameOutputs(new, map) /\ DOMAIN new = DOMAIN EmptyInput

LEMMA FilledMaps ==
    ASSUME NEW map, DOMAIN map = DOMAIN EmptyInput, Unsigned(map), NEW sig, NEW wit
    PROVE  /\ Fills([map EXCEPT !.final_script_witness = wit], map, None, wit)
           /\ Fills([map EXCEPT !.final_script_sig = sig], map, sig, None)
           /\ Fills([map EXCEPT !.final_script_sig = sig, !.final_script_witness = wit],
                    map, sig, wit)
<1>1. {"witness_utxo", "non_witness_utxo", "final_script_sig", "final_script_witness"}
          \subseteq DOMAIN map
    BY DEF EmptyInput
<1>2. Fills([map EXCEPT !.final_script_witness = wit], map, None, wit)
    BY <1>1 DEF Fills, SameOutputs, Unsigned
<1>3. Fills([map EXCEPT !.final_script_sig = sig], map, sig, None)
    BY <1>1 DEF Fills, SameOutputs, Unsigned
<1>4. Fills([map EXCEPT !.final_script_sig = sig, !.final_script_witness = wit], map, sig, wit)
    BY <1>1 DEF Fills, SameOutputs, Unsigned
<1> QED BY <1>2, <1>3, <1>4

LEMMA AloneParts ==
    ASSUME NEW map, NEW c, NEW j
    PROVE  /\ Alone(map, c, j).tx = RequestTx(c)
           /\ Alone(map, c, j).script_sig[j] = ItemsOrNone(map.final_script_sig)
           /\ Alone(map, c, j).witness[j] = ItemsOrNone(map.final_script_witness)
BY DEF Alone

(* Items that hold no control block.                                       *)
Ordinary(items) ==
    /\ Sequential(items) /\ items # None
    /\ \A h \in DOMAIN items : items[h].kind # "control"

LEMMA OrdinaryStacks ==
    ASSUME AbsentIsNoFunction
    PROVE  /\ Ordinary(<< >>)
           /\ \A sig : Ordinary(<<SigItem(sig)>>)
           /\ \A script : Ordinary(<<ScriptItem(script)>>)
           /\ \A key, sighash : Ordinary(KeyStack(key, sighash))
<1>1. /\ \A sig : SigItem(sig).kind = "signature"
      /\ \A script : ScriptItem(script).kind = "script"
      /\ \A key : KeyItem(key).kind = "key"
      /\ \A key, sighash : EcdsaBy(key, sighash).kind = "signature"
    BY DEF SigItem, ScriptItem, KeyItem, EcdsaBy
<1>2. ASSUME NEW S, NEW s \in Seq(S) PROVE Sequential(s) /\ s # None
    BY <1>2, OwnElements, PresentSequences
<1>3. Ordinary(<< >>)
    <2>1. << >> \in Seq({})
        OBVIOUS
    <2>2. DOMAIN << >> = {}
        OBVIOUS
    <2>3. Sequential(<< >>) /\ << >> # None
        BY <1>2, <2>1
    <2> QED BY <2>2, <2>3 DEF Ordinary
<1>4. ASSUME NEW x, x.kind # "control" PROVE Ordinary(<<x>>)
    <2>1. <<x>> \in Seq({x})
        OBVIOUS
    <2>2. \A h \in DOMAIN <<x>> : <<x>>[h] = x
        OBVIOUS
    <2> QED BY <1>2, <1>4, <2>1, <2>2 DEF Ordinary
<1>5. ASSUME NEW key, NEW sighash PROVE Ordinary(KeyStack(key, sighash))
    <2> DEFINE a == EcdsaBy(key, sighash)
               b == KeyItem(key)
    <2>1. KeyStack(key, sighash) = <<a, b>>
        BY DEF KeyStack
    <2>2. a.kind # "control" /\ b.kind # "control"
        BY <1>1
    <2> HIDE DEF a, b
    <2>3. <<a, b>> \in Seq({a, b}) /\ \A h \in DOMAIN <<a, b>> : <<a, b>>[h] \in {a, b}
        OBVIOUS
    <2>4. Ordinary(<<a, b>>)
        BY <1>2, <2>2, <2>3 DEF Ordinary
    <2> QED BY <2>1, <2>4
<1>6. \A sig : Ordinary(<<SigItem(sig)>>)
    BY <1>1, <1>4
<1>7. \A script : Ordinary(<<ScriptItem(script)>>)
    BY <1>1, <1>4
<1> QED BY <1>3, <1>5, <1>6, <1>7

(* What is left to show of an input that is finished.                      *)
LEMMA SignedByItems ==
    ASSUME AbsentIsNoFunction, NEW c, NEW j, NEW map, NEW old, NEW sig, NEW wit,
           Fills(map, old, sig, wit), sig # None \/ wit # None,
           sig # None => Ordinary(sig), wit # None => Ordinary(wit),
           NEW spk, spk = RequestedPrevout(c, j).script_pubkey,
           IsWitnessProgram(spk) => sig = None,
           InputSatisfied(Alone(map, c, j), PrevoutsOf(c), j),
           Algorithm(spk) = "legacy" => ~RequestSpendsWitness(c, j)
    PROVE  SignedMap(map, c, j)
<1>1. map.final_script_sig = sig /\ map.final_script_witness = wit
    BY DEF Fills
<1>2. Ordinary(ItemsOrNone(sig)) /\ Ordinary(ItemsOrNone(wit))
    BY OrdinaryStacks DEF ItemsOrNone
<1>3. InputOK(Alone(map, c, j), j)
    <2>1. /\ Alone(map, c, j).script_sig[j] = ItemsOrNone(sig)
          /\ Alone(map, c, j).witness[j] = ItemsOrNone(wit)
        BY <1>1, AloneParts
    <2> QED BY <1>2, <2>1 DEF InputOK, Ordinary
<1> QED BY <1>1, <1>3 DEF SignedMap

LEMMA WitnessAlgorithms ==
    ASSUME AbsentIsNoFunction
    PROVE  /\ \A key : Algorithm(P2wpkh(key)) = "v0" /\ Algorithm(P2sh(P2wpkh(key))) = "v0"
           /\ \A script : /\ Algorithm(P2wsh(script)) = "v0"
                          /\ Algorithm(P2sh(P2wsh(script))) = "v0"
           /\ \A spk : spk.type = "p2tr" => Algorithm(spk) = "taproot"
BY Present DEF Algorithm, Unwrapped, IsWitnessProgram, P2wpkh, P2wsh, P2sh

(* The single-key branches of sign_input.                                  *)
LEMMA SingleKeySigned ==
    ASSUME AbsentIsNoFunction, call \in Calls, n \in 1 .. Count,
           to_sign.unsigned_tx = RequestTx(call),
           Route \in SingleKeyRoutes, SingleKeyAccepted,
           Unsigned(to_sign.inputs[n]), DOMAIN to_sign.inputs[n] = DOMAIN EmptyInput
    PROVE  /\ SignedMap(SingleKeyInput, call, n)
           /\ SameOutputs(SingleKeyInput, to_sign.inputs[n])
           /\ DOMAIN SingleKeyInput = DOMAIN EmptyInput
<1> DEFINE spk == script_pubkey
           key == private_keys[1]
           tx == RequestTx(call)
           value == prevouts[n].value
           old == to_sign.inputs[n]
           new == SingleKeyInput
           alone == Alone(new, call, n)
           spend == KeyStack(key, InputSighash)
           outputs == PrevoutsOf(call)
<1>1. /\ prevouts = outputs /\ outputs[n].script_pubkey = spk /\ outputs[n].value = value
      /\ spk = RequestedPrevout(call, n).script_pubkey
    BY InputParts DEF script_pubkey
<1>2. key \in Key
    <2>1. private_keys \in Seq(Key) /\ Len(private_keys) = 1
        BY InputParts DEF SingleKeyAccepted
    <2> HIDE DEF key
    <2>2. private_keys[1] \in Key
        BY <2>1
    <2> QED BY <2>2 DEF key
<1>3. spend = <<EcdsaItem(key), KeyItem(key)>>
    BY DEF KeyStack, EcdsaBy, EcdsaItem
<1>4. tx = to_sign.unsigned_tx
    OBVIOUS
<1>5. ASSUME NEW sig, NEW wit, Fills(new, old, sig, wit), sig # None \/ wit # None,
             sig # None => Ordinary(sig), wit # None => Ordinary(wit),
             IsWitnessProgram(spk) => sig = None,
             Algorithm(spk) = "legacy" => ~RequestSpendsWitness(call, n),
             InputSatisfied(alone, outputs, n)
      PROVE  SignedMap(new, call, n) /\ SameOutputs(new, old) /\ DOMAIN new = DOMAIN EmptyInput
    <2>1. SignedMap(new, call, n)
        BY <1>1, <1>5, SignedByItems
    <2> QED BY <1>5, <2>1 DEF Fills
<1>6. ASSUME NEW sig, NEW wit, Fills(new, old, sig, wit)
      PROVE  /\ alone.tx = tx /\ alone.script_sig[n] = ItemsOrNone(sig)
             /\ alone.witness[n] = ItemsOrNone(wit)
    BY <1>6, AloneParts DEF Fills
<1>7. DOMAIN old = DOMAIN EmptyInput /\ Unsigned(old)
    OBVIOUS
<1>8. /\ Ordinary(spend) /\ spend # None
      /\ \A script : Ordinary(<<ScriptItem(script)>>) /\ <<ScriptItem(script)>> # None
      /\ \A sig : Ordinary(<<SigItem(sig)>>) /\ <<SigItem(sig)>> # None
    BY OrdinaryStacks DEF Ordinary
<1>9. ItemsOrNone(None) = << >> /\ \A x : x # None => ItemsOrNone(x) = x
    BY DEF ItemsOrNone
<1>10. /\ Route = "p2tr" => spk = P2tr(Point[key], None)
       /\ Route = "p2wpkh" => key \in Compressed /\ spk = P2wpkh(key)
       /\ Route = "p2pkh" => spk = P2pkh(key)
       /\ Route = "p2sh_p2wpkh" => key \in Compressed /\ spk = P2sh(P2wpkh(key))
    BY DEF SingleKeyAccepted
<1>11. /\ Route = "p2tr" => InputSighash = TaprootSighash(tx, n, outputs, "ALL")
       /\ Route = "p2wpkh" => InputSighash = SegwitSighash(tx, n, spk, value)
       /\ Route = "p2pkh" => InputSighash = LegacySighash(tx, n, spk)
       /\ Route = "p2sh_p2wpkh" => InputSighash = SegwitSighash(tx, n, P2wpkh(key), value)
    BY <1>1, <1>4 DEF InputSighash
<1> DEFINE taproot == SigItem(Signature("schnorr", spk, InputSighash, "ALL"))
<1>12. /\ Route = "p2tr" => new = [old EXCEPT !.final_script_witness = <<taproot>>]
       /\ Route = "p2wpkh" => new = [old EXCEPT !.final_script_witness = spend]
       /\ Route = "p2pkh" => new = [old EXCEPT !.final_script_sig = spend]
       /\ Route = "p2sh_p2wpkh" =>
              new = [old EXCEPT !.final_script_sig = <<ScriptItem(P2wpkh(key))>>,
                                !.final_script_witness = spend]
    BY <1>3 DEF SingleKeyInput
<1> HIDE DEF spk, key, tx, value, old, new, alone, outputs
<1>13. CASE Route = "p2tr"
    <2> DEFINE wit == <<taproot>>
    <2>1. spk = P2tr(Point[key], None)
        BY <1>10, <1>13
    <2>2. /\ spk.type = "p2tr" /\ spk = P2tr(spk.point, spk.root) /\ spk # None
          /\ Unwrapped(spk) = spk
        BY <2>1, Present DEF P2tr, Unwrapped
    <2>3. Ordinary(wit) /\ wit # None /\ Len(wit) = 1 /\ wit[1] = taproot
        BY <1>8
    <2>4. Fills(new, old, None, wit)
        <3> HIDE DEF wit
        <3>1. new = [old EXCEPT !.final_script_witness = wit]
            BY <1>12, <1>13 DEF wit
        <3> QED BY <1>7, <3>1, FilledMaps
    <2>5. SchnorrBy(taproot, spk, tx, n, None, outputs)
        BY <1>11, <1>13 DEF SchnorrBy, TaprootSighash
    <2> HIDE DEF wit, taproot
    <2>6. alone.tx = tx /\ alone.script_sig[n] = << >> /\ alone.witness[n] = wit
        BY <1>6, <1>9, <2>3, <2>4
    <2>7. TaprootSatisfied(spk, wit, tx, n, outputs)
        BY <2>3, <2>5 DEF TaprootSatisfied
    <2>8. CheckScript(spk) /\ ScriptSigLen(<< >>) <= MaxScriptSize
        <3>1. CheckScript(spk)
            BY <2>2, ShortScript, ChainAssumption
        <3>2. ScriptSigLen(<< >>) <= MaxScriptSize
            BY ScriptSigsFit, ChainAssumption
        <3> QED BY <3>1, <3>2
    <2>9. InputSatisfied(alone, outputs, n)
        BY <1>1, <2>2, <2>6, <2>7, <2>8 DEF InputSatisfied
    <2>10. Algorithm(spk) # "legacy"
        BY <2>2, WitnessAlgorithms
    <2> QED BY <1>5, <2>3, <2>4, <2>9, <2>10 DEF new, old
<1>14. CASE Route = "p2wpkh"
    <2>1. key \in Compressed /\ spk = P2wpkh(key)
        BY <1>10, <1>14
    <2>2. spk.type = "p2wpkh" /\ spk # None /\ Unwrapped(spk) = spk
        BY <2>1, Present DEF P2wpkh, Unwrapped
    <2>3. spend = KeyStack(key, SegwitSighash(tx, n, spk, value))
        BY <1>11, <1>14
    <2> HIDE DEF spend
    <2>4. Fills(new, old, None, spend)
        <3>1. new = [old EXCEPT !.final_script_witness = spend]
            BY <1>12, <1>14
        <3> QED BY <1>7, <3>1, FilledMaps
    <2>5. alone.tx = tx /\ alone.script_sig[n] = << >> /\ alone.witness[n] = spend
        BY <1>6, <1>8, <1>9, <2>4
    <2>6. WitnessSatisfied(spk, spend, tx, n, value)
        BY <2>1, <2>3 DEF WitnessSatisfied
    <2>7. CheckScript(spk) /\ ScriptSigLen(<< >>) <= MaxScriptSize
        <3>1. CheckScript(spk)
            BY <2>2, ShortScript, ChainAssumption
        <3>2. ScriptSigLen(<< >>) <= MaxScriptSize
            BY ScriptSigsFit, ChainAssumption
        <3> QED BY <3>1, <3>2
    <2>8. InputSatisfied(alone, outputs, n)
        BY <1>1, <2>2, <2>5, <2>6, <2>7 DEF InputSatisfied
    <2>9. Algorithm(spk) # "legacy"
        BY <2>1, WitnessAlgorithms
    <2> QED BY <1>5, <1>8, <2>4, <2>8, <2>9 DEF new, old
<1>15. CASE Route = "p2pkh"
    <2>1. spk = P2pkh(key)
        BY <1>10, <1>15
    <2>2. spk.type = "p2pkh" /\ spk # None /\ Unwrapped(spk) = spk
        BY <2>1, Present DEF P2pkh, Unwrapped
    <2>3. spend = KeyStack(key, LegacySighash(tx, n, spk))
        BY <1>11, <1>15
    <2> HIDE DEF spend
    <2>4. Fills(new, old, spend, None)
        <3>1. new = [old EXCEPT !.final_script_sig = spend]
            BY <1>12, <1>15
        <3> QED BY <1>7, <3>1, FilledMaps
    <2>5. alone.tx = tx /\ alone.script_sig[n] = spend /\ alone.witness[n] = << >>
        BY <1>6, <1>8, <1>9, <2>4
    <2>6. CheckScript(spk) /\ ScriptSigLen(spend) <= MaxScriptSize
        <3>1. CheckScript(spk)
            BY <2>2, ShortScript, ChainAssumption
        <3>2. ScriptSigLen(spend) <= MaxScriptSize
            BY <2>3, ScriptSigsFit, ChainAssumption
        <3> QED BY <3>1, <3>2
    <2>7. InputSatisfied(alone, outputs, n)
        BY <1>1, <1>2, <2>1, <2>2, <2>3, <2>5, <2>6 DEF InputSatisfied
    <2>8. ~IsWitnessProgram(spk) /\ ~RequestSpendsWitness(call, n)
        BY <1>1, <2>2 DEF IsWitnessProgram, RequestSpendsWitness, SpendsWitness
    <2> QED BY <1>5, <1>8, <2>4, <2>7, <2>8 DEF new, old
<1>16. CASE Route = "p2sh_p2wpkh"
    <2> DEFINE push == <<ScriptItem(P2wpkh(key))>>
    <2>1. key \in Compressed /\ spk = P2sh(P2wpkh(key))
        BY <1>10, <1>16
    <2>2. /\ spk.type = "p2sh" /\ spk.script = P2wpkh(key) /\ spk = P2sh(spk.script)
          /\ spk # None /\ Unwrapped(spk) # None /\ ~IsWitnessProgram(spk)
        BY <2>1, Present DEF P2sh, Unwrapped, IsWitnessProgram
    <2>3. spend = KeyStack(key, SegwitSighash(tx, n, P2wpkh(key), value))
        BY <1>11, <1>16
    <2>4. Ordinary(push) /\ push # None /\ push = <<ScriptItem(spk.script)>>
        BY <1>8, <2>2
    <2> HIDE DEF spend, push
    <2>5. Fills(new, old, push, spend)
        <3>1. new = [old EXCEPT !.final_script_sig = push, !.final_script_witness = spend]
            BY <1>12, <1>16 DEF push
        <3> QED BY <1>7, <3>1, FilledMaps
    <2>6. alone.tx = tx /\ alone.script_sig[n] = push /\ alone.witness[n] = spend
        BY <1>6, <1>8, <1>9, <2>4, <2>5
    <2>7. WitnessSatisfied(spk.script, spend, tx, n, value)
        BY <2>1, <2>2, <2>3 DEF WitnessSatisfied
    <2>8. CheckScript(spk) /\ ScriptSigLen(push) <= MaxScriptSize
        <3>1. CheckScript(spk)
            BY <2>2, ShortScript, ChainAssumption
        <3>2. spk.script.type = "p2wpkh"
            BY <2>2 DEF P2wpkh
        <3>3. /\ push = <<ScriptItem(spk.script)>>
              /\ spk.script.type \notin {"script", "multisig"}
            BY <2>4, <3>2
        <3>4. ScriptSigLen(push) <= MaxScriptSize
            BY <3>3, ScriptSigsFit, ChainAssumption, Zenon
        <3> QED BY <3>1, <3>4
    <2>9. InputSatisfied(alone, outputs, n)
        BY <1>1, <2>2, <2>4, <2>6, <2>7, <2>8 DEF InputSatisfied
    <2>10. Algorithm(spk) # "legacy"
        BY <2>1, WitnessAlgorithms
    <2> QED BY <1>5, <1>8, <2>2, <2>4, <2>5, <2>9, <2>10 DEF new, old
<1> QED BY <1>13, <1>14, <1>15, <1>16 DEF SingleKeyRoutes, new, old

-----------------------------------------------------------------------------
(* The loop over the keys of a multisig script.                            *)

(* Before it: no key was looked at.                                        *)
LEMMA NoneSigned ==
    ASSUME NEW keys, NEW sighash
    PROVE  SignedSoFar(<< >>, 0, keys, 0, sighash)
<1>1. Listed(<< >>, 0)
    <2>1. << >> = [m \in 1 .. 0 |-> << >>[m]]
        OBVIOUS
    <2> QED BY <2>1 DEF Listed
<1>2. << >> \in [1 .. 0 -> 1 .. 0] /\ DOMAIN << >> = {}
    OBVIOUS
<1> QED BY <1>1, <1>2 DEF SignedSoFar

(* A key that no private key fits.                                         *)
LEMMA KeySkipped ==
    ASSUME NEW sigs, NEW size \in Nat, NEW keys, NEW seen \in Nat, NEW sighash,
           SignedSoFar(sigs, size, keys, seen, sighash)
    PROVE  SignedSoFar(sigs, size, keys, seen + 1, sighash)
<1>1. PICK f \in [1 .. size -> 1 .. seen] :
          /\ \A h, j \in DOMAIN f : h < j => f[h] < f[j]
          /\ \A m \in DOMAIN f : sigs[m] = EcdsaBy(keys[f[m]], sighash)
    BY DEF SignedSoFar
<1>2. f \in [1 .. size -> 1 .. seen + 1]
    OBVIOUS
<1> QED BY <1>1, <1>2 DEF SignedSoFar

(* A key that one of the private keys fits, which makes a signature.       *)
LEMMA KeySigned ==
    ASSUME NEW sigs, NEW size \in Nat, NEW keys, NEW seen \in Nat, NEW sighash,
           SignedSoFar(sigs, size, keys, seen, sighash),
           NEW item, item = EcdsaBy(keys[seen + 1], sighash)
    PROVE  SignedSoFar(Append(sigs, item), size + 1, keys, seen + 1, sighash)
<1> DEFINE more == Append(sigs, item)
<1>1. PICK f \in [1 .. size -> 1 .. seen] :
          /\ \A h, j \in DOMAIN f : h < j => f[h] < f[j]
          /\ \A m \in DOMAIN f : sigs[m] = EcdsaBy(keys[f[m]], sighash)
    BY DEF SignedSoFar
<1>2. /\ more = [m \in 1 .. size + 1 |-> more[m]]
      /\ more[size + 1] = item /\ \A m \in 1 .. size : more[m] = sigs[m]
    <2> DEFINE S == {item} \cup { sigs[m] : m \in 1 .. size }
    <2>1. sigs = [m \in 1 .. size |-> sigs[m]]
        BY DEF SignedSoFar, Listed
    <2>2. sigs \in [1 .. size -> S] /\ item \in S
        BY <2>1
    <2> HIDE DEF S
    <2>3. sigs \in Seq(S) /\ Len(sigs) = size /\ item \in S
        BY <2>2
    <2>4. /\ more \in Seq(S) /\ Len(more) = size + 1
          /\ \A m \in 1 .. size : more[m] = sigs[m]
          /\ more[size + 1] = item
        BY <2>3, AppendProperties
    <2> QED BY <2>4
<1> HIDE DEF more
<1> DEFINE g == [m \in 1 .. size + 1 |-> IF m = size + 1 THEN seen + 1 ELSE f[m]]
<1>3. g \in [1 .. size + 1 -> 1 .. seen + 1]
    OBVIOUS
<1>4. \A h, j \in 1 .. size + 1 : h < j => g[h] < g[j]
    <2> SUFFICES ASSUME NEW h \in 1 .. size + 1, NEW j \in 1 .. size + 1, h < j
                 PROVE  g[h] < g[j]
        OBVIOUS
    <2>1. h \in 1 .. size /\ g[h] = f[h] /\ f[h] \in 1 .. seen
        OBVIOUS
    <2>2. CASE j = size + 1
        BY <2>1, <2>2
    <2>3. CASE j # size + 1
        <3>1. j \in 1 .. size /\ g[j] = f[j]
            BY <2>3
        <3> QED BY <1>1, <2>1, <3>1
    <2> QED BY <2>2, <2>3
<1>5. \A m \in 1 .. size + 1 : more[m] = EcdsaBy(keys[g[m]], sighash)
    <2> SUFFICES ASSUME NEW m \in 1 .. size + 1 PROVE more[m] = EcdsaBy(keys[g[m]], sighash)
        OBVIOUS
    <2>1. CASE m = size + 1
        BY <1>2, <2>1
    <2>2. CASE m # size + 1
        <3>1. m \in 1 .. size /\ g[m] = f[m]
            BY <2>2
        <3> QED BY <1>1, <1>2, <3>1
    <2> QED BY <2>1, <2>2
<1>6. DOMAIN g = 1 .. size + 1
    OBVIOUS
<1> HIDE DEF g
<1>7. SignedSoFar(more, size + 1, keys, seen + 1, sighash)
    BY <1>2, <1>3, <1>4, <1>5, <1>6 DEF SignedSoFar, Listed
<1> QED BY <1>7 DEF more

(* After it: enough signatures are as many as the script requires.         *)
LEMMA EnoughKeysSigned ==
    ASSUME NEW sigs, NEW size \in Nat, NEW script, NEW sighash, ParsesMultisig(script),
           SignedSoFar(sigs, size, script.keys, Len(script.keys), sighash),
           Len(sigs) = script.required
    PROVE  SignedInOrder(sigs, script, sighash)
<1>1. size = script.required
    <2>1. Listed(sigs, size)
        BY DEF SignedSoFar
    <2> QED BY <2>1, ListedSize
<1>2. DOMAIN script.keys = 1 .. Len(script.keys)
    BY LenProperties DEF ParsesMultisig
<1> QED BY <1>1, <1>2 DEF SignedSoFar, SignedInOrder

(* The multisig branches of sign_input.                                    *)
LEMMA MultisigSigned ==
    ASSUME AbsentIsNoFunction, call \in Calls, n \in 1 .. Count,
           to_sign.unsigned_tx = RequestTx(call),
           Route \in MultisigRoutes, ParsesMultisig(witness_script),
           SignedInOrder(signatures, witness_script, InputSighash),
           Unsigned(to_sign.inputs[n]), DOMAIN to_sign.inputs[n] = DOMAIN EmptyInput
    PROVE  /\ SignedMap(MultisigInput, call, n)
           /\ SameOutputs(MultisigInput, to_sign.inputs[n])
           /\ DOMAIN MultisigInput = DOMAIN EmptyInput
<1> DEFINE spk == script_pubkey
           script == witness_script
           tx == RequestTx(call)
           value == prevouts[n].value
           old == to_sign.inputs[n]
           new == MultisigInput
           alone == Alone(new, call, n)
           outputs == PrevoutsOf(call)
           sighash == InputSighash
           both == <<EmptyItem>> \o signatures
           items == both \o <<ScriptItem(script)>>
           push == <<ScriptItem(P2wsh(script))>>
<1>1. /\ prevouts = outputs /\ outputs[n].script_pubkey = spk /\ outputs[n].value = value
      /\ spk = RequestedPrevout(call, n).script_pubkey
    BY InputParts DEF script_pubkey
<1>2. script # None /\ script = RequestedScript(call, n)
    BY Routed DEF witness_script
<1>3. /\ Route = "p2wsh" => spk = P2wsh(script)
      /\ Route = "p2sh" => spk = P2sh(script) /\ ScriptLen(script) <= MaxElementSize
      /\ Route = "p2sh_p2wsh" => spk = P2sh(P2wsh(script))
    BY Routed
<1>4. tx = to_sign.unsigned_tx
    OBVIOUS
<1>5. /\ Route \in {"p2wsh", "p2sh_p2wsh"} => sighash = SegwitSighash(tx, n, script, value)
      /\ Route = "p2sh" => sighash = LegacySighash(tx, n, script)
    BY <1>1, <1>4 DEF InputSighash
<1>6. /\ Route = "p2wsh" => new = [old EXCEPT !.final_script_witness = items]
      /\ Route = "p2sh" => new = [old EXCEPT !.final_script_sig = items]
      /\ Route = "p2sh_p2wsh" =>
             new = [old EXCEPT !.final_script_sig = push, !.final_script_witness = items]
    BY DEF MultisigInput
<1>7. /\ ParsesMultisig(script) /\ RoomForMultisig
      /\ SignedInOrder(signatures, script, sighash)
      /\ Joins(both, <<EmptyItem>>, signatures) /\ Joins(items, both, <<ScriptItem(script)>>)
    BY ChainAssumption DEF Joins
<1>8. ASSUME NEW sig, NEW wit, Fills(new, old, sig, wit), sig # None \/ wit # None,
             sig # None => Ordinary(sig), wit # None => Ordinary(wit),
             IsWitnessProgram(spk) => sig = None,
             Algorithm(spk) = "legacy" => ~RequestSpendsWitness(call, n),
             InputSatisfied(alone, outputs, n)
      PROVE  SignedMap(new, call, n) /\ SameOutputs(new, old) /\ DOMAIN new = DOMAIN EmptyInput
    <2>1. SignedMap(new, call, n)
        BY <1>1, <1>8, SignedByItems
    <2> QED BY <1>8, <2>1 DEF Fills
<1>9. ASSUME NEW sig, NEW wit, Fills(new, old, sig, wit)
      PROVE  /\ alone.tx = tx /\ alone.script_sig[n] = ItemsOrNone(sig)
             /\ alone.witness[n] = ItemsOrNone(wit)
    BY <1>9, AloneParts DEF Fills
<1>10. DOMAIN old = DOMAIN EmptyInput /\ Unsigned(old)
    OBVIOUS
<1>11. ItemsOrNone(None) = << >> /\ \A x : x # None => ItemsOrNone(x) = x
    BY DEF ItemsOrNone
<1>12. Ordinary(push) /\ push # None
    BY OrdinaryStacks DEF Ordinary
<1> HIDE DEF both, items, push, spk, script, tx, value, old, new, alone, outputs, sighash
<1>13. /\ items # << >> /\ items # None /\ Last(items) = ScriptItem(script)
       /\ \A j \in DOMAIN items : items[j].kind \in {"empty", "script", "signature"}
       /\ Sequential(items)
       /\ CheckWitnessStack(Front(items))
       /\ ScriptLen(script) <= MaxElementSize =>
              CheckWitnessStack(items) /\ ScriptSigLen(items) <= MaxScriptSize
       /\ \A keys : ScriptStack(script, keys, Front(items), sighash)
    BY <1>7, MultisigSatisfies
<1>14. Ordinary(items) /\ Last(items).data = script
    BY <1>13 DEF Ordinary, ScriptItem
<1>15. Route \in {"p2wsh", "p2sh_p2wsh"} => WitnessSatisfied(P2wsh(script), items, tx, n, value)
    BY <1>5, <1>13, <1>14 DEF WitnessSatisfied
<1>16. /\ script.type = "multisig" /\ P2wsh(script).type = "p2wsh"
       /\ P2wsh(script) # None /\ P2sh(script) # None /\ P2sh(P2wsh(script)) # None
       /\ \A s : P2sh(s).type = "p2sh" /\ P2sh(s).script = s
    BY <1>7, Present DEF ParsesMultisig, P2wsh, P2sh
<1>17. CASE Route = "p2wsh"
    <2>1. spk = P2wsh(script)
        BY <1>3, <1>17
    <2>2. spk.type = "p2wsh" /\ spk # None /\ Unwrapped(spk) = spk
        BY <1>16, <2>1 DEF Unwrapped
    <2>3. Fills(new, old, None, items)
        <3>1. new = [old EXCEPT !.final_script_witness = items]
            BY <1>6, <1>17
        <3> QED BY <1>10, <3>1, FilledMaps
    <2>4. alone.tx = tx /\ alone.script_sig[n] = << >> /\ alone.witness[n] = items
        BY <1>9, <1>11, <1>13, <2>3
    <2>5. WitnessSatisfied(spk, items, tx, n, value)
        BY <1>15, <1>17, <2>1
    <2>6. CheckScript(spk) /\ ScriptSigLen(<< >>) <= MaxScriptSize
        <3>1. CheckScript(spk)
            BY <2>2, ShortScript, ChainAssumption
        <3>2. ScriptSigLen(<< >>) <= MaxScriptSize
            BY ScriptSigsFit, ChainAssumption
        <3> QED BY <3>1, <3>2
    <2>7. InputSatisfied(alone, outputs, n)
        BY <1>1, <2>2, <2>4, <2>5, <2>6 DEF InputSatisfied
    <2>8. Algorithm(spk) # "legacy"
        BY <2>1, WitnessAlgorithms
    <2> QED BY <1>8, <1>13, <1>14, <2>3, <2>7, <2>8 DEF new, old
<1>18. CASE Route = "p2sh"
    <2>1. spk = P2sh(script) /\ ScriptLen(script) <= MaxElementSize
        BY <1>3, <1>18
    <2>2. /\ spk.type = "p2sh" /\ spk # None /\ Unwrapped(spk) # None
          /\ ~IsWitnessProgram(spk)
        BY <1>2, <1>16, <2>1 DEF Unwrapped, IsWitnessProgram
    <2>3. Fills(new, old, items, None)
        <3>1. new = [old EXCEPT !.final_script_sig = items]
            BY <1>6, <1>18
        <3> QED BY <1>10, <3>1, FilledMaps
    <2>4. alone.tx = tx /\ alone.script_sig[n] = items /\ alone.witness[n] = << >>
        BY <1>9, <1>11, <1>13, <2>3
    <2>5. RedeemSatisfied(spk, items, tx, n)
        <3>1. ScriptStack(script, Key, Front(items), LegacySighash(tx, n, script))
            BY <1>5, <1>13, <1>18
        <3> QED BY <1>13, <1>14, <2>1, <3>1 DEF RedeemSatisfied
    <2>6. CheckScript(spk) /\ ScriptSigLen(items) <= MaxScriptSize
        <3>1. CheckScript(spk)
            BY <2>2, ShortScript, ChainAssumption
        <3>2. ScriptSigLen(items) <= MaxScriptSize
            BY <1>13, <2>1
        <3> QED BY <3>1, <3>2
    <2>7. InputSatisfied(alone, outputs, n)
        BY <1>1, <2>2, <2>4, <2>5, <2>6 DEF InputSatisfied
    <2>8. ~RequestSpendsWitness(call, n)
        <3>1. P2shRedeemScript(spk, script) = script
            BY <2>1 DEF P2shRedeemScript
        <3>2. ~IsWitnessProgram(script)
            BY <1>16 DEF IsWitnessProgram
        <3>3. ~SpendsWitness(spk, script)
            BY <1>2, <2>2, <3>2 DEF SpendsWitness
        <3> QED BY <1>1, <1>2, <3>1, <3>3 DEF RequestSpendsWitness
    <2> QED BY <1>8, <1>13, <1>14, <2>2, <2>3, <2>7, <2>8 DEF new, old
<1>19. CASE Route = "p2sh_p2wsh"
    <2>1. spk = P2sh(P2wsh(script))
        BY <1>3, <1>19
    <2>2. /\ spk.type = "p2sh" /\ spk.script = P2wsh(script) /\ spk = P2sh(spk.script)
          /\ spk # None /\ Unwrapped(spk) # None /\ ~IsWitnessProgram(spk)
        BY <1>16, <2>1 DEF Unwrapped, IsWitnessProgram
    <2>3. Fills(new, old, push, items)
        <3>1. new = [old EXCEPT !.final_script_sig = push, !.final_script_witness = items]
            BY <1>6, <1>19
        <3> QED BY <1>10, <3>1, FilledMaps
    <2>4. alone.tx = tx /\ alone.script_sig[n] = push /\ alone.witness[n] = items
        BY <1>9, <1>11, <1>12, <1>13, <2>3
    <2>5. WitnessSatisfied(spk.script, items, tx, n, value)
        BY <1>15, <1>19, <2>2
    <2>6. push = <<ScriptItem(spk.script)>>
        BY <2>2 DEF push
    <2>7. CheckScript(spk) /\ ScriptSigLen(push) <= MaxScriptSize
        <3>1. CheckScript(spk)
            BY <2>2, ShortScript, ChainAssumption
        <3>2. spk.script.type = "p2wsh"
            BY <2>2 DEF P2wsh
        <3>3. ScriptSigLen(push) <= MaxScriptSize
            <4>1. spk.script.type \notin {"script", "multisig"}
                BY <3>2
            <4> QED BY <2>6, <4>1, ScriptSigsFit, ChainAssumption, Zenon
        <3> QED BY <3>1, <3>3
    <2>8. InputSatisfied(alone, outputs, n)
        BY <1>1, <2>2, <2>4, <2>5, <2>6, <2>7 DEF InputSatisfied
    <2>9. Algorithm(spk) # "legacy"
        BY <2>1, WitnessAlgorithms
    <2> QED BY <1>8, <1>12, <1>13, <1>14, <2>2, <2>3, <2>8, <2>9 DEF new, old
<1> QED BY <1>17, <1>18, <1>19 DEF MultisigRoutes, new, old

-----------------------------------------------------------------------------
(* The PSBT, from its creation on.                                         *)

LEMMA StartMaps ==
    ASSUME NEW c, NEW j
    PROVE  DOMAIN StartMap(c, j) = DOMAIN EmptyInput /\ Unsigned(StartMap(c, j))
<1>1. /\ DOMAIN ChallengeInputMap(c) = DOMAIN EmptyInput /\ Unsigned(ChallengeInputMap(c))
    BY DEF ChallengeInputMap, EmptyInput, Unsigned
<1>2. \A input : DOMAIN ProofInputMap(input) = DOMAIN EmptyInput /\ Unsigned(ProofInputMap(input))
    BY DEF ProofInputMap, EmptyInput, Unsigned
<1> QED BY <1>1, <1>2 DEF StartMap

LEMMA ProofPsbtMade ==
    ASSUME NEW c \in Calls
    PROVE  PsbtSoFar(CreateProofPsbt(c), c) /\ SignedUpTo(CreateProofPsbt(c), c, 1, FALSE)
<1> DEFINE psbt == CreateProofPsbt(c)
           size == Len(c.inputs) + 1
<1>1. /\ psbt.unsigned_tx = RequestTx(c) /\ psbt.message = c.message /\ psbt.outputs = 1
      /\ DOMAIN psbt = {"unsigned_tx", "message", "inputs", "outputs"}
      /\ Len(psbt.inputs) = size /\ DOMAIN psbt.inputs = 1 .. size
      /\ \A j \in 1 .. size : psbt.inputs[j] = StartMap(c, j)
    BY CallIsRequest, Requested
<1>2. \A j \in 1 .. size : ~(j < 1)
    BY CallIsRequest
<1> HIDE DEF psbt, size
<1>3. PsbtSoFar(psbt, c)
    BY <1>1 DEF PsbtSoFar, size
<1>4. \A j \in 1 .. size : MapSoFar(psbt.inputs[j], c, j, j < 1 \/ FALSE)
    BY <1>1, <1>2, StartMaps DEF MapSoFar, SameOutputs
<1> QED BY <1>3, <1>4 DEF SignedUpTo, psbt, size

LEMMA ToSignMade ==
    ASSUME call \in Calls, call.format # "pof"
    PROVE  PsbtSoFar(CreateToSign, call) /\ SignedUpTo(CreateToSign, call, 1, FALSE)
<1> DEFINE map == [EmptyInput EXCEPT !.witness_utxo = TxOut(0, call.challenge)]
           maps == <<map>>
           tx == RequestTx(call)
           size == Len(call.inputs) + 1
           psbt == CreateToSign
<1>1. size = 1
    <2>1. call.inputs = << >>
        BY CallAssumption
    <2> QED BY <2>1
<1>2. Len(tx.output) = 1
    <2>1. tx.output = <<TxOut(0, OpReturn)>>
        BY CallIsRequest, Requested
    <2> QED BY <2>1
<1>3. DOMAIN map = DOMAIN EmptyInput /\ Unsigned(map)
    BY DEF EmptyInput, Unsigned
<1> HIDE DEF map
<1>4. Len(maps) = 1 /\ DOMAIN maps = 1 .. 1 /\ maps[1] = map
    OBVIOUS
<1> HIDE DEF maps, tx
<1>5. psbt = [unsigned_tx |-> tx, message |-> None, inputs |-> maps, outputs |-> Len(tx.output)]
    BY DEF CreateToSign, Psbt, map, maps, tx
<1> HIDE DEF psbt
<1>6. /\ DOMAIN psbt = {"unsigned_tx", "message", "inputs", "outputs"}
      /\ psbt.unsigned_tx = tx /\ psbt.inputs = maps /\ psbt.outputs = 1
    BY <1>2, <1>5
<1>7. PsbtSoFar(psbt, call)
    BY <1>1, <1>4, <1>6 DEF PsbtSoFar, tx, size
<1>8. \A j \in 1 .. size : MapSoFar(psbt.inputs[j], call, j, j < 1 \/ FALSE)
    <2>1. \A j \in 1 .. size : j = 1 /\ ~(j < 1)
        BY <1>1
    <2>2. \A j \in 1 .. size : psbt.inputs[j] = map
        BY <1>4, <1>6, <2>1
    <2> QED BY <1>3, <2>1, <2>2 DEF MapSoFar
<1> QED BY <1>7, <1>8 DEF SignedUpTo, psbt, size

(* An input is finished: it is satisfied, and the others are as they were. *)
LEMMA MapPlaced ==
    ASSUME NEW c \in Calls, NEW j \in 1 .. Len(c.inputs) + 1,
           NEW psbt, PsbtSoFar(psbt, c), SignedUpTo(psbt, c, j, FALSE),
           NEW map, SignedMap(map, c, j), SameOutputs(map, psbt.inputs[j]),
           DOMAIN map = DOMAIN EmptyInput,
           NEW after, after = [psbt EXCEPT !.inputs[j] = map]
    PROVE  /\ PsbtSoFar(after, c)
           /\ j < Len(c.inputs) + 1 => SignedUpTo(after, c, j + 1, FALSE)
           /\ ~(j < Len(c.inputs) + 1) => SignedUpTo(after, c, j, TRUE)
<1> DEFINE size == Len(c.inputs) + 1
           maps == [psbt.inputs EXCEPT ![j] = map]
<1>1. size \in Nat
    BY CallIsRequest
<1>2. /\ DOMAIN psbt = {"unsigned_tx", "message", "inputs", "outputs"}
      /\ DOMAIN psbt.inputs = 1 .. size
    BY DEF PsbtSoFar
<1>3. /\ DOMAIN after = DOMAIN psbt /\ after.inputs = maps
      /\ after.unsigned_tx = psbt.unsigned_tx /\ after.message = psbt.message
      /\ after.outputs = psbt.outputs
    BY <1>2
<1>4. /\ DOMAIN maps = 1 .. size /\ maps[j] = map
      /\ \A h \in 1 .. size : h # j => maps[h] = psbt.inputs[h]
    BY <1>2
<1>5. Listed(maps, size)
    BY <1>2 DEF Listed
<1>6. \A h \in 1 .. size : MapSoFar(psbt.inputs[h], c, h, h < j \/ FALSE)
    BY DEF SignedUpTo
<1> HIDE DEF size, maps
<1>7. Len(maps) = size
    BY <1>1, <1>5, ListedSize
<1>8. PsbtSoFar(after, c)
    BY <1>3, <1>4, <1>7 DEF PsbtSoFar, size
<1>9. MapSoFar(map, c, j, TRUE)
    BY <1>6 DEF MapSoFar, SameOutputs, size
<1>10. ASSUME j < size, NEW h \in 1 .. size
       PROVE  MapSoFar(maps[h], c, h, h < j + 1 \/ FALSE)
    <2>1. CASE h = j
        <3>1. h < j + 1
            BY <2>1
        <3> QED BY <1>4, <1>9, <2>1, <3>1
    <2>2. CASE h # j
        <3>1. (h < j + 1 \/ FALSE) <=> (h < j \/ FALSE)
            BY <2>2
        <3>2. MapSoFar(psbt.inputs[h], c, h, h < j \/ FALSE)
            BY <1>6
        <3> QED BY <1>4, <2>2, <3>1, <3>2 DEF MapSoFar
    <2> QED BY <2>1, <2>2
<1>11. ASSUME ~(j < size), NEW h \in 1 .. size
       PROVE  MapSoFar(maps[h], c, h, h < j \/ TRUE)
    <2>1. CASE h = j
        BY <1>4, <1>9, <2>1 DEF MapSoFar
    <2>2. CASE h # j
        <3>1. h < j
            BY <1>1, <1>11, <2>2 DEF size
        <3>2. MapSoFar(psbt.inputs[h], c, h, h < j \/ FALSE)
            BY <1>6
        <3> QED BY <1>4, <2>2, <3>1, <3>2 DEF MapSoFar
    <2> QED BY <2>1, <2>2
<1>12. j < size => SignedUpTo(after, c, j + 1, FALSE)
    BY <1>3, <1>10 DEF SignedUpTo, size
<1>13. ~(j < size) => SignedUpTo(after, c, j, TRUE)
    BY <1>3, <1>11 DEF SignedUpTo, size
<1> QED BY <1>8, <1>12, <1>13 DEF size

-----------------------------------------------------------------------------
(* Every step keeps the invariant.                                         *)

LEMMA AtInput ==
    ASSUME DirectInv, pc \in {"input", "keys"}
    PROVE  /\ call \in Calls /\ n \in 1 .. Count /\ n \in 1 .. Len(call.inputs) + 1
           /\ result = "pending" /\ CallAccepted
           /\ PsbtSoFar(to_sign, call) /\ SignedUpTo(to_sign, call, n, FALSE)
           /\ to_sign.unsigned_tx = RequestTx(call)
           /\ DOMAIN to_sign.inputs[n] = DOMAIN EmptyInput /\ Unsigned(to_sign.inputs[n])
<1>1. call \in Calls /\ n \in 1 .. Count /\ result = "pending"
    BY DEF DirectInv
<1>2. n \in 1 .. Len(call.inputs) + 1
    BY <1>1 DEF Count
<1>3. CallAccepted /\ PsbtSoFar(to_sign, call) /\ SignedUpTo(to_sign, call, n, result = "ok")
    BY <1>1 DEF DirectInv, Accepting
<1>4. SignedUpTo(to_sign, call, n, FALSE)
    BY <1>1, <1>3 DEF SignedUpTo, MapSoFar
<1>5. ~(n < n \/ FALSE)
    BY <1>2, CallIsRequest, <1>1
<1>6. MapSoFar(to_sign.inputs[n], call, n, n < n \/ FALSE)
    BY <1>2, <1>4 DEF SignedUpTo
<1>7. DOMAIN to_sign.inputs[n] = DOMAIN EmptyInput /\ Unsigned(to_sign.inputs[n])
    BY <1>5, <1>6 DEF MapSoFar
<1>8. to_sign.unsigned_tx = RequestTx(call)
    BY <1>3 DEF PsbtSoFar
<1> QED BY <1>1, <1>2, <1>3, <1>4, <1>7, <1>8

LEMMA Refused == ASSUME DirectInv, Refuse PROVE DirectInv'
BY DEF DirectInv, Refuse, Accepting, Count

(* The input that is looked at is the same before and after the step.      *)
LEMMA SameInput ==
    ASSUME UNCHANGED <<call, n, to_sign>>
    PROVE  /\ Route' = Route /\ InputSighash' = InputSighash
           /\ witness_script' = witness_script /\ private_keys' = private_keys
           /\ SignersAccepted' = SignersAccepted /\ CallAccepted' = CallAccepted
           /\ Count' = Count
<1>1. call' = call /\ n' = n /\ to_sign' = to_sign
    OBVIOUS
<1>2. Count' = Count
    BY <1>1 DEF Count
<1>3. /\ witness_script' = witness_script /\ private_keys' = private_keys
      /\ prevouts' = prevouts
    BY <1>1, <1>2 DEF witness_script, private_keys, prevouts
<1>4. script_pubkey' = script_pubkey
    BY <1>1, <1>3 DEF script_pubkey
<1>5. Route' = Route
    BY <1>3, <1>4 DEF Route
<1>6. InputSighash' = InputSighash
    BY <1>1, <1>3, <1>4, <1>5 DEF InputSighash
<1>7. SignersAccepted' = SignersAccepted
    BY <1>3 DEF SignersAccepted
<1>8. CallAccepted' = CallAccepted
    BY <1>1 DEF CallAccepted
<1> QED BY <1>2, <1>3, <1>5, <1>6, <1>7, <1>8

LEMMA CreateStep == ASSUME DirectInv, Create PROVE DirectInv'
<1>1. CASE ~CallAccepted
    BY <1>1, Refused DEF Create
<1>2. CASE CallAccepted
    <2>1. /\ pc = "create" /\ pc' = "input" /\ UNCHANGED <<call, n, k, used, signatures, result>>
          /\ to_sign' = IF call.format = "pof" THEN CreateProofPsbt(call) ELSE CreateToSign
        BY <1>2 DEF Create
    <2>2. call \in Calls /\ n = 1 /\ n \in 1 .. Count /\ result = "pending"
          /\ k = 0 /\ used = {} /\ signatures = << >>
        BY <2>1 DEF DirectInv
    <2>3. PsbtSoFar(to_sign', call) /\ SignedUpTo(to_sign', call, 1, FALSE)
        BY <2>1, <2>2, ProofPsbtMade, ToSignMade
    <2>4. CallAccepted' /\ Count' = Count
        BY <1>2, <2>1 DEF CallAccepted, Count
    <2>5. SignedUpTo(to_sign', call', n', result' = "ok")
        BY <2>1, <2>2, <2>3 DEF SignedUpTo, MapSoFar
    <2> QED BY <2>1, <2>2, <2>3, <2>4, <2>5 DEF DirectInv, Accepting
<1> QED BY <1>1, <1>2

LEMMA PlaceStep ==
    ASSUME DirectInv, pc \in {"input", "keys"},
           NEW map, SignedMap(map, call, n), SameOutputs(map, to_sign.inputs[n]),
           DOMAIN map = DOMAIN EmptyInput, PlaceInput(map)
    PROVE  DirectInv'
<1>1. /\ call \in Calls /\ n \in 1 .. Len(call.inputs) + 1 /\ result = "pending"
      /\ CallAccepted /\ PsbtSoFar(to_sign, call) /\ SignedUpTo(to_sign, call, n, FALSE)
    BY AtInput
<1>2. /\ call' = call /\ k' = 0 /\ used' = {} /\ signatures' = << >>
      /\ to_sign' = [to_sign EXCEPT !.inputs[n] = map]
      /\ IF n < Count THEN n' = n + 1 /\ pc' = "input" /\ result' = result
         ELSE n' = n /\ pc' = "done" /\ result' = "ok"
    BY DEF PlaceInput
<1>3. Count = Len(call.inputs) + 1 /\ Count' = Count /\ Count \in Nat
    BY <1>1, <1>2, CallIsRequest DEF Count
<1>4. /\ PsbtSoFar(to_sign', call)
      /\ n < Count => SignedUpTo(to_sign', call, n + 1, FALSE)
      /\ ~(n < Count) => SignedUpTo(to_sign', call, n, TRUE)
    BY <1>1, <1>2, <1>3, MapPlaced
<1>5. CallAccepted'
    BY <1>1, <1>2 DEF CallAccepted
<1>6. CASE n < Count
    <2>1. n' = n + 1 /\ pc' = "input" /\ result' = "pending" /\ n' \in 1 .. Count
        BY <1>1, <1>2, <1>3, <1>6
    <2>2. SignedUpTo(to_sign', call', n', result' = "ok")
        BY <1>2, <1>4, <1>6, <2>1 DEF SignedUpTo, MapSoFar
    <2> QED BY <1>1, <1>2, <1>3, <1>4, <1>5, <2>1, <2>2 DEF DirectInv, Accepting
<1>7. CASE ~(n < Count)
    <2>1. n' = n /\ pc' = "done" /\ result' = "ok" /\ n' \in 1 .. Count
        BY <1>1, <1>2, <1>3, <1>7
    <2>2. SignedUpTo(to_sign', call', n', result' = "ok")
        BY <1>2, <1>4, <1>7, <2>1 DEF SignedUpTo, MapSoFar
    <2> QED BY <1>1, <1>2, <1>3, <1>4, <1>5, <2>1, <2>2 DEF DirectInv, Accepting
<1> QED BY <1>6, <1>7

LEMMA SingleKeyStep ==
    ASSUME AbsentIsNoFunction, DirectInv, SignSingleKey PROVE DirectInv'
<1>1. pc = "input" /\ Route \in SingleKeyRoutes
    BY DEF SignSingleKey
<1>2. CASE ~SingleKeyAccepted
    BY <1>2, Refused DEF SignSingleKey
<1>3. CASE SingleKeyAccepted
    <2>1. PlaceInput(SingleKeyInput)
        BY <1>3 DEF SignSingleKey
    <2>2. /\ call \in Calls /\ n \in 1 .. Count /\ to_sign.unsigned_tx = RequestTx(call)
          /\ DOMAIN to_sign.inputs[n] = DOMAIN EmptyInput /\ Unsigned(to_sign.inputs[n])
        BY <1>1, AtInput
    <2>3. /\ SignedMap(SingleKeyInput, call, n)
          /\ SameOutputs(SingleKeyInput, to_sign.inputs[n])
          /\ DOMAIN SingleKeyInput = DOMAIN EmptyInput
        BY <1>1, <1>3, <2>2, SingleKeySigned
    <2> QED BY <1>1, <2>1, <2>3, PlaceStep
<1> QED BY <1>2, <1>3

LEMMA StartStep == ASSUME DirectInv, StartMultisig PROVE DirectInv'
<1>1. pc = "input" /\ Route \in MultisigRoutes
    BY DEF StartMultisig
<1>2. CASE ~SignersAccepted
    BY <1>2, Refused DEF StartMultisig
<1>3. CASE SignersAccepted
    <2>1. pc' = "keys" /\ UNCHANGED <<call, n, to_sign, k, used, signatures, result>>
        BY <1>3 DEF StartMultisig
    <2>2. /\ call \in Calls /\ n \in 1 .. Count /\ result = "pending" /\ CallAccepted
          /\ PsbtSoFar(to_sign, call) /\ SignedUpTo(to_sign, call, n, result = "ok")
          /\ k = 0 /\ used = {} /\ signatures = << >>
        BY <1>1 DEF DirectInv, Accepting
    <2>3. /\ Route' = Route /\ InputSighash' = InputSighash
          /\ witness_script' = witness_script /\ private_keys' = private_keys
          /\ SignersAccepted' = SignersAccepted /\ CallAccepted' = CallAccepted
          /\ Count' = Count
        BY <2>1, SameInput
    <2>4. 0 \in 0 .. Len(witness_script.keys)
        BY <1>3, LenProperties DEF SignersAccepted, ParsesMultisig
    <2>5. IsFiniteSet({}) /\ Cardinality({}) = 0
        BY FS_EmptySet
    <2>6. SignedSoFar(<< >>, 0, witness_script.keys, 0, InputSighash)
        BY NoneSigned
    <2>7. LoopInv'
        BY <1>1, <1>3, <2>1, <2>2, <2>3, <2>4, <2>5, <2>6 DEF LoopInv
    <2> QED BY <2>1, <2>2, <2>3, <2>7 DEF DirectInv, Accepting
<1> QED BY <1>2, <1>3

LEMMA TryStep == ASSUME DirectInv, TryPubkey PROVE DirectInv'
<1> DEFINE keys == witness_script.keys
           size == Cardinality(used)
           sighash == InputSighash
<1>1. /\ pc = "keys" /\ k < Len(keys) /\ k' = k + 1
      /\ UNCHANGED <<call, pc, n, to_sign, result>>
    BY DEF TryPubkey
<1>2. /\ call \in Calls /\ n \in 1 .. Count /\ result = "pending" /\ CallAccepted
      /\ PsbtSoFar(to_sign, call) /\ SignedUpTo(to_sign, call, n, result = "ok")
      /\ LoopInv
    BY <1>1 DEF DirectInv, Accepting
<1>3. /\ Route' = Route /\ InputSighash' = InputSighash
      /\ witness_script' = witness_script /\ private_keys' = private_keys
      /\ SignersAccepted' = SignersAccepted /\ CallAccepted' = CallAccepted
      /\ Count' = Count
    BY <1>1, SameInput
<1>4. /\ Route \in MultisigRoutes /\ SignersAccepted /\ k \in 0 .. Len(keys)
      /\ used \subseteq DOMAIN private_keys /\ IsFiniteSet(used)
      /\ SignedSoFar(signatures, size, keys, k, sighash)
    BY <1>2 DEF LoopInv
<1>5. /\ size \in Nat /\ k \in Nat /\ Len(keys) \in Nat /\ k + 1 \in 0 .. Len(keys)
    <2>1. Len(keys) \in Nat
        BY <1>4, LenProperties DEF SignersAccepted, ParsesMultisig
    <2>2. size \in Nat
        BY <1>4, FS_CardinalityType
    <2> HIDE DEF keys
    <2> QED BY <1>1, <1>4, <2>1, <2>2
<1>6. ASSUME used' \subseteq DOMAIN private_keys, IsFiniteSet(used'),
             SignedSoFar(signatures', Cardinality(used'), keys, k + 1, sighash)
      PROVE  DirectInv'
    <2>1. LoopInv'
        BY <1>1, <1>3, <1>4, <1>5, <1>6 DEF LoopInv
    <2> QED BY <1>1, <1>2, <1>3, <2>1 DEF DirectInv, Accepting
<1>7. CASE Fitting = {} /\ UNCHANGED <<used, signatures>>
    <2> HIDE DEF keys, size, sighash
    <2>1. SignedSoFar(signatures, size, keys, k + 1, sighash)
        BY <1>4, <1>5, KeySkipped
    <2> QED BY <1>4, <1>6, <1>7, <2>1 DEF size
<1>8. CASE \E h \in Fitting :
               /\ \A j \in Fitting : h <= j
               /\ used' = used \cup {h}
               /\ signatures' = Append(signatures, EcdsaItem(private_keys[h]))
    <2>1. PICK h \in Fitting : /\ used' = used \cup {h}
                               /\ signatures' = Append(signatures, EcdsaItem(private_keys[h]))
        BY <1>8
    <2>2. h \in DOMAIN private_keys /\ h \notin used /\ Point[private_keys[h]] = Point[keys[k + 1]]
        BY <2>1 DEF Fitting
    <2> DEFINE item == EcdsaItem(private_keys[h])
    <2>3. item = EcdsaBy(keys[k + 1], sighash)
        BY <2>2 DEF EcdsaItem, EcdsaBy
    <2>4. signatures' = Append(signatures, item)
        BY <2>1
    <2> HIDE DEF keys, size, sighash, item
    <2>5. SignedSoFar(Append(signatures, item), size + 1, keys, k + 1, sighash)
        BY <1>4, <1>5, <2>3, KeySigned
    <2>6. IsFiniteSet(used') /\ Cardinality(used') = size + 1
        BY <1>4, <2>1, <2>2, FS_AddElement DEF size
    <2>7. used' \subseteq DOMAIN private_keys
        BY <1>4, <2>1, <2>2
    <2>8. SignedSoFar(signatures', Cardinality(used'), keys, k + 1, sighash)
        BY <2>4, <2>5, <2>6
    <2> QED BY <1>6, <2>6, <2>7, <2>8
<1> QED BY <1>7, <1>8 DEF TryPubkey

LEMMA FinishStep ==
    ASSUME AbsentIsNoFunction, DirectInv, FinishMultisig PROVE DirectInv'
<1>1. pc = "keys" /\ k = Len(witness_script.keys)
    BY DEF FinishMultisig
<1>2. CASE Len(signatures) # witness_script.required
    BY <1>2, Refused DEF FinishMultisig
<1>3. CASE Len(signatures) = witness_script.required
    <2>1. PlaceInput(MultisigInput)
        BY <1>3 DEF FinishMultisig
    <2>2. /\ call \in Calls /\ n \in 1 .. Count /\ to_sign.unsigned_tx = RequestTx(call)
          /\ DOMAIN to_sign.inputs[n] = DOMAIN EmptyInput /\ Unsigned(to_sign.inputs[n])
        BY <1>1, AtInput
    <2>3. /\ Route \in MultisigRoutes /\ ParsesMultisig(witness_script) /\ IsFiniteSet(used)
          /\ SignedSoFar(signatures, Cardinality(used), witness_script.keys, k, InputSighash)
        BY <1>1 DEF DirectInv, LoopInv, SignersAccepted
    <2>4. Cardinality(used) \in Nat
        BY <2>3, FS_CardinalityType
    <2>5. SignedInOrder(signatures, witness_script, InputSighash)
        BY <1>1, <1>3, <2>3, <2>4, EnoughKeysSigned
    <2>6. /\ SignedMap(MultisigInput, call, n)
          /\ SameOutputs(MultisigInput, to_sign.inputs[n])
          /\ DOMAIN MultisigInput = DOMAIN EmptyInput
        BY <2>2, <2>3, <2>5, MultisigSigned
    <2> QED BY <1>1, <2>1, <2>6, PlaceStep
<1> QED BY <1>2, <1>3

LEMMA DirectInvariant == ASSUME AbsentIsNoFunction PROVE Spec => []DirectInv
<1>1. Init => DirectInv
    <2> SUFFICES ASSUME Init PROVE DirectInv
        OBVIOUS
    <2>1. call \in Calls /\ n = 1 /\ pc = "create" /\ result = "pending"
          /\ k = 0 /\ used = {} /\ signatures = << >>
        BY DEF Init
    <2>2. 1 \in 1 .. Count
        BY <2>1, CallIsRequest DEF Count
    <2> QED BY <2>1, <2>2 DEF DirectInv, Accepting
<1>2. DirectInv /\ [Next]_vars => DirectInv'
    <2> SUFFICES ASSUME DirectInv, [Next]_vars PROVE DirectInv'
        OBVIOUS
    <2>1. CASE Create
        BY <2>1, CreateStep
    <2>2. CASE SignSingleKey
        BY <2>2, SingleKeyStep
    <2>3. CASE StartMultisig
        BY <2>3, StartStep
    <2>4. CASE RefuseInput
        BY <2>4, Refused DEF RefuseInput
    <2>5. CASE TryPubkey
        BY <2>5, TryStep
    <2>6. CASE FinishMultisig
        BY <2>6, FinishStep
    <2>7. CASE UNCHANGED vars
        <3>1. /\ UNCHANGED <<call, n, to_sign>>
              /\ UNCHANGED <<pc, k, used, signatures, result>>
            BY <2>7 DEF vars
        <3>2. /\ Route' = Route /\ InputSighash' = InputSighash
              /\ witness_script' = witness_script /\ private_keys' = private_keys
              /\ SignersAccepted' = SignersAccepted /\ CallAccepted' = CallAccepted
              /\ Count' = Count
            BY <3>1, SameInput
        <3>3. LoopInv' = LoopInv
            BY <3>1, <3>2 DEF LoopInv
        <3> QED BY <3>1, <3>2, <3>3 DEF DirectInv, Accepting
    <2> QED BY <2>1, <2>2, <2>3, <2>4, <2>5, <2>6, <2>7 DEF Next
<1> QED BY <1>1, <1>2, PTL DEF Spec

(* TypeOK, for every call.                                                 *)
THEOREM TypeCorrect == ASSUME AbsentIsNoFunction PROVE Spec => []TypeOK
<1>1. DirectInv => TypeOK
    <2> SUFFICES ASSUME DirectInv PROVE TypeOK
        OBVIOUS
    <2>1. /\ pc \in {"create", "input", "keys", "done"} /\ n \in 1 .. Count
          /\ pc # "done" => result = "pending"
          /\ pc # "keys" => (result = "refused" \/ signatures = << >>)
        BY DEF DirectInv
    <2>2. ASSUME pc = "keys"
          PROVE  /\ k \in 0 .. Len(witness_script.keys)
                 /\ used \subseteq DOMAIN private_keys
                 /\ Len(signatures) = Cardinality(used)
        <3>1. /\ k \in 0 .. Len(witness_script.keys)
              /\ used \subseteq DOMAIN private_keys /\ IsFiniteSet(used)
              /\ Listed(signatures, Cardinality(used))
            BY <2>2 DEF DirectInv, LoopInv, SignedSoFar
        <3> QED BY <3>1, FS_CardinalityType, ListedSize
    <2>3. ASSUME result = "ok", NEW j \in 1 .. Count
          PROVE  \/ to_sign.inputs[j].final_script_sig # None
                 \/ to_sign.inputs[j].final_script_witness # None
        <3>1. pc # "create" /\ SignedUpTo(to_sign, call, n, result = "ok")
            BY <2>1, <2>3 DEF DirectInv, Accepting
        <3>2. SignedMap(to_sign.inputs[j], call, j)
            BY <2>3, <3>1 DEF SignedUpTo, MapSoFar, Count
        <3> QED BY <3>2 DEF SignedMap
    <2> QED BY <2>1, <2>2, <2>3 DEF TypeOK
<1> QED BY <1>1, DirectInvariant, PTL

-----------------------------------------------------------------------------
(* What the verifier makes of the proof.                                   *)

(* An input is judged by what is its own.                                  *)
LEMMA SameItems ==
    ASSUME NEW a, NEW b, NEW outputs, NEW j,
           a.tx = b.tx, a.script_sig[j] = b.script_sig[j], a.witness[j] = b.witness[j],
           InputOK(a, j), InputSatisfied(a, outputs, j)
    PROVE  InputOK(b, j) /\ InputSatisfied(b, outputs, j)
BY DEF InputOK, InputSatisfied

LEMMA SignedMapAccepted ==
    ASSUME NEW c \in Calls, NEW j \in 1 .. Len(c.inputs) + 1, NEW map, SignedMap(map, c, j),
           NEW proved, proved.tx = RequestTx(c),
           proved.script_sig[j] = ItemsOrNone(map.final_script_sig),
           proved.witness[j] = ItemsOrNone(map.final_script_witness)
    PROVE  /\ Accepted(proved, PrevoutsOf(c), j, Parse(proved, PrevoutsOf(c), j))
           /\ \/ IsWitnessSpend(Parse(proved, PrevoutsOf(c), j))
              \/ ~RequestSpendsWitness(c, j)
<1> DEFINE alone == Alone(map, c, j)
           outputs == PrevoutsOf(c)
<1>1. /\ alone.tx = proved.tx /\ alone.script_sig[j] = proved.script_sig[j]
      /\ alone.witness[j] = proved.witness[j]
    BY AloneParts
<1>2. InputOK(alone, j) /\ InputSatisfied(alone, outputs, j)
    BY DEF SignedMap
<1>3. outputs[j].script_pubkey = RequestedPrevout(c, j).script_pubkey
    BY CallIsRequest
<1> HIDE DEF alone, outputs
<1>4. InputOK(proved, j) /\ InputSatisfied(proved, outputs, j)
    BY <1>1, <1>2, SameItems
<1>5. Accepted(proved, outputs, j, Parse(proved, outputs, j))
    BY <1>4, SatisfiedInputIsValid
<1>6. IsWitnessSpend(Parse(proved, outputs, j)) \/ ~RequestSpendsWitness(c, j)
    BY <1>3, <1>5 DEF Accepted, SignedMap
<1> QED BY <1>5, <1>6 DEF outputs

(* What is extracted of a finished PSBT.                                   *)
LEMMA ExtractedAccepted ==
    ASSUME NEW c \in Calls, NEW psbt, PsbtSoFar(psbt, c), NEW input,
           SignedUpTo(psbt, c, input, TRUE)
    PROVE  LET proved == ExtractTx(psbt) outputs == PrevoutsOf(c) IN
               /\ proved.tx = RequestTx(c)
               /\ \A j \in 1 .. Len(c.inputs) + 1 :
                      /\ Accepted(proved, outputs, j, Parse(proved, outputs, j))
                      /\ IsWitnessSpend(Parse(proved, outputs, j)) \/ ~RequestSpendsWitness(c, j)
               /\ VerifySpends(proved, outputs, ParseSpends(proved, outputs)) = "Valid"
<1> DEFINE proved == ExtractTx(psbt)
           outputs == PrevoutsOf(c)
           size == Len(c.inputs) + 1
<1>1. DOMAIN psbt.inputs = 1 .. size /\ psbt.unsigned_tx = RequestTx(c)
    BY DEF PsbtSoFar
<1>2. /\ proved.tx = RequestTx(c)
      /\ \A j \in 1 .. size :
             /\ proved.script_sig[j] = ItemsOrNone(psbt.inputs[j].final_script_sig)
             /\ proved.witness[j] = ItemsOrNone(psbt.inputs[j].final_script_witness)
    BY <1>1 DEF ExtractTx, ItemsOrNone
<1>3. \A j \in 1 .. size : SignedMap(psbt.inputs[j], c, j)
    BY DEF SignedUpTo, MapSoFar
<1> HIDE DEF proved
<1>4. \A j \in 1 .. size :
          /\ Accepted(proved, outputs, j, Parse(proved, outputs, j))
          /\ IsWitnessSpend(Parse(proved, outputs, j)) \/ ~RequestSpendsWitness(c, j)
    BY <1>2, <1>3, SignedMapAccepted
<1>5. RequestTx(c).version \in {0, 2} /\ DOMAIN RequestTx(c).input = 1 .. size
    BY CallIsRequest, Requested
<1>6. VerifySpends(proved, outputs, ParseSpends(proved, outputs)) = "Valid"
    BY <1>2, <1>4, <1>5, AcceptedSpends
<1> QED BY <1>2, <1>4, <1>6 DEF proved, size

(* A signed to_sign alone: of the full format, and what a simple proof     *)
(* stands for.                                                             *)
LEMMA AloneVerifies ==
    ASSUME NEW c \in Calls, c.inputs = << >>, NEW map, SignedMap(map, c, 1),
           NEW proved, proved.tx = RequestTx(c),
           proved.script_sig[1] = ItemsOrNone(map.final_script_sig),
           proved.witness[1] = ItemsOrNone(map.final_script_witness)
    PROVE  VerifyFull(c.challenge, c.message, proved) = "Valid"
<1> DEFINE outputs == PrevoutsOf(c)
           tx == RequestTx(c)
<1>1. Len(c.inputs) = 0 /\ Len(c.inputs) + 1 = 1
    OBVIOUS
<1>2. outputs = <<TxOut(0, c.challenge)>>
    <2>1. outputs = [j \in 1 .. 1 |-> RequestedPrevout(c, j)]
        BY <1>1 DEF PrevoutsOf
    <2>2. \A j \in 1 .. 1 : RequestedPrevout(c, j) = TxOut(0, c.challenge)
        BY DEF RequestedPrevout
    <2> QED BY <2>1, <2>2
<1>3. /\ Len(tx.input) = 1 /\ DOMAIN tx.input = 1 .. 1 /\ tx.version \in {0, 2}
      /\ tx.input[1].previous_output = [txid |-> ToSpend(c.challenge, c.message), vout |-> 0]
      /\ tx.output = <<TxOut(0, OpReturn)>>
    BY <1>1, CallIsRequest, Requested
<1>4. 1 \in 1 .. Len(c.inputs) + 1
    BY <1>1
<1>5. Accepted(proved, outputs, 1, Parse(proved, outputs, 1))
    BY <1>4, SignedMapAccepted
<1>6. proved.tx = tx
    OBVIOUS
<1> HIDE DEF outputs, tx
<1>7. VerifySpends(proved, outputs, ParseSpends(proved, outputs)) = "Valid"
    <2>1. \A j \in DOMAIN proved.tx.input : j = 1
        BY <1>3, <1>6
    <2>2. \A j \in DOMAIN proved.tx.input : Accepted(proved, outputs, j, Parse(proved, outputs, j))
        BY <1>5, <2>1
    <2>3. proved.tx.version \in {0, 2}
        BY <1>3, <1>6
    <2> QED BY <2>2, <2>3, AcceptedSpends
<1>8. ParseSpends(proved, outputs)[1] # Malformed
    BY <1>3, <1>5, <1>6 DEF ParseSpends, Accepted
<1>9. CheckToSign(c.challenge, c.message, proved)
    BY <1>3, <1>6 DEF CheckToSign, SpendsChallenge, IsBip322Output
<1> QED BY <1>2, <1>7, <1>8, <1>9 DEF VerifyFull

(* The finished PSBT of a proof of funds.                                  *)
LEMMA PofVerifies ==
    ASSUME AbsentIsNoFunction, NEW c \in Calls, c.format = "pof", c.inputs # << >>,
           CreateProofAccepted(c), NEW psbt, PsbtSoFar(psbt, c), NEW input,
           SignedUpTo(psbt, c, input, TRUE)
    PROVE  VerifyPof(c.challenge, c.message, psbt) = "Valid" <=> ClaimsAgree(c)
<1> DEFINE proved == ExtractTx(psbt)
           outputs == PrevoutsOf(c)
           size == Len(c.inputs) + 1
           tx == RequestTx(c)
           spends == ParseSpends(proved, outputs)
<1>1. /\ psbt.unsigned_tx = tx /\ psbt.outputs = 1 /\ psbt.message = c.message
      /\ Len(psbt.inputs) = size /\ DOMAIN psbt.inputs = 1 .. size
    BY DEF PsbtSoFar
<1>2. /\ Len(tx.input) = size /\ DOMAIN tx.input = 1 .. size
      /\ tx.input[1].previous_output = [txid |-> ToSpend(c.challenge, c.message), vout |-> 0]
      /\ tx.output = <<TxOut(0, OpReturn)>> /\ Len(tx.output) = 1
    <2>1. tx.output = <<TxOut(0, OpReturn)>>
        BY CallIsRequest, Requested
    <2>2. Len(tx.output) = 1
        BY <2>1
    <2> QED BY <2>1, <2>2, CallIsRequest, Requested
<1>3. size \in Nat /\ size >= 2 /\ 1 \in 1 .. size
    <2>1. Len(c.inputs) \in Nat /\ c.inputs \in Seq({ c.inputs[j] : j \in DOMAIN c.inputs })
        BY CallIsRequest DEF Sequential
    <2>2. Len(c.inputs) # 0
        BY <2>1, EmptySeq
    <2> QED BY <2>1, <2>2
<1>4. RequestOK(c) /\ UtxosAccepted(c)
    BY CallIsRequest DEF CreateProofAccepted, UtxosAccepted
<1>5. RequestedUtxos(psbt, c)
    BY <1>1 DEF RequestedUtxos, SignedUpTo, MapSoFar
<1>6. /\ IndexedOk(psbt)
      /\ \A j \in 1 .. size : /\ Resolve(psbt, j) = RequestedPrevout(c, j)
                              /\ BringsTx(c, j) => HasNonWitness(psbt, j)
    BY <1>4, <1>5, UtxosResolve
<1>7. (\A j \in 1 .. size : Resolvable(psbt, j)) <=> ClaimsAgree(c)
    BY <1>4, <1>5, UtxosAgree
<1>8. /\ proved.tx = tx
      /\ \A j \in 1 .. size :
             /\ Accepted(proved, outputs, j, Parse(proved, outputs, j))
             /\ IsWitnessSpend(Parse(proved, outputs, j)) \/ ~RequestSpendsWitness(c, j)
      /\ VerifySpends(proved, outputs, spends) = "Valid"
    BY ExtractedAccepted
<1>9. \A j \in 1 .. size : ~RequestSpendsWitness(c, j) => BringsTx(c, j)
    <2> SUFFICES ASSUME NEW j \in 1 .. size
                 PROVE  ~RequestSpendsWitness(c, j) => BringsTx(c, j)
        OBVIOUS
    <2> DEFINE spent == RequestTx(c).input[j].previous_output
    <2>1. spent = RequestTx(c).input[j].previous_output
        OBVIOUS
    <2> HIDE DEF spent
    <2> QED BY <1>4, <2>1, StartOutputs
<1>10. Resolve(psbt, 1) = TxOut(0, c.challenge)
    BY <1>3, <1>6 DEF RequestedPrevout
<1>11. PofPrevouts(c.challenge, c.message, psbt) = outputs
    BY <1>1, <1>6, <1>10 DEF PofPrevouts, PrevoutsOf, RequestedPrevout
<1>12. c.message \in Utf8 /\ size <= MaxProofInputs /\ OutpointsValid(tx)
    BY DEF CreateProofAccepted
<1> HIDE DEF proved, outputs, size, tx
<1>13. ~TooManyInputs(psbt)
    BY <1>1, <1>2, <1>3, <1>12, LimitAssumption DEF TooManyInputs
<1>14. StructureValid(psbt)
    BY <1>1, <1>2, <1>12 DEF StructureValid, MapsMatch
<1>15. PofConsistent(c.challenge, c.message, psbt) <=> ClaimsAgree(c)
    <2>1. /\ psbt.message \in {None, c.message} /\ psbt.message \in Utf8
          /\ Len(psbt.unsigned_tx.input) >= 2
          /\ SpendsChallenge(psbt.unsigned_tx, c.challenge, c.message)
          /\ IsBip322Output(psbt.unsigned_tx.output)
          /\ DOMAIN psbt.unsigned_tx.input = 1 .. size
        BY <1>1, <1>2, <1>3, <1>12 DEF SpendsChallenge, IsBip322Output
    <2> QED BY <1>3, <1>6, <1>7, <1>10, <1>14, <2>1 DEF PofConsistent
<1>16. ASSUME ClaimsAgree(c) PROVE VerifyPof(c.challenge, c.message, psbt) = "Valid"
    <2>1. /\ DOMAIN spends = 1 .. size
          /\ \A j \in 1 .. size : spends[j] = Parse(proved, outputs, j)
        BY <1>2, <1>8 DEF ParseSpends
    <2> HIDE DEF spends
    <2>2. \A j \in DOMAIN spends : spends[j] # Malformed /\ Backed(psbt, j, spends[j])
        BY <1>6, <1>8, <1>9, <2>1 DEF Accepted, Backed
    <2> QED BY <1>8, <1>11, <1>13, <1>15, <1>16, <2>2 DEF VerifyPof, proved, spends
<1>17. ASSUME ~ClaimsAgree(c) PROVE VerifyPof(c.challenge, c.message, psbt) = "Invalid"
    BY <1>13, <1>15, <1>17 DEF VerifyPof
<1> QED BY <1>16, <1>17

(* DirectProofVerifies: what direct signing returns is accepted exactly if *)
(* the claims of the call agree with each other.                           *)
THEOREM DirectVerifies == ASSUME AbsentIsNoFunction PROVE Spec => []DirectProofVerifies
<1>1. DirectInv => DirectProofVerifies
    <2> SUFFICES ASSUME DirectInv, result = "ok"
                 PROVE  Verify(call.challenge, call.message, Proof) = "Valid" <=> ClaimsAgree(call)
        BY DEF DirectProofVerifies
    <2>1. /\ call \in Calls /\ CallAccepted
          /\ PsbtSoFar(to_sign, call) /\ SignedUpTo(to_sign, call, n, TRUE)
        <3>1. pc = "done" /\ Accepting
            BY DEF DirectInv, Accepting
        <3>2. call \in Calls /\ CallAccepted /\ PsbtSoFar(to_sign, call)
              /\ SignedUpTo(to_sign, call, n, result = "ok")
            BY <3>1 DEF DirectInv
        <3> QED BY <3>2 DEF SignedUpTo, MapSoFar
    <2>2. call.format \in {"smp", "ful", "pof"} /\ (call.format # "pof" => call.inputs = << >>)
        BY <2>1, CallAssumption
    <2>3. CASE call.format = "pof"
        <3>1. Verify(call.challenge, call.message, Proof)
                  = VerifyPof(call.challenge, call.message, to_sign)
            BY <2>3 DEF Proof, PofProof, Verify
        <3>2. call.inputs # << >> /\ CreateProofAccepted(call)
            BY <2>1, <2>3 DEF CallAccepted
        <3> QED BY <2>1, <2>3, <3>1, <3>2, PofVerifies
    <2>4. CASE call.format # "pof"
        <3> DEFINE map == to_sign.inputs[1]
        <3>1. call.inputs = << >> /\ Len(call.inputs) + 1 = 1
            <4>1. call.inputs = << >>
                BY <2>2, <2>4
            <4> QED BY <4>1
        <3>2. SignedMap(map, call, 1)
            BY <2>1, <3>1 DEF SignedUpTo, MapSoFar
        <3>3. ClaimsAgree(call)
            <4>1. \A h, j \in 1 .. Len(call.inputs) + 1 : ~(h < j)
                BY <3>1
            <4> QED BY <4>1 DEF ClaimsAgree
        <3>4. CASE call.format = "ful"
            <4> DEFINE proved == ExtractTx(to_sign)
            <4>1. to_sign.unsigned_tx = RequestTx(call) /\ 1 \in DOMAIN to_sign.inputs
                BY <2>1, <3>1 DEF PsbtSoFar
            <4>2. /\ proved.tx = RequestTx(call)
                  /\ proved.script_sig[1] = ItemsOrNone(map.final_script_sig)
                  /\ proved.witness[1] = ItemsOrNone(map.final_script_witness)
                BY <4>1 DEF ExtractTx, ItemsOrNone
            <4>3. Verify(call.challenge, call.message, Proof)
                      = VerifyFull(call.challenge, call.message, proved)
                BY <3>4 DEF Proof, FullProof, Verify
            <4> HIDE DEF proved, map
            <4>4. VerifyFull(call.challenge, call.message, proved) = "Valid"
                BY <2>1, <3>1, <3>2, <4>2, AloneVerifies
            <4> QED BY <3>3, <4>3, <4>4
        <3>5. CASE call.format = "smp"
            <4> DEFINE wit == map.final_script_witness
                       proved == SimpleToSign(call.challenge, call.message, wit)
            <4>1. SupportsSimple(call.challenge) /\ IsWitnessProgram(call.challenge)
                BY <2>1, <3>5 DEF CallAccepted, SupportsSimple
            <4>2. map.final_script_sig = None /\ wit # None
                BY <3>2, <4>1 DEF SignedMap, RequestedPrevout, TxOut
            <4>3. /\ proved.tx = RequestTx(call)
                  /\ proved.script_sig[1] = ItemsOrNone(map.final_script_sig)
                  /\ proved.witness[1] = ItemsOrNone(map.final_script_witness)
                <5>1. call.locks = [lock_time |-> 0, sequence |-> 0]
                    BY <2>1, <3>5, CallAssumption
                <5> QED BY <3>1, <4>2, <5>1 DEF SimpleToSign, RequestTx, ItemsOrNone
            <4>4. Verify(call.challenge, call.message, Proof)
                      = VerifyFull(call.challenge, call.message, proved)
                BY <3>5, <4>1 DEF Proof, SimpleProof, Verify, VerifySimple
            <4> HIDE DEF proved, map
            <4>5. VerifyFull(call.challenge, call.message, proved) = "Valid"
                BY <2>1, <3>1, <3>2, <4>3, AloneVerifies
            <4> QED BY <3>3, <4>4, <4>5
        <3> QED BY <2>2, <2>4, <3>4, <3>5
    <2> QED BY <2>3, <2>4
<1> QED BY <1>1, DirectInvariant, PTL

-----------------------------------------------------------------------------
(* What is refused: the calls that direct signing takes, in closed form.   *)

(* Input j has its one key, or a multisig script with as many distinct keys*)
(* of it as it requires.                                                   *)
Signable(c, j) ==
    LET spk == RequestedPrevout(c, j).script_pubkey
        script == RequestedScript(c, j)
        keys == c.private_keys[j]
    IN  \/ /\ Len(keys) = 1
           /\ LET key == keys[1] IN
                  \/ spk \in {P2tr(Point[key], None), P2pkh(key)}
                  \/ key \in Compressed /\ spk = P2wpkh(key)
                  \/ key \in Compressed /\ spk = P2sh(P2wpkh(key)) /\ script = None
        \/ /\ script # None /\ ParsesMultisig(script) /\ InputScriptAccepted(script, spk)
           /\ Len(keys) = script.required
           /\ \A h, i \in DOMAIN keys : Point[keys[h]] = Point[keys[i]] => h = i
           /\ \A h \in DOMAIN keys :
                  \E g \in DOMAIN script.keys : Point[keys[h]] = Point[script.keys[g]]

(* The private keys that fit one of the keys of the script seen so far.    *)
FittingSoFar ==
    { h \in DOMAIN private_keys :
        \E g \in 1 .. k : Point[private_keys[h]] = Point[witness_script.keys[g]] }

(* Inputs that are finished could be signed, the loop has used every key   *)
(* that it could, and a call is refused only if it has to be.              *)
ExactInv ==
    /\ Accepting => \A j \in 1 .. Count : j < n \/ result = "ok" => Signable(call, j)
    /\ pc = "keys" => used = FittingSoFar
    /\ result = "refused" => ~(CallAccepted /\ \A j \in 1 .. Count : Signable(call, j))

LEMMA RoutedExactly ==
    LET spk == script_pubkey
        type == script_pubkey.type
        script == witness_script
    IN  /\ type \in {"p2tr", "p2wpkh", "p2pkh"} => Route = type
        /\ Route \in {"p2tr", "p2wpkh", "p2pkh"} => type = Route
        /\ Route = "p2sh_p2wpkh" => script = None
        /\ type = "p2sh" /\ script = None => Route = "p2sh_p2wpkh"
        /\ Route \in MultisigRoutes <=>
               /\ type \notin {"p2tr", "p2wpkh", "p2pkh"} /\ script # None
               /\ \/ spk = P2wsh(script)
                  \/ spk = P2sh(script) /\ ScriptLen(script) <= MaxElementSize
                  \/ spk # P2sh(script) /\ spk = P2sh(P2wsh(script))
<1> DEFINE type == script_pubkey.type
<1> HIDE DEF type
<1>1. Route = IF type \in {"p2tr", "p2wpkh", "p2pkh"} THEN type
              ELSE IF witness_script = None
                 THEN IF type = "p2sh" THEN "p2sh_p2wpkh" ELSE "none"
              ELSE IF script_pubkey = P2wsh(witness_script) THEN "p2wsh"
              ELSE IF script_pubkey = P2sh(witness_script)
                 THEN IF ScriptLen(witness_script) <= MaxElementSize THEN "p2sh" ELSE "none"
              ELSE IF script_pubkey = P2sh(P2wsh(witness_script)) THEN "p2sh_p2wsh"
              ELSE "none"
    BY DEF Route, type
<1> QED BY <1>1 DEF MultisigRoutes, type

(* The branches of sign_input refuse what is not signable, and that only.  *)
LEMMA SignableSingleKey ==
    ASSUME call \in Calls, n \in 1 .. Count, Route \in SingleKeyRoutes
    PROVE  SingleKeyAccepted <=> Signable(call, n)
<1> DEFINE spk == script_pubkey
           key == private_keys[1]
<1>1. spk = RequestedPrevout(call, n).script_pubkey
    BY InputParts
<1>2. /\ \A x : P2pkh(x).type = "p2pkh" /\ P2wpkh(x).type = "p2wpkh"
      /\ \A x : P2wsh(x).type = "p2wsh" /\ P2sh(x).type = "p2sh"
      /\ \A x, y : P2tr(x, y).type = "p2tr"
    BY DEF P2pkh, P2wpkh, P2wsh, P2sh, P2tr
<1>3. /\ spk.type \in {"p2tr", "p2wpkh", "p2pkh"} => Route = spk.type
      /\ Route \in {"p2tr", "p2wpkh", "p2pkh"} => spk.type = Route
      /\ Route = "p2sh_p2wpkh" => witness_script = None /\ spk.type = "p2sh"
    BY RoutedExactly, Routed
<1>4. SingleKeyAccepted <=>
          /\ Len(private_keys) = 1
          /\ \/ Route = "p2tr" /\ spk = P2tr(Point[key], None)
             \/ Route = "p2wpkh" /\ key \in Compressed /\ spk = P2wpkh(key)
             \/ Route = "p2pkh" /\ spk = P2pkh(key)
             \/ Route = "p2sh_p2wpkh" /\ key \in Compressed /\ spk = P2sh(P2wpkh(key))
    BY DEF SingleKeyAccepted, SingleKeyRoutes
<1>5. Signable(call, n) <=>
          \/ /\ Len(private_keys) = 1
             /\ \/ spk \in {P2tr(Point[key], None), P2pkh(key)}
                \/ key \in Compressed /\ spk = P2wpkh(key)
                \/ key \in Compressed /\ spk = P2sh(P2wpkh(key)) /\ witness_script = None
          \/ /\ witness_script # None /\ ParsesMultisig(witness_script)
             /\ InputScriptAccepted(witness_script, spk)
             /\ SignersAccepted
             /\ \A h \in DOMAIN private_keys : \E g \in DOMAIN witness_script.keys :
                    Point[private_keys[h]] = Point[witness_script.keys[g]]
    BY <1>1 DEF Signable, SignersAccepted, private_keys, witness_script
<1> HIDE DEF spk, key
<1>6. ~(witness_script # None /\ InputScriptAccepted(witness_script, spk))
    BY <1>2, <1>3 DEF InputScriptAccepted, SingleKeyRoutes
<1>7. Route \in {"p2tr", "p2wpkh", "p2pkh", "p2sh_p2wpkh"}
    BY DEF SingleKeyRoutes
<1> QED BY <1>2, <1>3, <1>4, <1>5, <1>6, <1>7

LEMMA SignableMultisig ==
    ASSUME AbsentIsNoFunction, call \in Calls, n \in 1 .. Count, Route \in MultisigRoutes
    PROVE  Signable(call, n) <=>
               /\ SignersAccepted
               /\ \A h \in DOMAIN private_keys : \E g \in DOMAIN witness_script.keys :
                      Point[private_keys[h]] = Point[witness_script.keys[g]]
<1> DEFINE spk == script_pubkey
           script == witness_script
<1>1. /\ spk = RequestedPrevout(call, n).script_pubkey
      /\ script = RequestedScript(call, n) /\ private_keys = call.private_keys[n]
    BY InputParts DEF witness_script, private_keys
<1>2. /\ \A x : P2pkh(x).type = "p2pkh" /\ P2wpkh(x).type = "p2wpkh"
      /\ \A x, y : P2tr(x, y).type = "p2tr"
    BY DEF P2pkh, P2wpkh, P2tr
<1>3. /\ spk.type \notin {"p2tr", "p2wpkh", "p2pkh"} /\ script # None
      /\ InputScriptAccepted(script, spk)
    BY RoutedExactly DEF InputScriptAccepted
<1> HIDE DEF spk, script
<1> QED BY <1>1, <1>2, <1>3 DEF Signable, SignersAccepted, script

LEMMA NotSignable ==
    ASSUME AbsentIsNoFunction, call \in Calls, n \in 1 .. Count,
           private_keys = << >> \/ Route = "none"
    PROVE  ~Signable(call, n)
<1> SUFFICES ASSUME Signable(call, n) PROVE FALSE
    OBVIOUS
<1> DEFINE spk == script_pubkey
           script == witness_script
           key == private_keys[1]
<1>1. /\ spk = RequestedPrevout(call, n).script_pubkey
      /\ script = RequestedScript(call, n) /\ private_keys = call.private_keys[n]
    BY InputParts DEF witness_script, private_keys
<1>2. CASE private_keys = << >>
    <2>1. Len(private_keys) = 0
        BY <1>2
    <2>2. script.required = 0 /\ ParsesMultisig(script)
        BY <1>1, <2>1 DEF Signable
    <2>3. Len(script.keys) \in Nat
        BY <2>2, LenProperties DEF ParsesMultisig
    <2> QED BY <2>2, <2>3 DEF ParsesMultisig
<1>3. CASE Route = "none"
    <2>1. /\ \A x : P2pkh(x).type = "p2pkh" /\ P2wpkh(x).type = "p2wpkh"
          /\ \A x : P2wsh(x).type = "p2wsh" /\ P2sh(x).type = "p2sh" /\ P2sh(x).script = x
          /\ \A x, y : P2tr(x, y).type = "p2tr"
        BY DEF P2pkh, P2wpkh, P2wsh, P2sh, P2tr
    <2>2. /\ spk.type \notin {"p2tr", "p2wpkh", "p2pkh"}
          /\ ~(spk.type = "p2sh" /\ script = None)
        BY <1>3, RoutedExactly
    <2>3. Route \notin MultisigRoutes
        BY <1>3 DEF MultisigRoutes
    <2>4. ~ /\ script # None
            /\ \/ spk = P2wsh(script)
               \/ spk = P2sh(script) /\ ScriptLen(script) <= MaxElementSize
               \/ spk # P2sh(script) /\ spk = P2sh(P2wsh(script))
        BY <2>2, <2>3, RoutedExactly
    <2>5. /\ script # None /\ ParsesMultisig(script) /\ InputScriptAccepted(script, spk)
        <3> HIDE DEF spk, script
        <3> QED BY <1>1, <2>1, <2>2 DEF Signable
    <2>6. spk = P2sh(script) => spk # P2sh(P2wsh(script))
        <3>1. script.type = "multisig"
            BY <2>5 DEF ParsesMultisig
        <3> HIDE DEF spk, script
        <3> QED BY <2>1, <3>1
    <2> HIDE DEF spk, script
    <2> QED BY <2>4, <2>5, <2>6 DEF InputScriptAccepted
<1> QED BY <1>2, <1>3

LEMMA RefusedExactly ==
    ASSUME Refuse, ~(CallAccepted /\ \A j \in 1 .. Count : Signable(call, j))
    PROVE  ExactInv'
<1>1. /\ pc' = "done" /\ result' = "refused" /\ UNCHANGED <<call, n>>
    BY DEF Refuse
<1>2. CallAccepted' = CallAccepted /\ Count' = Count
    BY <1>1 DEF CallAccepted, Count
<1>3. ~(CallAccepted' /\ \A j \in 1 .. Count' : Signable(call', j))
    BY <1>1, <1>2
<1> QED BY <1>1, <1>3 DEF ExactInv, Accepting

LEMMA PlacedExactly ==
    ASSUME DirectInv, ExactInv, pc \in {"input", "keys"}, Signable(call, n),
           NEW map, PlaceInput(map)
    PROVE  ExactInv'
<1>1. /\ call \in Calls /\ n \in 1 .. Count /\ result = "pending" /\ Count \in Nat
    BY AtInput, CallIsRequest DEF Count
<1>2. /\ call' = call
      /\ IF n < Count THEN n' = n + 1 /\ pc' = "input" /\ result' = result
         ELSE n' = n /\ pc' = "done" /\ result' = "ok"
    BY DEF PlaceInput
<1>3. Count' = Count
    BY <1>2 DEF Count
<1>4. \A j \in 1 .. Count : j < n => Signable(call, j)
    BY <1>1 DEF ExactInv, Accepting
<1>5. \A j \in 1 .. Count : j <= n => Signable(call, j)
    <2>1. \A j \in 1 .. Count : j <= n => j < n \/ j = n
        BY <1>1
    <2> QED BY <1>4, <2>1
<1>6. ASSUME NEW j \in 1 .. Count', j < n' \/ result' = "ok"
      PROVE  Signable(call', j)
    <2>1. j <= n
        BY <1>1, <1>2, <1>3, <1>6
    <2> QED BY <1>2, <1>3, <1>5, <2>1
<1>7. pc' # "keys" /\ result' # "refused"
    BY <1>1, <1>2
<1> QED BY <1>6, <1>7 DEF ExactInv

LEMMA TriedExactly ==
    ASSUME DirectInv, ExactInv, TryPubkey PROVE ExactInv'
<1> DEFINE keys == witness_script.keys
           Fits(h, g) == Point[private_keys[h]] = Point[keys[g]]
<1>1. /\ pc = "keys" /\ k < Len(keys) /\ k' = k + 1
      /\ UNCHANGED <<call, pc, n, to_sign, result>>
    BY DEF TryPubkey
<1>2. /\ witness_script' = witness_script /\ private_keys' = private_keys /\ Count' = Count
    BY <1>1, SameInput
<1>3. /\ used = { h \in DOMAIN private_keys : \E g \in 1 .. k : Fits(h, g) }
      /\ SignersAccepted /\ result = "pending" /\ k \in Nat
    <2>1. LoopInv /\ result = "pending"
        BY <1>1 DEF DirectInv
    <2> QED BY <1>1, <2>1 DEF ExactInv, FittingSoFar, LoopInv
<1>4. Fitting = { h \in DOMAIN private_keys : h \notin used /\ Fits(h, k + 1) }
    BY DEF Fitting
<1>5. \A h, j \in Fitting : h = j
    BY <1>3 DEF Fitting, SignersAccepted
<1>6. used' = used \cup Fitting
    <2>1. CASE Fitting = {} /\ used' = used
        BY <2>1
    <2>2. CASE \E h \in Fitting : used' = used \cup {h}
        BY <1>5, <2>2
    <2> QED BY <2>1, <2>2 DEF TryPubkey
<1> DEFINE after == { h \in DOMAIN private_keys : \E g \in 1 .. k + 1 : Fits(h, g) }
<1>7. FittingSoFar' = after
    BY <1>1, <1>2 DEF FittingSoFar
<1>8. used \cup Fitting = after
    <2>1. \A g : g \in 1 .. k + 1 <=> g \in 1 .. k \/ g = k + 1
        BY <1>3
    <2> HIDE DEF Fits
    <2> QED BY <1>3, <1>4, <2>1
<1>9. used' = FittingSoFar'
    BY <1>6, <1>7, <1>8
<1>10. Accepting' = Accepting /\ result' # "refused"
    BY <1>1, <1>3 DEF Accepting
<1> QED BY <1>1, <1>2, <1>9, <1>10 DEF ExactInv

LEMMA FinishedExactly ==
    ASSUME AbsentIsNoFunction, DirectInv, ExactInv, FinishMultisig PROVE ExactInv'
<1> DEFINE script == witness_script
           size == Len(private_keys)
<1>1. pc = "keys" /\ k = Len(script.keys) /\ call \in Calls /\ n \in 1 .. Count
    BY DEF FinishMultisig, DirectInv
<1>2. /\ Route \in MultisigRoutes /\ SignersAccepted
      /\ used \subseteq DOMAIN private_keys /\ IsFiniteSet(used)
      /\ Listed(signatures, Cardinality(used))
    BY <1>1 DEF DirectInv, LoopInv, SignedSoFar
<1>3. Len(signatures) = Cardinality(used)
    BY <1>2, FS_CardinalityType, ListedSize
<1>4. /\ DOMAIN private_keys = 1 .. size /\ size \in Nat /\ size = script.required
    BY <1>1, <1>2, InputParts, LenProperties DEF SignersAccepted
<1>5. DOMAIN script.keys = 1 .. k
    BY <1>1, <1>2, LenProperties DEF SignersAccepted, ParsesMultisig
<1>6. Len(signatures) = script.required <=> used = DOMAIN private_keys
    <2>1. IsFiniteSet(1 .. size) /\ Cardinality(1 .. size) = size
        BY <1>4, FS_Interval
    <2>2. used \in SUBSET (1 .. size)
        BY <1>2, <1>4
    <2> HIDE DEF size, script
    <2>3. Cardinality(used) = size <=> used = 1 .. size
        BY <2>1, <2>2, FS_Subset
    <2> QED BY <1>3, <1>4, <2>3
<1>7. used = DOMAIN private_keys <=>
          \A h \in DOMAIN private_keys : \E g \in DOMAIN script.keys :
              Point[private_keys[h]] = Point[script.keys[g]]
    BY <1>1, <1>5 DEF ExactInv, FittingSoFar
<1>8. Signable(call, n) <=> Len(signatures) = script.required
    BY <1>1, <1>2, <1>6, <1>7, SignableMultisig
<1>9. CASE Signable(call, n)
    BY <1>1, <1>8, <1>9, PlacedExactly DEF FinishMultisig
<1>10. CASE ~Signable(call, n)
    BY <1>1, <1>8, <1>10, RefusedExactly DEF FinishMultisig
<1> QED BY <1>9, <1>10

LEMMA ExactStep ==
    ASSUME AbsentIsNoFunction, DirectInv, ExactInv, [Next]_vars PROVE ExactInv'
<1>1. CASE Create
    <2>1. CASE ~CallAccepted
        BY <1>1, <2>1, RefusedExactly DEF Create
    <2>2. CASE CallAccepted
        <3>1. pc = "create" /\ pc' = "input" /\ UNCHANGED <<call, n, result>>
            BY <1>1, <2>2 DEF Create
        <3>2. n = 1 /\ result = "pending"
            BY <3>1 DEF DirectInv
        <3>3. \A j \in 1 .. Count' : ~(j < n' \/ result' = "ok")
            BY <3>1, <3>2
        <3> QED BY <3>1, <3>2, <3>3 DEF ExactInv
    <2> QED BY <2>1, <2>2
<1>2. CASE SignSingleKey
    <2>1. /\ pc = "input" /\ Route \in SingleKeyRoutes
          /\ IF SingleKeyAccepted THEN PlaceInput(SingleKeyInput) ELSE Refuse
        BY <1>2 DEF SignSingleKey
    <2>2. call \in Calls /\ n \in 1 .. Count
        BY DEF DirectInv
    <2>3. SingleKeyAccepted <=> Signable(call, n)
        BY <2>1, <2>2, SignableSingleKey
    <2>4. CASE Signable(call, n)
        BY <2>1, <2>3, <2>4, PlacedExactly
    <2>5. CASE ~Signable(call, n)
        BY <2>1, <2>2, <2>3, <2>5, RefusedExactly
    <2> QED BY <2>4, <2>5
<1>3. CASE StartMultisig
    <2>1. pc = "input" /\ Route \in MultisigRoutes /\ call \in Calls /\ n \in 1 .. Count
        BY <1>3 DEF StartMultisig, DirectInv
    <2>2. CASE ~SignersAccepted
        <3>1. ~Signable(call, n)
            BY <2>1, <2>2, SignableMultisig
        <3> QED BY <1>3, <2>1, <2>2, <3>1, RefusedExactly DEF StartMultisig
    <2>3. CASE SignersAccepted
        <3>1. /\ pc' = "keys" /\ UNCHANGED <<call, n, to_sign, k, used, signatures, result>>
            BY <1>3, <2>3 DEF StartMultisig
        <3>2. k = 0 /\ used = {} /\ result = "pending"
            BY <2>1 DEF DirectInv
        <3>3. Count' = Count
            BY <3>1, SameInput
        <3>4. FittingSoFar' = {}
            BY <3>1, <3>2 DEF FittingSoFar
        <3>5. Accepting /\ Accepting'
            BY <2>1, <3>1, <3>2 DEF Accepting
        <3> QED BY <3>1, <3>2, <3>3, <3>4, <3>5 DEF ExactInv
    <2> QED BY <2>2, <2>3
<1>4. CASE RefuseInput
    <2>1. ~Signable(call, n) /\ n \in 1 .. Count
        BY <1>4, NotSignable DEF RefuseInput, DirectInv
    <2> QED BY <1>4, <2>1, RefusedExactly DEF RefuseInput
<1>5. CASE TryPubkey
    BY <1>5, TriedExactly
<1>6. CASE FinishMultisig
    BY <1>6, FinishedExactly
<1>7. CASE UNCHANGED vars
    <2>1. /\ UNCHANGED <<call, n, to_sign>> /\ UNCHANGED <<pc, k, used, result>>
        BY <1>7 DEF vars
    <2>2. /\ witness_script' = witness_script /\ private_keys' = private_keys
          /\ CallAccepted' = CallAccepted /\ Count' = Count
        BY <2>1, SameInput
    <2>3. FittingSoFar' = FittingSoFar
        BY <2>1, <2>2 DEF FittingSoFar
    <2> QED BY <2>1, <2>2, <2>3 DEF ExactInv, Accepting
<1> QED BY <1>1, <1>2, <1>3, <1>4, <1>5, <1>6, <1>7 DEF Next

LEMMA ExactInvariant == ASSUME AbsentIsNoFunction PROVE Spec => []ExactInv
<1>1. Init => ExactInv
    BY DEF Init, ExactInv, Accepting
<1>2. DirectInv /\ ExactInv /\ [Next]_vars => ExactInv'
    BY ExactStep
<1> QED BY <1>1, <1>2, DirectInvariant, PTL DEF Spec

-----------------------------------------------------------------------------
(* The way by the PSBT roles, one call of the signer after the other.      *)

SignedByPrefix(f, psbt, keys, j, m) ==
    f = [h \in 0 .. m |-> IF h = 0 THEN psbt ELSE SignBip322PsbtInput(f[h - 1], keys[h], j)]

(* The recursive definitions have the values that they describe.           *)
LEMMA SignedByOneMore ==
    ASSUME NEW psbt, NEW keys, NEW j, NEW m \in Nat, NEW f, SignedByPrefix(f, psbt, keys, j, m)
    PROVE  \E g : SignedByPrefix(g, psbt, keys, j, m + 1)
<1> DEFINE new == SignBip322PsbtInput(f[m], keys[m + 1], j)
           g == [h \in 0 .. m + 1 |-> IF h = m + 1 THEN new ELSE f[h]]
<1> HIDE DEF new
<1>1. f = [h \in 0 .. m |-> IF h = 0 THEN psbt ELSE SignBip322PsbtInput(f[h - 1], keys[h], j)]
    BY DEF SignedByPrefix
<1>2. \A h \in 0 .. m + 1 : h # 0 => g[h - 1] = f[h - 1]
    OBVIOUS
<1>3. ASSUME NEW h \in 0 .. m + 1
      PROVE  g[h] = IF h = 0 THEN psbt ELSE SignBip322PsbtInput(g[h - 1], keys[h], j)
    <2>1. CASE h = m + 1
        <3>1. g[h] = new /\ h # 0 /\ h - 1 = m
            BY <2>1
        <3>2. new = SignBip322PsbtInput(f[m], keys[h], j) /\ g[h - 1] = f[m]
            BY <1>2, <2>1, <3>1 DEF new
        <3> QED BY <3>1, <3>2
    <2>2. CASE h # m + 1
        <3>1. h \in 0 .. m /\ g[h] = f[h]
            BY <2>2
        <3> HIDE DEF g
        <3>2. f[h] = IF h = 0 THEN psbt ELSE SignBip322PsbtInput(f[h - 1], keys[h], j)
            BY <1>1, <3>1
        <3> QED BY <1>2, <3>1, <3>2
    <2> QED BY <2>1, <2>2
<1>4. g = [h \in 0 .. m + 1 |-> g[h]]
    OBVIOUS
<1> HIDE DEF g
<1>5. SignedByPrefix(g, psbt, keys, j, m + 1)
    BY <1>3, <1>4 DEF SignedByPrefix
<1> QED BY <1>5

LEMMA SignedByValues ==
    ASSUME NEW psbt, NEW keys, NEW j, Len(keys) \in Nat
    PROVE  LET signed == SignedBy(psbt, keys, j) IN
               /\ signed[0] = psbt
               /\ \A h \in 1 .. Len(keys) :
                      signed[h] = SignBip322PsbtInput(signed[h - 1], keys[h], j)
<1> DEFINE size == Len(keys)
           T == { m \in 0 .. size : \E f : SignedByPrefix(f, psbt, keys, j, m) }
<1>1. 0 \in T
    <2> DEFINE f == [h \in 0 .. 0 |-> psbt]
    <2>1. SignedByPrefix(f, psbt, keys, j, 0)
        BY DEF SignedByPrefix
    <2> QED BY <2>1
<1>2. ASSUME NEW m \in 0 .. size, m # size, m \in T PROVE m + 1 \in T
    <2>1. m \in Nat /\ m + 1 \in 0 .. size
        BY <1>2
    <2>2. \E g : SignedByPrefix(g, psbt, keys, j, m + 1)
        BY <1>2, <2>1, SignedByOneMore
    <2> QED BY <2>1, <2>2
<1>3. size \in T
    <2> HIDE DEF T
    <2>1. size \in 0 .. size /\ 0 .. size \subseteq T
        BY <1>1, <1>2, ReachesUpTo
    <2> QED BY <2>1
<1>4. \E f : SignedByPrefix(f, psbt, keys, j, size)
    BY <1>3
<1> DEFINE signed == SignedBy(psbt, keys, j)
<1>5. SignedByPrefix(signed, psbt, keys, j, size)
    <2>1. signed = CHOOSE f : f = [h \in 0 .. Len(keys) |->
                       IF h = 0 THEN psbt ELSE SignBip322PsbtInput(f[h - 1], keys[h], j)]
        BY DEF SignedBy
    <2>2. PICK g : g = [h \in 0 .. Len(keys) |->
                       IF h = 0 THEN psbt ELSE SignBip322PsbtInput(g[h - 1], keys[h], j)]
        BY <1>4 DEF SignedByPrefix
    <2> QED BY <2>1, <2>2 DEF SignedByPrefix
<1> HIDE DEF signed
<1>6. signed = [h \in 0 .. size |->
                    IF h = 0 THEN psbt ELSE SignBip322PsbtInput(signed[h - 1], keys[h], j)]
    BY <1>5 DEF SignedByPrefix
<1>7. 0 \in 0 .. size /\ \A h \in 1 .. size : h \in 0 .. size /\ h # 0
    OBVIOUS
<1> HIDE DEF size
<1>8. signed[0] = psbt
    BY <1>6, <1>7
<1>9. \A h \in 1 .. size : signed[h] = SignBip322PsbtInput(signed[h - 1], keys[h], j)
    BY <1>6, <1>7
<1> QED BY <1>8, <1>9 DEF signed, size

InputSigned(psbt, c, j) ==
    SignedBy(psbt, c.private_keys[j], j)[Len(c.private_keys[j])]

RolesPrefix(f, c, m) ==
    f = [j \in 0 .. m |-> IF j = 0 THEN CreateBip322Psbt(c) ELSE InputSigned(f[j - 1], c, j)]

LEMMA RolesOneMore ==
    ASSUME NEW c, NEW m \in Nat, NEW f, RolesPrefix(f, c, m)
    PROVE  \E g : RolesPrefix(g, c, m + 1)
<1> DEFINE new == InputSigned(f[m], c, m + 1)
           made == CreateBip322Psbt(c)
           g == [j \in 0 .. m + 1 |-> IF j = m + 1 THEN new ELSE f[j]]
<1> HIDE DEF new, made
<1>1. f = [j \in 0 .. m |-> IF j = 0 THEN made ELSE InputSigned(f[j - 1], c, j)]
    BY DEF RolesPrefix, made
<1>2. \A j \in 0 .. m + 1 : j # 0 => g[j - 1] = f[j - 1]
    OBVIOUS
<1>3. ASSUME NEW j \in 0 .. m + 1
      PROVE  g[j] = IF j = 0 THEN made ELSE InputSigned(g[j - 1], c, j)
    <2>1. CASE j = m + 1
        <3>1. g[j] = new /\ j # 0 /\ j - 1 = m
            BY <2>1
        <3>2. new = InputSigned(f[m], c, j) /\ g[j - 1] = f[m]
            BY <1>2, <2>1, <3>1 DEF new
        <3> QED BY <3>1, <3>2
    <2>2. CASE j # m + 1
        <3>1. j \in 0 .. m /\ g[j] = f[j]
            BY <2>2
        <3> HIDE DEF g
        <3>2. f[j] = IF j = 0 THEN made ELSE InputSigned(f[j - 1], c, j)
            BY <1>1, <3>1
        <3> QED BY <1>2, <3>1, <3>2
    <2> QED BY <2>1, <2>2
<1>4. g = [j \in 0 .. m + 1 |-> g[j]]
    OBVIOUS
<1> HIDE DEF g
<1>5. RolesPrefix(g, c, m + 1)
    BY <1>3, <1>4 DEF RolesPrefix, made
<1> QED BY <1>5

LEMMA RolesValues ==
    ASSUME Count \in Nat
    PROVE  /\ RolesPsbt[0] = CreateBip322Psbt(call)
           /\ \A j \in 1 .. Count : RolesPsbt[j] = InputSigned(RolesPsbt[j - 1], call, j)
<1> DEFINE size == Count
           made == CreateBip322Psbt(call)
           T == { m \in 0 .. size : \E f : RolesPrefix(f, call, m) }
<1>1. 0 \in T
    <2> DEFINE f == [j \in 0 .. 0 |-> made]
    <2>1. RolesPrefix(f, call, 0)
        BY DEF RolesPrefix
    <2> QED BY <2>1
<1>2. ASSUME NEW m \in 0 .. size, m # size, m \in T PROVE m + 1 \in T
    <2>1. m \in Nat /\ m + 1 \in 0 .. size
        BY <1>2
    <2>2. \E g : RolesPrefix(g, call, m + 1)
        BY <1>2, <2>1, RolesOneMore
    <2> QED BY <2>1, <2>2
<1>3. size \in T
    <2> HIDE DEF T
    <2>1. size \in 0 .. size /\ 0 .. size \subseteq T
        BY <1>1, <1>2, ReachesUpTo
    <2> QED BY <2>1
<1>4. \E f : RolesPrefix(f, call, size)
    BY <1>3
<1> DEFINE roles == RolesPsbt
<1>5. RolesPrefix(roles, call, size)
    <2>1. roles = CHOOSE f : f = [j \in 0 .. Count |->
                      IF j = 0 THEN CreateBip322Psbt(call)
                      ELSE SignedBy(f[j - 1], call.private_keys[j], j)[Len(call.private_keys[j])]]
        BY DEF RolesPsbt
    <2>2. PICK g : g = [j \in 0 .. Count |->
                      IF j = 0 THEN CreateBip322Psbt(call)
                      ELSE SignedBy(g[j - 1], call.private_keys[j], j)[Len(call.private_keys[j])]]
        BY <1>4 DEF RolesPrefix, InputSigned
    <2> QED BY <2>1, <2>2 DEF RolesPrefix, InputSigned
<1> HIDE DEF roles, made
<1>6. roles = [j \in 0 .. size |-> IF j = 0 THEN made ELSE InputSigned(roles[j - 1], call, j)]
    BY <1>5 DEF RolesPrefix, made
<1>7. 0 \in 0 .. size /\ \A j \in 1 .. size : j \in 0 .. size /\ j # 0
    OBVIOUS
<1> HIDE DEF size
<1>8. roles[0] = made
    BY <1>6, <1>7
<1>9. \A j \in 1 .. size : roles[j] = InputSigned(roles[j - 1], call, j)
    BY <1>6, <1>7
<1> QED BY <1>8, <1>9 DEF roles, made, size

(* The keys of an input that have been given to the signer, in the order   *)
(* of the list, have left their marks on its map, and no other key has.    *)
Given(map, c, j, made, count) ==
    LET keys == c.private_keys[j]
        route == SigningRoute(made, j)
    IN  /\ route # "p2tr" => \A key \in Key :
               map.partial_sigs[key] # None <=> \E h \in 1 .. count : keys[h] = key
        /\ route = "p2tr" => (map.tap_key_sig # None <=> count > 0)
        /\ route = "p2sh_p2wpkh" /\ count > 0 => map.redeem_script = P2wpkh(keys[count])

GivenCount(c, i, j, h) ==
    IF i < j THEN Len(c.private_keys[i]) ELSE IF i = j THEN h ELSE 0

(* The inputs before j are signed, and input j by its first h keys.        *)
InProgress(psbt, c, j, h) ==
    LET made == CreateBip322Psbt(c) IN
        /\ Shaped(psbt) /\ Grown(psbt, made)
        /\ \A i \in DOMAIN made.inputs :
               Given(psbt.inputs[i], c, i, made, GivenCount(c, i, j, h))

LEMMA CreatedShaped ==
    ASSUME NEW r, RequestOK(r) PROVE Shaped(CreateBip322Psbt(r))
<1> DEFINE made == CreateBip322Psbt(r)
<1>1. /\ DOMAIN made = {"unsigned_tx", "message", "inputs", "outputs"}
      /\ Len(made.inputs) \in Nat /\ DOMAIN made.inputs = 1 .. Len(made.inputs)
    BY Created, CreatedSizes
<1>2. \A j \in DOMAIN made.inputs : MadeMap(made.inputs[j], r, j)
    BY Created
<1> HIDE DEF made
<1>3. \A j \in DOMAIN made.inputs : /\ DOMAIN made.inputs[j] = DOMAIN EmptyInput
                                    /\ DOMAIN made.inputs[j].partial_sigs = Key
    BY <1>2 DEF MadeMap
<1> QED BY <1>1, <1>3 DEF Shaped, made

LEMMA CreatedInProgress ==
    ASSUME AbsentIsNoFunction, NEW c \in Calls
    PROVE  InProgress(CreateBip322Psbt(c), c, 1, 0)
<1> DEFINE made == CreateBip322Psbt(c)
<1>1. RequestOK(c) /\ DOMAIN made.inputs = 1 .. Len(c.inputs) + 1
    BY CallIsRequest, Created
<1>2. Shaped(made) /\ Grown(made, made)
    BY <1>1, CreatedShaped, MadeHasNoSignatures
<1>3. \A i \in DOMAIN made.inputs : MadeMap(made.inputs[i], c, i)
    BY <1>1, Created
<1> HIDE DEF made
<1>4. ASSUME NEW i \in DOMAIN made.inputs
      PROVE  Given(made.inputs[i], c, i, made, GivenCount(c, i, 1, 0))
    <2>1. GivenCount(c, i, 1, 0) = 0
        BY <1>1, CallIsRequest DEF GivenCount
    <2>2. /\ \A key \in Key : made.inputs[i].partial_sigs[key] = None
          /\ made.inputs[i].tap_key_sig = None
        BY <1>3 DEF MadeMap
    <2> QED BY <2>1, <2>2 DEF Given
<1> QED BY <1>2, <1>4 DEF InProgress, made

(* One more key.                                                           *)
LEMMA SigningProgresses ==
    ASSUME AbsentIsNoFunction, NEW c \in Calls, NEW j \in 1 .. Len(c.inputs) + 1,
           NEW h \in 1 .. Len(c.private_keys[j]),
           NEW psbt, InProgress(psbt, c, j, h - 1),
           SignAccepted(psbt, c.private_keys[j][h], j)
    PROVE  InProgress(SignBip322PsbtInput(psbt, c.private_keys[j][h], j), c, j, h)
<1> DEFINE made == CreateBip322Psbt(c)
           keys == c.private_keys[j]
           key == keys[h]
           new == SignBip322PsbtInput(psbt, key, j)
           sig == SignatureOf(psbt, key, j)
           route == SigningRoute(made, j)
<1>1. /\ DOMAIN made.inputs = 1 .. Len(c.inputs) + 1
      /\ Len(made.inputs) = Len(c.inputs) + 1 /\ Len(c.inputs) + 1 \in Nat
    BY CallIsRequest, CreatedSizes
<1>2. keys \in Seq(Key) /\ key \in Key /\ Len(keys) \in Nat
    <2>1. keys \in Seq(Key)
        BY CallIsRequest
    <2> HIDE DEF keys
    <2> QED BY <2>1, LenProperties, ElementOfSeq DEF key, keys
<1>3. /\ Shaped(psbt) /\ Grown(psbt, made)
      /\ \A i \in DOMAIN made.inputs :
             Given(psbt.inputs[i], c, i, made, GivenCount(c, i, j, h - 1))
    BY DEF InProgress
<1>4. SameRequest(psbt, made) /\ DOMAIN psbt.inputs = DOMAIN made.inputs
    BY <1>3 DEF Grown, SameRequest, SameSpends
<1>5. SigningRoute(psbt, j) = route
    BY <1>1, <1>4, SameRoute
<1>6. sig # None
    BY Present DEF SignatureOf
<1>7. SignAccepted(psbt, key, j)
    OBVIOUS
<1> HIDE DEF made, keys, key, new, sig, route
<1>8. Grown(new, made)
    BY <1>1, <1>2, <1>3, <1>7, GrownBySigning DEF new
<1>9. /\ Shaped(new)
      /\ \A i \in DOMAIN psbt.inputs : i # j => new.inputs[i] = psbt.inputs[i]
      /\ new.inputs[j].redeem_script = IF route = "p2sh_p2wpkh" THEN P2wpkh(key)
                                       ELSE psbt.inputs[j].redeem_script
      /\ \A x \in Key :
             new.inputs[j].partial_sigs[x] = IF x = key /\ route # "p2tr" THEN sig
                                             ELSE psbt.inputs[j].partial_sigs[x]
      /\ new.inputs[j].tap_key_sig = IF route = "p2tr" THEN sig ELSE psbt.inputs[j].tap_key_sig
    BY <1>1, <1>2, <1>3, <1>4, <1>5, SigningChanges DEF new, sig
<1>10. \A x : (\E g \in 1 .. h : keys[g] = x) <=> (\E g \in 1 .. h - 1 : keys[g] = x) \/ x = key
    <2>1. \A g : g \in 1 .. h <=> g \in 1 .. h - 1 \/ g = h
        OBVIOUS
    <2> QED BY <2>1 DEF key
<1>11. Given(new.inputs[j], c, j, made, h)
    <2>1. Given(psbt.inputs[j], c, j, made, h - 1)
        <3>1. GivenCount(c, j, j, h - 1) = h - 1
            BY DEF GivenCount
        <3> QED BY <1>1, <1>3, <3>1
    <2>2. h > 0
        OBVIOUS
    <2>3. ASSUME route # "p2tr", NEW x \in Key
          PROVE  new.inputs[j].partial_sigs[x] # None <=> \E g \in 1 .. h : keys[g] = x
        <3>1. psbt.inputs[j].partial_sigs[x] # None <=> \E g \in 1 .. h - 1 : keys[g] = x
            BY <2>1, <2>3 DEF Given, keys, route
        <3> QED BY <1>6, <1>9, <1>10, <2>3, <3>1
    <2> QED BY <1>6, <1>9, <2>2, <2>3 DEF Given, keys, key, route
<1>12. ASSUME NEW i \in DOMAIN made.inputs
       PROVE  Given(new.inputs[i], c, i, made, GivenCount(c, i, j, h))
    <2>1. CASE i = j
        BY <1>11, <2>1 DEF GivenCount
    <2>2. CASE i # j
        <3>1. GivenCount(c, i, j, h) = GivenCount(c, i, j, h - 1)
            BY <2>2 DEF GivenCount
        <3> QED BY <1>3, <1>4, <1>9, <2>2, <3>1
    <2> QED BY <2>1, <2>2
<1> QED BY <1>8, <1>9, <1>12 DEF InProgress, made, new, key, keys

(* The signer takes every key of the list for input j, one after the other.*)
InputAccepted(psbt, c, j) ==
    \A h \in 1 .. Len(c.private_keys[j]) :
        SignAccepted(SignedBy(psbt, c.private_keys[j], j)[h - 1], c.private_keys[j][h], j)

LEMMA InputProgresses ==
    ASSUME AbsentIsNoFunction, NEW c \in Calls, NEW j \in 1 .. Len(c.inputs) + 1,
           NEW psbt, InProgress(psbt, c, j, 0), NEW m \in 0 .. Len(c.private_keys[j]),
           \A h \in 1 .. m :
               SignAccepted(SignedBy(psbt, c.private_keys[j], j)[h - 1], c.private_keys[j][h], j)
    PROVE  InProgress(SignedBy(psbt, c.private_keys[j], j)[m], c, j, m)
<1> DEFINE keys == c.private_keys[j]
           signed == SignedBy(psbt, keys, j)
           T == { h \in 0 .. m : InProgress(signed[h], c, j, h) }
<1>1. Len(keys) \in Nat
    <2>1. keys \in Seq(Key)
        BY CallIsRequest
    <2> HIDE DEF keys
    <2> QED BY <2>1, LenProperties
<1>2. /\ signed[0] = psbt
      /\ \A h \in 1 .. Len(keys) : signed[h] = SignBip322PsbtInput(signed[h - 1], keys[h], j)
    BY <1>1, SignedByValues
<1>3. \A h \in 1 .. m : SignAccepted(signed[h - 1], keys[h], j)
    OBVIOUS
<1> HIDE DEF signed
<1>4. 0 \in T
    BY <1>1, <1>2
<1>5. ASSUME NEW x \in 0 .. m, x # m, x \in T PROVE x + 1 \in T
    <2>1. x + 1 \in 1 .. Len(keys) /\ x + 1 \in 0 .. m /\ x + 1 - 1 = x
        BY <1>1, <1>5
    <2>2. InProgress(signed[x + 1 - 1], c, j, x + 1 - 1) /\ x + 1 \in 1 .. m
        BY <1>5, <2>1
    <2> DEFINE h == x + 1
               before == signed[h - 1]
    <2>3. /\ h \in 1 .. Len(keys) /\ InProgress(before, c, j, h - 1)
          /\ SignAccepted(before, keys[h], j)
          /\ signed[h] = SignBip322PsbtInput(before, keys[h], j)
        BY <1>2, <1>3, <2>1, <2>2
    <2> HIDE DEF h, before
    <2>4. InProgress(signed[h], c, j, h)
        BY <2>3, SigningProgresses
    <2> QED BY <2>1, <2>4 DEF h
<1>6. m \in T
    <2> HIDE DEF T
    <2>1. m \in Nat /\ m \in 0 .. m
        BY <1>1
    <2>2. 0 .. m \subseteq T
        BY <1>4, <1>5, <2>1, ReachesUpTo
    <2> QED BY <2>1, <2>2
<1> QED BY <1>6 DEF signed

LEMMA NextInProgress ==
    ASSUME NEW c \in Calls, NEW j \in Nat, NEW psbt,
           InProgress(psbt, c, j, Len(c.private_keys[j]))
    PROVE  InProgress(psbt, c, j + 1, 0)
<1> DEFINE made == CreateBip322Psbt(c)
<1>1. DOMAIN made.inputs \subseteq Nat
    BY CallIsRequest, CreatedSizes
<1>2. \A i \in Nat : GivenCount(c, i, j + 1, 0) = GivenCount(c, i, j, Len(c.private_keys[j]))
    BY DEF GivenCount
<1> HIDE DEF made
<1>3. \A i \in DOMAIN made.inputs :
          GivenCount(c, i, j + 1, 0) = GivenCount(c, i, j, Len(c.private_keys[j]))
    BY <1>1, <1>2
<1> QED BY <1>3 DEF InProgress, made

LEMMA RolesProgress ==
    ASSUME AbsentIsNoFunction, call \in Calls, NEW m \in 0 .. Count,
           \A j \in 1 .. m : InputAccepted(RolesPsbt[j - 1], call, j)
    PROVE  InProgress(RolesPsbt[m], call, m + 1, 0)
<1> DEFINE roles == RolesPsbt
           T == { j \in 0 .. m : InProgress(roles[j], call, j + 1, 0) }
<1>1. Count \in Nat /\ Count = Len(call.inputs) + 1
    BY CallIsRequest DEF Count
<1>2. /\ roles[0] = CreateBip322Psbt(call)
      /\ \A j \in 1 .. Count : roles[j] = InputSigned(roles[j - 1], call, j)
    BY <1>1, RolesValues
<1>3. \A j \in 1 .. m : InputAccepted(roles[j - 1], call, j)
    OBVIOUS
<1> HIDE DEF roles
<1>4. 0 \in T
    BY <1>1, <1>2, CreatedInProgress
<1>5. ASSUME NEW x \in 0 .. m, x # m, x \in T PROVE x + 1 \in T
    <2> DEFINE j == x + 1
               before == roles[x]
               keys == call.private_keys[j]
    <2>1. /\ j \in 1 .. Count /\ j \in 1 .. m /\ j \in 0 .. m /\ j - 1 = x /\ j \in Nat
        BY <1>1, <1>5
    <2>2. /\ InProgress(before, call, j, 0) /\ roles[j] = InputSigned(before, call, j)
          /\ InputAccepted(before, call, j)
        BY <1>2, <1>3, <1>5, <2>1
    <2>3. keys \in Seq(Key)
        BY <1>1, <2>1, CallIsRequest
    <2> HIDE DEF keys
    <2>4. Len(keys) \in Nat /\ Len(keys) \in 0 .. Len(keys)
        BY <2>3, LenProperties
    <2> HIDE DEF j, before
    <2>5. InProgress(SignedBy(before, keys, j)[Len(keys)], call, j, Len(keys))
        BY <1>1, <2>1, <2>2, <2>4, InputProgresses DEF InputAccepted, keys
    <2>6. InProgress(roles[j], call, j, Len(call.private_keys[j]))
        BY <2>2, <2>5 DEF InputSigned, keys
    <2>7. InProgress(roles[j], call, j + 1, 0)
        BY <2>1, <2>6, NextInProgress
    <2> QED BY <2>1, <2>7 DEF j
<1>6. m \in T
    <2> HIDE DEF T
    <2>1. m \in Nat /\ m \in 0 .. m
        BY <1>1
    <2>2. 0 .. m \subseteq T
        BY <1>4, <1>5, <2>1, ReachesUpTo
    <2> QED BY <2>1, <2>2
<1> QED BY <1>6 DEF roles

-----------------------------------------------------------------------------
(* What the roles prove, direct signing signs.                             *)

LEMMA PrivateKeysListed ==
    ASSUME NEW c \in Calls, NEW j \in 1 .. Len(c.inputs) + 1
    PROVE  /\ Len(c.private_keys[j]) \in Nat
           /\ DOMAIN c.private_keys[j] = 1 .. Len(c.private_keys[j])
           /\ \A h \in 1 .. Len(c.private_keys[j]) : c.private_keys[j][h] \in Key
<1> DEFINE keys == c.private_keys[j]
<1>1. keys \in Seq(Key)
    BY CallIsRequest
<1> HIDE DEF keys
<1> QED BY <1>1, LenProperties, ElementOfSeq DEF keys

(* A finalizer that takes the input of a multisig script has parsed it.    *)
LEMMA FinalizedScriptParses ==
    ASSUME AbsentIsNoFunction, NEW c \in Calls, CreateAccepted(c),
           NEW j \in 1 .. Len(c.inputs) + 1,
           RequestedScript(c, j) # None, RequestedScript(c, j).type = "multisig",
           NEW psbt, Grown(psbt, CreateBip322Psbt(c)),
           InputFinalizable(psbt.inputs[j], Challenge(psbt, j))
    PROVE  ParsesMultisig(RequestedScript(c, j))
<1> DEFINE made == CreateBip322Psbt(c)
           script == RequestedScript(c, j)
           map == psbt.inputs[j]
           challenge == Challenge(psbt, j)
<1>1. /\ j \in DOMAIN made.inputs /\ DOMAIN made.inputs = 1 .. Len(made.inputs)
      /\ RequestOK(c)
    BY CallIsRequest, CreatedSizes
<1>2. /\ SigningRoute(made, j) = "multisig" /\ MultisigScript(made.inputs[j]) = script
      /\ ~IsP2wpkh(made.inputs[j].redeem_script)
      /\ RequestedPrevout(c, j).script_pubkey.type \in {"p2wsh", "p2sh"}
    BY <1>1, MultisigMade
<1>3. Challenge(made, j) = RequestedPrevout(c, j).script_pubkey
    BY <1>1, MadeResolved
<1>4. InputFinalizable(map, challenge) /\ Grown(psbt, made)
    OBVIOUS
<1> HIDE DEF made, script, map, challenge
<1>5. SameRequest(psbt, made) /\ GrownMap(map, made, j)
    BY <1>1, <1>4 DEF Grown, map
<1>6. challenge = Challenge(made, j)
    BY <1>1, <1>5, SamePrevouts DEF SameRequest, challenge
<1>7. /\ map.redeem_script = made.inputs[j].redeem_script
      /\ map.witness_script = made.inputs[j].witness_script
    BY <1>1, <1>2, <1>5, SameRoute DEF SameRequest, SameScripts, map
<1>8. FinalizingRoute(map, challenge) = "multisig"
    BY <1>2, <1>3, <1>5, <1>6, <1>7 DEF FinalizingRoute, GrownMap
<1>9. ParsesMultisig(MultisigScript(map))
    BY <1>4, <1>8 DEF InputFinalizable
<1> QED BY <1>2, <1>7, <1>9 DEF MultisigScript, script

LEMMA ProvedSignable ==
    ASSUME AbsentIsNoFunction, NEW c \in Calls, CreateAccepted(c),
           NEW j \in 1 .. Len(c.inputs) + 1,
           NEW psbt, Grown(psbt, CreateBip322Psbt(c)),
           InputFinalizable(psbt.inputs[j], Challenge(psbt, j)),
           NEW keys, keys = c.private_keys[j],
           \A h \in 1 .. Len(keys) : KeyAccepted(CreateBip322Psbt(c), keys[h], j),
           NEW script, script = RequestedScript(c, j), ~IsP2wpkh(script),
           IF script # None /\ script.type = "multisig" THEN Len(keys) = script.required
           ELSE Len(keys) = 1,
           \A h, i \in 1 .. Len(keys) : Point[keys[h]] = Point[keys[i]] => h = i
    PROVE  Signable(c, j)
<1> DEFINE made == CreateBip322Psbt(c)
           map == made.inputs[j]
           spk == RequestedPrevout(c, j).script_pubkey
<1>1. j \in DOMAIN made.inputs /\ RequestOK(c)
    BY CallIsRequest, CreatedSizes
<1>2. /\ Challenge(made, j) = spk /\ ScriptsSet(map, script, spk)
      /\ map.tap_merkle_root = None
    BY <1>1, MadeResolved, CreatedMaps DEF MadeMap
<1>3. \A h \in 1 .. Len(keys) : KeyAccepted(made, keys[h], j)
    OBVIOUS
<1>4. DOMAIN keys = 1 .. Len(keys)
    BY PrivateKeysListed
<1>5. CASE script # None /\ script.type = "multisig"
    <2>1. SigningRoute(made, j) = "multisig" /\ MultisigScript(map) = script
        BY <1>1, <1>5, MultisigMade
    <2>2. ParsesMultisig(script)
        BY <1>5, FinalizedScriptParses
    <2>3. InputScriptAccepted(script, spk)
        BY <1>1, <1>5, ScriptOfInput
    <2> HIDE DEF made, map, spk
    <2>4. \A h \in 1 .. Len(keys) : \E g \in DOMAIN script.keys : script.keys[g] = keys[h]
        BY <1>3, <2>1 DEF KeyAccepted, map
    <2>5. \A h \in DOMAIN keys : \E g \in DOMAIN script.keys :
              Point[keys[h]] = Point[script.keys[g]]
        BY <1>4, <2>4
    <2> QED BY <1>4, <1>5, <2>2, <2>3, <2>5 DEF Signable, spk
<1>6. CASE ~(script # None /\ script.type = "multisig")
    <2> DEFINE key == keys[1]
               route == SigningRoute(made, j)
    <2>1. Len(keys) = 1 /\ KeyAccepted(made, key, j)
        BY <1>3, <1>6
    <2> HIDE DEF made, map, spk, key
    <2>2. route # "multisig"
        <3> SUFFICES ASSUME route = "multisig" PROVE FALSE
            OBVIOUS
        <3>1. MultisigScript(map) # None /\ MultisigScript(map).type = "multisig"
            BY <2>1 DEF KeyAccepted, ParsesMultisig, map
        <3>2. script # None /\ MultisigScript(map) = script
            BY <1>2, <3>1 DEF ScriptsSet, MultisigScript
        <3> QED BY <1>6, <3>1, <3>2
    <2>3. \/ spk \in {P2tr(Point[key], None), P2pkh(key)}
          \/ key \in Compressed /\ spk = P2wpkh(key)
          \/ /\ key \in Compressed /\ spk = P2sh(P2wpkh(key))
             /\ route = "p2sh_p2wpkh" /\ map.redeem_script \in {None, P2wpkh(key)}
        BY <1>2, <2>1, <2>2 DEF KeyAccepted, map
    <2>4. ASSUME route = "p2sh_p2wpkh", spk = P2sh(P2wpkh(key)),
                 map.redeem_script \in {None, P2wpkh(key)}
          PROVE  script = None
        <3>1. spk.type = "p2sh"
            BY <2>4 DEF P2sh
        <3>2. map.witness_script = None
            BY <1>2, <2>4, <3>1 DEF SigningRoute, map
        <3>3. script # None => IsP2wpkh(script)
            BY <1>2, <2>4, <3>2 DEF ScriptsSet, IsP2wpkh, P2wpkh
        <3> QED BY <3>3
    <2> QED BY <2>1, <2>3, <2>4 DEF Signable, spk, key
<1> QED BY <1>5, <1>6

(* Every key given is one that the signer takes for the PSBT as created.   *)
LEMMA RolesKeys ==
    ASSUME AbsentIsNoFunction, call \in Calls, RolesProve,
           NEW j \in 1 .. Count, NEW h \in 1 .. Len(call.private_keys[j])
    PROVE  KeyAccepted(CreateBip322Psbt(call), call.private_keys[j][h], j)
<1> DEFINE made == CreateBip322Psbt(call)
           keys == call.private_keys[j]
           before == RolesPsbt[j - 1]
           psbt == SignedBy(before, keys, j)[h - 1]
<1>1. /\ Count \in Nat /\ Count = Len(call.inputs) + 1
      /\ j \in DOMAIN made.inputs /\ DOMAIN made.inputs = 1 .. Len(made.inputs)
    BY CallIsRequest, CreatedSizes DEF Count
<1>2. Len(keys) \in Nat /\ keys[h] \in Key
    BY <1>1, PrivateKeysListed
<1>3. \A i \in 1 .. Count : InputAccepted(RolesPsbt[i - 1], call, i)
    BY DEF RolesProve, InputAccepted
<1>4. InProgress(before, call, j, 0)
    <2>1. j - 1 \in 0 .. Count /\ \A i \in 1 .. j - 1 : i \in 1 .. Count
        BY <1>1
    <2>2. InProgress(RolesPsbt[j - 1], call, j - 1 + 1, 0)
        BY <1>3, <2>1, RolesProgress
    <2> QED BY <1>1, <2>2
<1>5. \A i \in 1 .. Len(keys) : SignAccepted(SignedBy(before, keys, j)[i - 1], keys[i], j)
    BY <1>3 DEF InputAccepted
<1>6. InProgress(psbt, call, j, h - 1)
    <2>1. h - 1 \in 0 .. Len(keys) /\ \A i \in 1 .. h - 1 : i \in 1 .. Len(keys)
        BY <1>2
    <2> HIDE DEF before
    <2> QED BY <1>1, <1>4, <1>5, <2>1, InputProgresses
<1>7. KeyAccepted(psbt, keys[h], j)
    BY <1>5 DEF SignAccepted
<1> HIDE DEF psbt, made, keys
<1>8. SameRequest(psbt, made)
    BY <1>6 DEF InProgress, Grown, made
<1> QED BY <1>1, <1>2, <1>7, <1>8, SameRoute DEF made, keys

LEMMA RolesFinalized ==
    ASSUME AbsentIsNoFunction, call \in Calls, RolesProve
    PROVE  Grown(RolesPsbt[Count], CreateBip322Psbt(call))
<1>1. Count \in Nat /\ Count \in 0 .. Count
    BY CallIsRequest DEF Count
<1>2. \A i \in 1 .. Count : InputAccepted(RolesPsbt[i - 1], call, i)
    BY DEF RolesProve, InputAccepted
<1>3. InProgress(RolesPsbt[Count], call, Count + 1, 0)
    BY <1>1, <1>2, RolesProgress
<1> QED BY <1>3 DEF InProgress

(* RefusesOnlyWhatRolesRefuse: what direct signing refuses, no order of    *)
(* the same keys through signer and finalizer proves.                      *)
THEOREM RefusesOnly == ASSUME AbsentIsNoFunction PROVE Spec => []RefusesOnlyWhatRolesRefuse
<1>1. DirectInv /\ ExactInv => RefusesOnlyWhatRolesRefuse
    <2> SUFFICES ASSUME DirectInv, ExactInv, result = "refused", WellCounted,
                        \A j \in 1 .. Count : ~IsP2wpkh(RequestedScript(call, j)),
                        call.format # "smp", call.format = "pof" => call.inputs # << >>,
                        RolesProve
                 PROVE  FALSE
        BY DEF RefusesOnlyWhatRolesRefuse
    <2>1. /\ call \in Calls /\ Count = Len(call.inputs) + 1 /\ 1 \in 1 .. Count
          /\ CreateAccepted(call) /\ FinalizeAccepted(RolesPsbt[Count])
        BY CallIsRequest DEF DirectInv, Count, RolesProve
    <2>2. /\ Grown(RolesPsbt[Count], CreateBip322Psbt(call))
          /\ DOMAIN RolesPsbt[Count].inputs = 1 .. Count
        BY <2>1, RolesFinalized, CallIsRequest, CreatedSizes DEF Grown, SameRequest, SameSpends
    <2>3. ASSUME NEW j \in 1 .. Count PROVE Signable(call, j)
        <3> DEFINE keys == call.private_keys[j]
                   script == RequestedScript(call, j)
                   psbt == RolesPsbt[Count]
                   needed == KeysNeeded(j)
        <3>1. /\ Len(keys) = needed
              /\ \A g, h \in 1 .. needed : Point[keys[g]] = Point[keys[h]] => g = h
            BY DEF WellCounted
        <3>2. needed = IF script # None /\ script.type = "multisig" THEN script.required ELSE 1
            BY DEF KeysNeeded
        <3>3. \A h \in 1 .. Len(keys) : KeyAccepted(CreateBip322Psbt(call), keys[h], j)
            BY <2>1, RolesKeys
        <3>4. InputFinalizable(psbt.inputs[j], Challenge(psbt, j))
            BY <2>1, <2>2 DEF FinalizeAccepted
        <3>5. ~IsP2wpkh(script) /\ j \in 1 .. Len(call.inputs) + 1
            BY <2>1
        <3>6. Grown(psbt, CreateBip322Psbt(call))
            BY <2>2
        <3> HIDE DEF psbt, needed
        <3>7. IF script # None /\ script.type = "multisig" THEN Len(keys) = script.required
              ELSE Len(keys) = 1
            BY <3>1, <3>2
        <3>8. \A g, h \in 1 .. Len(keys) : Point[keys[g]] = Point[keys[h]] => g = h
            BY <3>1
        <3> QED BY <2>1, <3>3, <3>4, <3>5, <3>6, <3>7, <3>8, ProvedSignable
    <2>4. CallAccepted
        <3>1. Signable(call, 1)
            BY <2>1, <2>3
        <3>2. Len(call.private_keys[1]) # 0
            <4>1. RequestedScript(call, 1).keys \in Seq(Key) =>
                      Len(RequestedScript(call, 1).keys) \in Nat
                BY LenProperties
            <4> QED BY <3>1, <4>1 DEF Signable, ParsesMultisig
        <3>3. call.private_keys[1] # << >>
            BY <3>2
        <3> QED BY <2>1, <3>3 DEF CallAccepted, CreateAccepted
    <2> QED BY <2>3, <2>4 DEF ExactInv
<1> QED BY <1>1, DirectInvariant, ExactInvariant, PTL

-----------------------------------------------------------------------------
(* What direct signing signs, the roles prove.                             *)

(* What the roles ask for beyond what direct signing asks for.             *)
RolesTake(c) ==
    /\ c.message \in Utf8
    /\ \A j \in 1 .. Len(c.inputs) + 1 :
           LET spk == RequestedPrevout(c, j).script_pubkey
               script == RequestedScript(c, j)
               keys == c.private_keys[j]
           IN  /\ spk.type \in {"p2wpkh", "p2pkh", "p2tr"} => script = None
               /\ script # None => \A h \in DOMAIN keys :
                      \E g \in DOMAIN script.keys : script.keys[g] = keys[h]

LEMMA SignableAsks ==
    ASSUME NEW c, NEW j \in 1 .. Len(c.inputs) + 1, RolesTake(c), Signable(c, j),
           NEW h \in DOMAIN c.private_keys[j],
           DOMAIN c.private_keys[j] = 1 .. Len(c.private_keys[j])
    PROVE  Asks(c, j, c.private_keys[j][h])
<1> DEFINE spk == RequestedPrevout(c, j).script_pubkey
           script == RequestedScript(c, j)
           keys == c.private_keys[j]
<1>1. Len(keys) = 1 => keys[h] = keys[1]
    OBVIOUS
<1>2. script # None => \E g \in DOMAIN script.keys : script.keys[g] = keys[h]
    BY DEF RolesTake
<1>3. \/ /\ Len(keys) = 1
         /\ \/ spk \in {P2tr(Point[keys[1]], None), P2pkh(keys[1])}
            \/ keys[1] \in Compressed /\ spk = P2wpkh(keys[1])
            \/ keys[1] \in Compressed /\ spk = P2sh(P2wpkh(keys[1])) /\ script = None
      \/ script # None /\ ParsesMultisig(script)
    BY DEF Signable
<1> HIDE DEF spk, script, keys
<1> QED BY <1>1, <1>2, <1>3 DEF Asks, spk, script, keys

(* Only the script of a multisig spend comes with it.                      *)
LEMMA SignableScript ==
    ASSUME NEW c, NEW j \in 1 .. Len(c.inputs) + 1, RolesTake(c), Signable(c, j)
    PROVE  LET spk == RequestedPrevout(c, j).script_pubkey
               script == RequestedScript(c, j)
           IN  /\ script # None => InputScriptAccepted(script, spk) /\ ParsesMultisig(script)
               /\ script = None => spk.type \in {"p2wpkh", "p2pkh", "p2tr", "p2sh"}
<1> DEFINE spk == RequestedPrevout(c, j).script_pubkey
           script == RequestedScript(c, j)
           keys == c.private_keys[j]
<1>1. spk.type \in {"p2wpkh", "p2pkh", "p2tr"} => script = None
    BY DEF RolesTake
<1>2. /\ \A x : P2pkh(x).type = "p2pkh" /\ P2wpkh(x).type = "p2wpkh" /\ P2sh(x).type = "p2sh"
      /\ \A x, y : P2tr(x, y).type = "p2tr"
    BY DEF P2pkh, P2wpkh, P2sh, P2tr
<1>3. \/ /\ Len(keys) = 1
         /\ \/ spk \in {P2tr(Point[keys[1]], None), P2pkh(keys[1])}
            \/ keys[1] \in Compressed /\ spk = P2wpkh(keys[1])
            \/ keys[1] \in Compressed /\ spk = P2sh(P2wpkh(keys[1])) /\ script = None
      \/ script # None /\ ParsesMultisig(script) /\ InputScriptAccepted(script, spk)
    BY DEF Signable
<1> HIDE DEF spk, script, keys
<1> QED BY <1>1, <1>2, <1>3 DEF spk, script

LEMMA SignedCreated ==
    ASSUME call \in Calls, CallAccepted, RolesTake(call),
           \A j \in 1 .. Count : Signable(call, j)
    PROVE  CreateAccepted(call)
<1>1. /\ Count = Len(call.inputs) + 1 /\ 1 \in 1 .. Count
      /\ \A j \in DOMAIN call.inputs : j + 1 \in 1 .. Count
    BY CallIsRequest, CreatedSizes DEF Count
<1>2. \A j \in 1 .. Count :
          LET spk == RequestedPrevout(call, j).script_pubkey
              script == RequestedScript(call, j)
          IN  /\ script # None => InputScriptAccepted(script, spk) /\ ParsesMultisig(script)
              /\ script = None => spk.type \in {"p2wpkh", "p2pkh", "p2tr", "p2sh"}
              /\ spk.type \in {"p2wpkh", "p2pkh", "p2tr"} => script = None
    BY <1>1, SignableScript DEF RolesTake
<1>3. ChallengeScriptAccepted(call)
    <2>1. /\ RequestedPrevout(call, 1).script_pubkey = call.challenge
          /\ RequestedScript(call, 1) = call.witness_script
        BY DEF RequestedPrevout, RequestedScript, TxOut
    <2>2. /\ call.witness_script # None =>
                 InputScriptAccepted(call.witness_script, call.challenge)
          /\ call.witness_script = None =>
                 call.challenge.type \in {"p2wpkh", "p2pkh", "p2tr", "p2sh"}
          /\ call.challenge.type \in {"p2wpkh", "p2pkh", "p2tr"} => call.witness_script = None
        BY <1>1, <1>2, <2>1
    <2> QED BY <2>2 DEF ChallengeScriptAccepted
<1>4. ASSUME NEW j \in DOMAIN call.inputs, call.inputs[j].witness_script # None
      PROVE  InputScriptAccepted(call.inputs[j].witness_script,
                                 call.inputs[j].prevout.script_pubkey)
    <2> DEFINE i == j + 1
    <2>1. i \in 1 .. Count /\ i # 1 /\ i - 1 = j
        <3>1. j \in Nat /\ j # 0
            BY CallIsRequest, CreatedSizes
        <3>2. j + 1 \in 1 .. Count
            BY <1>1
        <3> HIDE DEF Count
        <3> QED BY <3>1, <3>2
    <2> HIDE DEF i
    <2>2. /\ RequestedPrevout(call, i) = call.inputs[j].prevout
          /\ RequestedScript(call, i) = call.inputs[j].witness_script
        BY <2>1 DEF RequestedPrevout, RequestedScript
    <2> QED BY <1>2, <1>4, <2>1, <2>2
<1>5. CreateProofAccepted(call)
    <2>1. CASE call.format = "pof"
        BY <2>1 DEF CallAccepted
    <2>2. CASE call.format # "pof"
        <3>1. call.inputs = << >> /\ Len(call.inputs) = 0
            <4>1. call.inputs = << >>
                BY <2>2, CallAssumption
            <4> QED BY <4>1
        <3>2. Len(call.inputs) + 1 <= MaxProofInputs
            BY <3>1, ChainAssumption
        <3>3. OutpointsValid(RequestTx(call))
            <4> DEFINE tx == RequestTx(call)
            <4>1. /\ DOMAIN tx.input = 1 .. 1
                  /\ tx.input[1].previous_output
                         = [txid |-> ToSpend(call.challenge, call.message), vout |-> 0]
                BY <3>1, CallIsRequest, Created
            <4> HIDE DEF tx
            <4>2. tx.input[1].previous_output.vout = 0
                BY <4>1
            <4>3. tx.input[1].previous_output # NullOutpoint
                BY <4>2, ChainAssumption
            <4>4. \A h \in 1 .. 1 : h = 1
                OBVIOUS
            <4>5. OutpointsValid(tx)
                BY <4>1, <4>3, <4>4 DEF OutpointsValid
            <4> QED BY <4>5 DEF tx
        <3>4. DOMAIN call.inputs = {}
            BY <3>1
        <3> QED BY <3>2, <3>3, <3>4 DEF CreateProofAccepted, RolesTake
    <2> QED BY <2>1, <2>2
<1> QED BY <1>3, <1>4, <1>5 DEF CreateAccepted

(* The signer takes each key in turn.                                      *)
LEMMA SignedTaken ==
    ASSUME AbsentIsNoFunction, NEW c \in Calls, CreateAccepted(c), ClaimsAgree(c), RolesTake(c),
           NEW j \in 1 .. Len(c.inputs) + 1, Signable(c, j),
           NEW psbt, Grown(psbt, CreateBip322Psbt(c)),
           NEW h \in 1 .. Len(c.private_keys[j])
    PROVE  SignAccepted(psbt, c.private_keys[j][h], j)
<1> DEFINE made == CreateBip322Psbt(c)
           key == c.private_keys[j][h]
<1>1. /\ RequestOK(c) /\ j \in DOMAIN made.inputs
      /\ DOMAIN made.inputs = 1 .. Len(made.inputs) /\ Len(made.inputs) \in Nat
    BY CallIsRequest, CreatedSizes
<1>2. key \in Key /\ Asks(c, j, key)
    BY PrivateKeysListed, SignableAsks
<1>3. KeyAccepted(made, key, j) /\ RequestAccepted(made)
    BY <1>1, <1>2, AskedKeyAccepted, MadeAccepted
<1>4. Grown(psbt, made)
    OBVIOUS
<1> HIDE DEF made, key
<1>5. SameRequest(psbt, made) /\ DOMAIN psbt.inputs = DOMAIN made.inputs
    BY <1>4 DEF Grown, SameRequest, SameSpends
<1>6. RequestAccepted(psbt) /\ KeyAccepted(psbt, key, j)
    BY <1>1, <1>2, <1>3, <1>5, SameAcceptance, SameRoute
<1> QED BY <1>1, <1>5, <1>6 DEF SignAccepted, key

LEMMA InputTaken ==
    ASSUME AbsentIsNoFunction, NEW c \in Calls, CreateAccepted(c), ClaimsAgree(c), RolesTake(c),
           NEW j \in 1 .. Len(c.inputs) + 1, Signable(c, j),
           NEW psbt, InProgress(psbt, c, j, 0)
    PROVE  InputAccepted(psbt, c, j)
<1> DEFINE keys == c.private_keys[j]
           Taken(h) == SignAccepted(SignedBy(psbt, keys, j)[h - 1], keys[h], j)
           refused == { h \in 1 .. Len(keys) : ~Taken(h) }
<1>1. Len(keys) \in Nat
    BY PrivateKeysListed
<1>2. SUFFICES ASSUME refused # {} PROVE FALSE
    BY DEF InputAccepted
<1>3. PICK h \in refused : \A i \in refused : h <= i
    <2>1. refused \subseteq Nat
        OBVIOUS
    <2> HIDE DEF refused
    <2> QED BY <1>2, <2>1, LeastOf
<1>4. /\ h \in 1 .. Len(keys) /\ ~Taken(h) /\ h - 1 \in 0 .. Len(keys)
      /\ \A i \in 1 .. h - 1 : i \in 1 .. Len(keys) /\ ~(h <= i)
    BY <1>1, <1>3
<1>5. \A i \in 1 .. h - 1 : Taken(i)
    BY <1>3, <1>4
<1>6. InProgress(SignedBy(psbt, keys, j)[h - 1], c, j, h - 1)
    BY <1>4, <1>5, InputProgresses
<1>7. Grown(SignedBy(psbt, keys, j)[h - 1], CreateBip322Psbt(c))
    BY <1>6 DEF InProgress
<1>8. Taken(h)
    BY <1>4, <1>7, SignedTaken
<1> QED BY <1>4, <1>8

LEMMA RolesTaken ==
    ASSUME AbsentIsNoFunction, call \in Calls, CreateAccepted(call), ClaimsAgree(call),
           RolesTake(call), \A j \in 1 .. Count : Signable(call, j)
    PROVE  \A j \in 1 .. Count : InputAccepted(RolesPsbt[j - 1], call, j)
<1> DEFINE Taken(j) == InputAccepted(RolesPsbt[j - 1], call, j)
           refused == { j \in 1 .. Count : ~Taken(j) }
<1>1. Count \in Nat /\ Count = Len(call.inputs) + 1
    BY CallIsRequest DEF Count
<1>2. SUFFICES ASSUME refused # {} PROVE FALSE
    OBVIOUS
<1>3. PICK j \in refused : \A i \in refused : j <= i
    <2>1. refused \subseteq Nat
        OBVIOUS
    <2> HIDE DEF refused
    <2> QED BY <1>2, <2>1, LeastOf
<1>4. /\ j \in 1 .. Count /\ ~Taken(j) /\ j - 1 \in 0 .. Count /\ j - 1 + 1 = j
      /\ \A i \in 1 .. j - 1 : i \in 1 .. Count /\ ~(j <= i)
    BY <1>1, <1>3
<1>5. \A i \in 1 .. j - 1 : Taken(i)
    BY <1>3, <1>4
<1>6. InProgress(RolesPsbt[j - 1], call, j, 0)
    <2>1. InProgress(RolesPsbt[j - 1], call, j - 1 + 1, 0)
        BY <1>4, <1>5, RolesProgress
    <2> QED BY <1>4, <2>1
<1>7. Taken(j)
    BY <1>1, <1>4, <1>6, InputTaken
<1> QED BY <1>4, <1>7

(* The marks of all its keys are enough to finalize an input.              *)
LEMMA GrownScripts ==
    ASSUME AbsentIsNoFunction, NEW c \in Calls, CreateAccepted(c),
           NEW j \in 1 .. Len(c.inputs) + 1,
           NEW psbt, Grown(psbt, CreateBip322Psbt(c)),
           NEW map, map = psbt.inputs[j],
           NEW route, route = SigningRoute(CreateBip322Psbt(c), j)
    PROVE  /\ Challenge(psbt, j) = RequestedPrevout(c, j).script_pubkey
           /\ Challenge(CreateBip322Psbt(c), j) = RequestedPrevout(c, j).script_pubkey
           /\ map.sighash_type = None
           /\ map.witness_script = CreateBip322Psbt(c).inputs[j].witness_script
           /\ route # "p2sh_p2wpkh" =>
                  map.redeem_script = CreateBip322Psbt(c).inputs[j].redeem_script
           /\ \A key \in Key : map.partial_sigs[key] # None =>
                  route # "p2tr" /\ map.partial_sigs[key].sighash_type = "ALL"
           /\ map.tap_key_sig # None => route = "p2tr" /\ map.tap_key_sig.sighash_type = "ALL"
<1> DEFINE made == CreateBip322Psbt(c)
           old == made.inputs[j]
<1>1. /\ RequestOK(c) /\ j \in DOMAIN made.inputs
      /\ DOMAIN made.inputs = 1 .. Len(made.inputs)
    BY CallIsRequest, CreatedSizes
<1>2. Challenge(made, j) = RequestedPrevout(c, j).script_pubkey
    BY <1>1, MadeResolved
<1>3. old.sighash_type = None
    BY <1>1, CreatedMaps DEF MadeMap
<1>4. Grown(psbt, made) /\ route = SigningRoute(made, j)
    OBVIOUS
<1> HIDE DEF made, old
<1>5. SameRequest(psbt, made) /\ GrownMap(map, made, j)
    BY <1>1, <1>4 DEF Grown
<1>6. Challenge(psbt, j) = Challenge(made, j)
    BY <1>1, <1>5, SamePrevouts DEF SameRequest
<1>7. /\ map.sighash_type = old.sighash_type /\ map.witness_script = old.witness_script
      /\ route # "p2sh_p2wpkh" => map.redeem_script = old.redeem_script
    BY <1>1, <1>4, <1>5, SameRoute DEF SameRequest, SameScripts, old
<1>8. \A key : SignatureOf(made, key, j).sighash_type = "ALL"
    BY <1>3 DEF SignatureOf, Signature, SigningTaprootSighash, old
<1> QED BY <1>2, <1>3, <1>4, <1>5, <1>6, <1>7, <1>8 DEF GrownMap, SignedFor, made, old

(* Keys that the signer took are keys of the script, each its own.         *)
KeysGiven(map, keys, script) ==
    /\ MultisigScript(map) = script /\ ParsesMultisig(script)
    /\ Len(keys) = script.required /\ Len(keys) \in Nat /\ DOMAIN keys = 1 .. Len(keys)
    /\ \A h, i \in DOMAIN keys : Point[keys[h]] = Point[keys[i]] => h = i
    /\ \A h \in DOMAIN keys : \E g \in DOMAIN script.keys : script.keys[g] = keys[h]
    /\ \A key \in Key :
           map.partial_sigs[key] # None <=> \E h \in 1 .. Len(keys) : keys[h] = key

LEMMA EnoughGiven ==
    ASSUME NEW map, NEW keys, NEW script, KeysGiven(map, keys, script)
    PROVE  EnoughSigned(map)
<1> USE DEF KeysGiven
<1> DEFINE size == Len(keys)
           signed == { g \in DOMAIN script.keys : map.partial_sigs[script.keys[g]] # None }
           place == [h \in 1 .. size |-> CHOOSE g \in DOMAIN script.keys : script.keys[g] = keys[h]]
<1>1. DOMAIN script.keys = 1 .. Len(script.keys) /\ Len(script.keys) \in Nat
      /\ \A g \in DOMAIN script.keys : script.keys[g] \in Key
    BY LenProperties, ElementOfSeq DEF ParsesMultisig
<1>2. \A h \in 1 .. size : place[h] \in DOMAIN script.keys /\ script.keys[place[h]] = keys[h]
    OBVIOUS
<1> HIDE DEF place
<1>3. \A h \in 1 .. size : place[h] \in signed
    BY <1>1, <1>2
<1>4. place \in Injection(1 .. size, signed)
    <2>1. \A h, i \in 1 .. size : place[h] = place[i] => h = i
        BY <1>2
    <2>2. place \in [1 .. size -> signed]
        <3>1. place = [h \in 1 .. size |-> place[h]]
            BY DEF place
        <3> HIDE DEF signed, size
        <3> QED BY <1>3, <3>1
    <2>3. DOMAIN place = 1 .. size
        BY <2>2
    <2> HIDE DEF signed, size
    <2> QED BY <2>1, <2>2, <2>3 DEF Injection, IsInjective
<1>5. IsFiniteSet(signed)
    <2>1. IsFiniteSet(1 .. Len(script.keys))
        BY <1>1, FS_Interval
    <2>2. signed \in SUBSET (1 .. Len(script.keys))
        BY <1>1
    <2> HIDE DEF signed
    <2> QED BY <2>1, <2>2, FS_Subset
<1>6. Cardinality(1 .. size) <= Cardinality(signed) /\ Cardinality(1 .. size) = size
      /\ Cardinality(signed) \in Nat
    <2>1. size \in Nat
        OBVIOUS
    <2> HIDE DEF signed, size
    <2>2. Cardinality(1 .. size) <= Cardinality(signed)
        BY <1>4, <1>5, FS_Injection
    <2>3. Cardinality(1 .. size) = IF 1 > size THEN 0 ELSE size - 1 + 1
        <3>1. 1 \in Int /\ size \in Int
            BY <2>1
        <3> QED BY <3>1, FS_Interval, Zenon
    <2>4. Cardinality(1 .. size) = size
        BY <2>1, <2>3
    <2>5. Cardinality(signed) \in Nat
        BY <1>5, FS_CardinalityType
    <2> QED BY <2>2, <2>4, <2>5
<1>7. EnoughSigned(map) <=> Cardinality(signed) >= script.required
    BY DEF EnoughSigned
<1> HIDE DEF signed
<1> QED BY <1>6, <1>7

LEMMA FinalizableInput ==
    ASSUME AbsentIsNoFunction, NEW c \in Calls, CreateAccepted(c), RolesTake(c),
           NEW j \in 1 .. Len(c.inputs) + 1, Signable(c, j),
           NEW psbt, Grown(psbt, CreateBip322Psbt(c)),
           Given(psbt.inputs[j], c, j, CreateBip322Psbt(c), Len(c.private_keys[j]))
    PROVE  InputFinalizable(psbt.inputs[j], Challenge(psbt, j))
<1> DEFINE made == CreateBip322Psbt(c)
           old == made.inputs[j]
           map == psbt.inputs[j]
           challenge == Challenge(psbt, j)
           spk == RequestedPrevout(c, j).script_pubkey
           script == RequestedScript(c, j)
           keys == c.private_keys[j]
           key == keys[1]
           route == SigningRoute(made, j)
<1>1. RequestOK(c)
    BY CallIsRequest
<1>2. /\ challenge = spk /\ Challenge(made, j) = spk
      /\ map.sighash_type = None /\ map.witness_script = old.witness_script
      /\ route # "p2sh_p2wpkh" => map.redeem_script = old.redeem_script
      /\ \A x \in Key : map.partial_sigs[x] # None =>
             route # "p2tr" /\ map.partial_sigs[x].sighash_type = "ALL"
      /\ map.tap_key_sig # None => route = "p2tr" /\ map.tap_key_sig.sighash_type = "ALL"
    BY GrownScripts
<1>3. ScriptsSet(old, script, spk)
    BY <1>1, CreatedMaps DEF MadeMap
<1>4. /\ Len(keys) \in Nat /\ DOMAIN keys = 1 .. Len(keys)
      /\ \A h \in 1 .. Len(keys) : keys[h] \in Key
    BY PrivateKeysListed
<1>5. Given(map, c, j, made, Len(keys))
    OBVIOUS
<1>6. script # None => ParsesMultisig(script)
    BY SignableScript
<1>7. script # None /\ script.type = "multisig" =>
          /\ route = "multisig" /\ MultisigScript(old) = script
          /\ MultisigChallengeAccepted(old, spk)
          /\ ~IsP2wpkh(old.redeem_script) /\ spk.type \in {"p2wsh", "p2sh"}
    BY <1>1, MultisigMade
<1>8. DeclaresEcdsaSighash(map)
    BY <1>2 DEF DeclaresEcdsaSighash
<1>9. /\ \A x : P2pkh(x).type = "p2pkh" /\ P2wpkh(x).type = "p2wpkh" /\ P2sh(x).type = "p2sh"
      /\ \A x, y : P2tr(x, y).type = "p2tr"
      /\ \A x : P2wpkh(x) # None
    BY Present DEF P2pkh, P2wpkh, P2sh, P2tr
<1>10. \/ /\ script = None /\ Len(keys) = 1
          /\ \/ spk \in {P2tr(Point[key], None), P2pkh(key)}
             \/ key \in Compressed /\ spk = P2wpkh(key)
             \/ key \in Compressed /\ spk = P2sh(P2wpkh(key))
       \/ /\ script # None /\ Len(keys) = script.required
          /\ \A h, i \in DOMAIN keys : Point[keys[h]] = Point[keys[i]] => h = i
    <2>1. spk.type \in {"p2wpkh", "p2pkh", "p2tr"} => script = None
        BY DEF RolesTake
    <2> HIDE DEF spk, script, keys
    <2> QED BY <1>9, <2>1 DEF Signable, spk, script, keys
<1>11. script # None => \A h \in DOMAIN keys : \E g \in DOMAIN script.keys : script.keys[g] = keys[h]
    BY DEF RolesTake
<1> HIDE DEF made, old, map, challenge, spk, script, keys, key, route
<1>12. CASE script # None
    <2>1. ParsesMultisig(script) /\ script.type = "multisig"
        BY <1>6, <1>12 DEF ParsesMultisig
    <2>2. /\ map.tap_key_sig = None /\ ~IsP2wpkh(map.redeem_script)
          /\ MultisigScript(map) = script /\ MultisigChallengeAccepted(map, challenge)
        BY <1>2, <1>7, <1>12, <2>1
        DEF MultisigScript, MultisigChallengeAccepted, IsWitnessMultisig
    <2>3. FinalizingRoute(map, challenge) = "multisig"
        BY <1>2, <1>7, <1>12, <2>1, <2>2 DEF FinalizingRoute
    <2>4. EnoughSigned(map)
        <3>1. \A x \in Key :
                  map.partial_sigs[x] # None <=> \E h \in 1 .. Len(keys) : keys[h] = x
            BY <1>5, <1>7, <1>12, <2>1 DEF Given, keys, route
        <3>2. /\ Len(keys) = script.required
              /\ \A h, i \in DOMAIN keys : Point[keys[h]] = Point[keys[i]] => h = i
            BY <1>10, <1>12
        <3>3. \A h \in DOMAIN keys : \E g \in DOMAIN script.keys : script.keys[g] = keys[h]
            BY <1>11, <1>12
        <3>4. KeysGiven(map, keys, script)
            BY <1>4, <2>1, <2>2, <3>1, <3>2, <3>3 DEF KeysGiven
        <3> QED BY <3>4, EnoughGiven
    <2>5. \A x \in Signers(map) : map.partial_sigs[x].sighash_type = "ALL"
        BY <1>2 DEF Signers
    <2> QED BY <1>8, <1>12, <2>1, <2>2, <2>3, <2>4, <2>5 DEF InputFinalizable, map, challenge
<1>13. CASE script = None
    <2>1. Len(keys) = 1 /\ key \in Key /\ key = keys[Len(keys)]
        <3>1. Len(keys) = 1
            BY <1>10, <1>13
        <3>2. 1 \in 1 .. Len(keys)
            BY <3>1
        <3>3. keys[1] \in Key
            BY <1>4, <3>2
        <3> QED BY <3>1, <3>3 DEF key
    <2>2. old.witness_script = None /\ old.redeem_script = None
        BY <1>3, <1>13 DEF ScriptsSet
    <2>3. route # "p2tr" => SinglePartialSig(map, key)
        <3> SUFFICES ASSUME route # "p2tr" PROVE SinglePartialSig(map, key)
            OBVIOUS
        <3>1. \A x \in Key : map.partial_sigs[x] # None <=> \E h \in 1 .. Len(keys) : keys[h] = x
            BY <1>5 DEF Given, keys, route
        <3>2. \A x \in Key : map.partial_sigs[x] # None <=> x = key
            <4>1. \A h : h \in 1 .. 1 <=> h = 1
                OBVIOUS
            <4> QED BY <2>1, <3>1, <4>1 DEF key
        <3>3. Signers(map) = {key}
            BY <2>1, <3>2 DEF Signers
        <3> QED BY <1>2, <1>8, <2>1, <3>2, <3>3 DEF SinglePartialSig
    <2>4. route # "p2sh_p2wpkh" => ~IsP2wpkh(map.redeem_script)
        BY <1>2, <2>2 DEF IsP2wpkh
    <2>5. CASE spk = P2tr(Point[key], None)
        <3>1. route = "p2tr"
            BY <1>2, <1>9, <2>5 DEF SigningRoute, route
        <3>2. map.tap_key_sig # None
            BY <1>5, <2>1, <3>1 DEF Given, keys, route
        <3> QED BY <1>2, <1>9, <2>5, <3>2
            DEF InputFinalizable, FinalizingRoute, map, challenge
    <2>6. CASE spk = P2pkh(key)
        <3>1. route = "p2pkh"
            BY <1>2, <1>9, <2>6 DEF SigningRoute, route
        <3>2. FinalizingRoute(map, challenge) = "p2pkh"
            BY <1>2, <1>9, <2>4, <2>6, <3>1 DEF FinalizingRoute
        <3> QED BY <1>2, <2>1, <2>3, <2>6, <3>1, <3>2 DEF InputFinalizable, map, challenge
    <2>7. CASE key \in Compressed /\ spk = P2wpkh(key)
        <3>1. route = "p2wpkh"
            BY <1>2, <1>9, <2>7 DEF SigningRoute, route
        <3>2. FinalizingRoute(map, challenge) = "p2wpkh"
            BY <1>2, <1>9, <2>4, <2>7, <3>1 DEF FinalizingRoute
        <3> QED BY <1>2, <2>3, <2>7, <3>1, <3>2 DEF InputFinalizable, map, challenge
    <2>8. CASE key \in Compressed /\ spk = P2sh(P2wpkh(key))
        <3>1. route = "p2sh_p2wpkh"
            BY <1>2, <1>9, <2>2, <2>8 DEF SigningRoute, route, old
        <3>2. map.tap_key_sig = None /\ map.redeem_script = P2wpkh(key)
            BY <1>2, <1>5, <2>1, <3>1 DEF Given, keys, route
        <3>3. IsP2wpkh(map.redeem_script)
            BY <1>9, <3>2 DEF IsP2wpkh
        <3>4. FinalizingRoute(map, challenge) = "p2sh_p2wpkh"
            BY <3>2, <3>3 DEF FinalizingRoute
        <3> QED BY <1>2, <2>3, <2>8, <3>1, <3>2, <3>4 DEF InputFinalizable, map, challenge
    <2> QED BY <1>10, <1>13, <2>5, <2>6, <2>7, <2>8
<1> QED BY <1>12, <1>13

LEMMA RolesFinalize ==
    ASSUME AbsentIsNoFunction, call \in Calls, CreateAccepted(call), ClaimsAgree(call),
           RolesTake(call), \A j \in 1 .. Count : Signable(call, j),
           NEW psbt, InProgress(psbt, call, Count + 1, 0)
    PROVE  FinalizeAccepted(psbt)
<1> DEFINE made == CreateBip322Psbt(call)
<1>1. /\ Count = Len(call.inputs) + 1 /\ Count \in Nat /\ 1 \in 1 .. Count /\ RequestOK(call)
      /\ DOMAIN made.inputs = 1 .. Count /\ Len(made.inputs) = Count
    BY CallIsRequest, CreatedSizes DEF Count
<1>2. /\ RequestAccepted(made) /\ Resolve(made, 1) = TxOut(0, call.challenge)
      /\ Challenge(made, 1) = ClaimedChallenge(made).script_pubkey
      /\ ClaimedChallenge(made) = TxOut(0, call.challenge)
    BY <1>1, MadeAccepted, MadeResolved DEF RequestedPrevout, Challenge
<1>3. /\ Grown(psbt, made)
      /\ \A i \in 1 .. Count :
             Given(psbt.inputs[i], call, i, made, GivenCount(call, i, Count + 1, 0))
    BY <1>1 DEF InProgress
<1> HIDE DEF made
<1>4. SameRequest(psbt, made)
    BY <1>3 DEF Grown
<1>5. /\ DOMAIN psbt.inputs = 1 .. Count /\ Len(psbt.inputs) = Count
      /\ RequestAccepted(psbt)
    BY <1>1, <1>2, <1>4, SameAcceptance DEF SameRequest, SameSpends
<1>6. Resolve(psbt, 1).script_pubkey = ClaimedChallenge(psbt).script_pubkey
    <2>1. Resolve(psbt, 1) = Resolve(made, 1) /\ Challenge(psbt, 1) = Challenge(made, 1)
        BY <1>1, <1>4, SamePrevouts DEF SameRequest
    <2> QED BY <1>2, <2>1 DEF Challenge
<1>7. Count <= MaxProofInputs
    BY <1>1 DEF CreateAccepted, CreateProofAccepted
<1>8. ASSUME NEW i \in 1 .. Count
      PROVE  InputFinalizable(psbt.inputs[i], Challenge(psbt, i))
    <2>1. GivenCount(call, i, Count + 1, 0) = Len(call.private_keys[i])
        BY <1>1 DEF GivenCount
    <2> QED BY <1>1, <1>3, <2>1, FinalizableInput DEF made
<1> QED BY <1>5, <1>6, <1>7, <1>8 DEF FinalizeAccepted

(* RolesProveWhatIsSigned: what direct signing signs, with claims that     *)
(* agree, the same keys prove by way of create, sign and finalize, but for *)
(* the calls that the roles are stricter about.                            *)
THEOREM RolesProveSigned == ASSUME AbsentIsNoFunction PROVE Spec => []RolesProveWhatIsSigned
<1>1. DirectInv /\ ExactInv => RolesProveWhatIsSigned
    <2> SUFFICES ASSUME DirectInv, ExactInv, result = "ok", ClaimsAgree(call), ~StricterInRoles
                 PROVE  RolesProve
        BY DEF RolesProveWhatIsSigned
    <2>1. /\ call \in Calls /\ pc = "done" /\ CallAccepted
          /\ Count = Len(call.inputs) + 1 /\ Count \in Nat
        BY CallIsRequest DEF DirectInv, Accepting, Count
    <2>2. \A j \in 1 .. Count : Signable(call, j)
        BY <2>1 DEF ExactInv, Accepting
    <2>3. RolesTake(call)
        BY <2>1 DEF StricterInRoles, RolesTake
    <2>4. CreateAccepted(call)
        BY <2>1, <2>2, <2>3, SignedCreated
    <2>5. \A j \in 1 .. Count : InputAccepted(RolesPsbt[j - 1], call, j)
        BY <2>1, <2>2, <2>3, <2>4, RolesTaken
    <2>6. InProgress(RolesPsbt[Count], call, Count + 1, 0)
        <3>1. Count \in 0 .. Count
            BY <2>1
        <3> QED BY <2>1, <2>5, <3>1, RolesProgress
    <2>7. FinalizeAccepted(RolesPsbt[Count])
        BY <2>1, <2>2, <2>3, <2>4, <2>6, RolesFinalize
    <2> QED BY <2>4, <2>5, <2>7 DEF RolesProve, InputAccepted
<1> QED BY <1>1, DirectInvariant, ExactInvariant, PTL

=============================================================================
