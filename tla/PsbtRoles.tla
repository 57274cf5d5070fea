----------------------------- MODULE PsbtRoles -----------------------------
(***************************************************************************)
(* The PSBT roles as functions of one PSBT: detection (src/psbt.rs), the   *)
(* signer (src/psbt/signer.rs), the finalizer (src/psbt/finalizer.rs), the *)
(* rules they share (src/psbt/helpers.rs, src/psbt/prevouts.rs) and the    *)
(* combiner they rely on, Psbt::combine of rust-bitcoin.  A role returns   *)
(* Ok exactly when its ...Accepted predicate holds; a call that fails      *)
(* leaves the PSBT as it was.                                              *)
(***************************************************************************)
EXTENDS Bip322

-----------------------------------------------------------------------------
(* PrevoutResolver, in the closed form that module Prevouts shows the map  *)
(* lookup to have.                                                         *)

Outpoint(psbt, n) == psbt.unsigned_tx.input[n].previous_output

HasNonWitness(psbt, n) ==
    \E h \in 1 .. n : psbt.inputs[h].non_witness_utxo = Outpoint(psbt, n).txid

IndexedOk(psbt) ==
    \A n \in DOMAIN psbt.inputs :
        psbt.inputs[n].non_witness_utxo \in {None, Outpoint(psbt, n).txid}

HasSpentOutput(psbt, n) ==
    Outpoint(psbt, n).vout < Len(Outputs(Outpoint(psbt, n).txid))
SpentOutput(psbt, n) ==
    Outputs(Outpoint(psbt, n).txid)[Outpoint(psbt, n).vout + 1]

Resolvable(psbt, n) ==
    LET own == psbt.inputs[n].witness_utxo IN
        IF HasNonWitness(psbt, n)
           THEN HasSpentOutput(psbt, n) /\ own \in {None, SpentOutput(psbt, n)}
           ELSE own # None

Resolve(psbt, n) ==
    IF psbt.inputs[n].witness_utxo # None THEN psbt.inputs[n].witness_utxo
    ELSE SpentOutput(psbt, n)

(* Mutant: spends_witness is asked without the redeem script, so that all  *)
(* P2SH outputs count as segwit.                                           *)
CheckedPrevoutP2sh(psbt, n) ==
    /\ Resolvable(psbt, n)
    /\ \/ SpendsWitness(Resolve(psbt, n).script_pubkey, None)
       \/ HasNonWitness(psbt, n)

(* checked_psbt_input_prevout.                                             *)
CheckedPrevout(psbt, n) ==
    /\ Resolvable(psbt, n)
    /\ \/ SpendsWitness(Resolve(psbt, n).script_pubkey, psbt.inputs[n].redeem_script)
       \/ HasNonWitness(psbt, n)

-----------------------------------------------------------------------------
(* detect_bip322_psbt.                                                     *)

(* The output that the first input's own UTXO fields claim.                *)
ClaimedChallenge(psbt) ==
    LET first == psbt.inputs[1] IN
        IF first.witness_utxo # None THEN first.witness_utxo
        ELSE Outputs(first.non_witness_utxo)[1]

ChallengeUtxoConsistent(psbt) ==
    LET first == psbt.inputs[1] IN
        /\ first.non_witness_utxo \in {None, Outpoint(psbt, 1).txid}
        /\ first.non_witness_utxo # None =>
               /\ Len(Outputs(first.non_witness_utxo)) > 0
               /\ first.witness_utxo \in {None, Outputs(first.non_witness_utxo)[1]}
        /\ first.witness_utxo # None \/ first.non_witness_utxo # None

(* Mutant: the outpoint is not compared with the to_spend it must name.    *)
DetectedUnbound(psbt) ==
    /\ psbt.message \in Utf8
    /\ MapsMatch(psbt)
    /\ Len(psbt.inputs) > 0
    /\ Outpoint(psbt, 1).vout = 0
    /\ ChallengeUtxoConsistent(psbt)
    /\ ClaimedChallenge(psbt).value = 0
    /\ IsBip322Output(psbt.unsigned_tx.output)

(* Mutant: any outputs are taken for to_sign's.                            *)
DetectedAnyOutput(psbt) ==
    /\ psbt.message \in Utf8
    /\ MapsMatch(psbt)
    /\ Len(psbt.inputs) > 0
    /\ Outpoint(psbt, 1).vout = 0
    /\ ChallengeUtxoConsistent(psbt)
    /\ ClaimedChallenge(psbt).value = 0
    /\ Outpoint(psbt, 1).txid
           = ToSpend(ClaimedChallenge(psbt).script_pubkey, psbt.message)

Detected(psbt) ==
    /\ psbt.message \in Utf8
    /\ MapsMatch(psbt)
    /\ Len(psbt.inputs) > 0
    /\ Outpoint(psbt, 1).vout = 0
    /\ ChallengeUtxoConsistent(psbt)
    /\ ClaimedChallenge(psbt).value = 0
    /\ Outpoint(psbt, 1).txid
           = ToSpend(ClaimedChallenge(psbt).script_pubkey, psbt.message)
    /\ IsBip322Output(psbt.unsigned_tx.output)

(* The message and the challenge a signer is told to display.              *)
DetectedRequest(psbt) ==
    [message |-> psbt.message,
     message_challenge |-> ClaimedChallenge(psbt).script_pubkey]

(* The checks the signer and the finalizer both start with.                *)
RequestAccepted(psbt) ==
    /\ Detected(psbt)
    /\ StructureValid(psbt)
    /\ IndexedOk(psbt)
    /\ \A n \in DOMAIN psbt.inputs : CheckedPrevout(psbt, n)

(* Input 1 is bound to the detected challenge, a proof input to its own    *)
(* previous output.                                                        *)
Challenge(psbt, n) ==
    IF n = 1 THEN ClaimedChallenge(psbt).script_pubkey
    ELSE Resolve(psbt, n).script_pubkey

-----------------------------------------------------------------------------
(* Sighashes: what each algorithm commits to.                              *)

Prevouts(psbt) == [n \in DOMAIN psbt.inputs |-> Resolve(psbt, n)]

Sighash(algorithm, tx, n, script, prevouts, sighash_type) ==
    [algorithm |-> algorithm, tx |-> tx, index |-> n, script |-> script,
     prevouts |-> prevouts, sighash_type |-> sighash_type]

(* legacy_signature_hash covers no value; p2wpkh_ and p2wsh_signature_hash *)
(* cover the input's own value; the taproot sighash covers every prevout.  *)
LegacySighash(tx, n, script) == Sighash("legacy", tx, n, script, << >>, "ALL")
SegwitSighash(tx, n, script, value) == Sighash("v0", tx, n, script, <<value>>, "ALL")
TaprootSighash(tx, n, prevouts, sighash_type) ==
    Sighash("taproot", tx, n, None, prevouts, sighash_type)

Signature(scheme, point, sighash, sighash_type) ==
    [scheme |-> scheme, point |-> point, sighash |-> sighash,
     sighash_type |-> sighash_type]

-----------------------------------------------------------------------------
(* sign_bip322_psbt_input.                                                 *)

DeclaresEcdsaSighash(map) == map.sighash_type \in {None, "ALL"}

SigningTaprootSighash(map) ==
    IF map.sighash_type = None THEN "ALL" ELSE map.sighash_type

(* The script of a multisig input, and whether it is a witness script.     *)
MultisigScript(map) ==
    IF map.witness_script # None THEN map.witness_script ELSE map.redeem_script
IsWitnessMultisig(map) == map.witness_script # None

(* require_multisig_challenge: the challenge commits to the script through *)
(* exactly the wrapping that the two script fields describe.               *)
MultisigChallengeAccepted(map, challenge) ==
    LET script == MultisigScript(map) IN
        IF IsWitnessMultisig(map)
           THEN IF challenge = P2wsh(script) THEN map.redeem_script = None
                ELSE /\ challenge = P2sh(P2wsh(script))
                     /\ map.redeem_script = P2wsh(script)
           ELSE /\ ScriptLen(script) <= MaxElementSize
                /\ challenge = P2sh(script)

(* Mutant: a redeem script, even the signer's own, means multisig.         *)
SigningRouteOnce(psbt, n) ==
    LET challenge == Challenge(psbt, n) map == psbt.inputs[n] IN
        IF challenge.type \in {"p2tr", "p2wpkh", "p2pkh"} THEN challenge.type
        ELSE IF /\ challenge.type = "p2sh"
                /\ map.witness_script = None
                /\ map.redeem_script = None
           THEN "p2sh_p2wpkh"
        ELSE "multisig"

(* Which branch of the signer an input takes.                              *)
SigningRoute(psbt, n) ==
    LET challenge == Challenge(psbt, n) map == psbt.inputs[n] IN
        IF challenge.type \in {"p2tr", "p2wpkh", "p2pkh"} THEN challenge.type
        ELSE IF /\ challenge.type = "p2sh"
                /\ map.witness_script = None
                /\ map.redeem_script = None \/ IsP2wpkh(map.redeem_script)
           THEN "p2sh_p2wpkh"
        ELSE "multisig"

(* The key is the one, or one of those, that the challenge asks for.       *)
KeyAccepted(psbt, key, n) ==
    LET challenge == Challenge(psbt, n)
        map == psbt.inputs[n]
        route == SigningRoute(psbt, n)
    IN
    \/ /\ route = "p2tr"
       /\ map.sighash_type \in {None, "ALL", "DEFAULT"}
       /\ challenge = P2tr(Point[key], map.tap_merkle_root)
    \/ /\ route = "p2wpkh"
       /\ DeclaresEcdsaSighash(map)
       /\ key \in Compressed /\ challenge = P2wpkh(key)
    \/ /\ route = "p2pkh"
       /\ DeclaresEcdsaSighash(map)
       /\ challenge = P2pkh(key)
    \/ /\ route = "p2sh_p2wpkh"
       /\ DeclaresEcdsaSighash(map)
       /\ key \in Compressed /\ challenge = P2sh(P2wpkh(key))
       /\ map.redeem_script \in {None, P2wpkh(key)}
    \/ /\ route = "multisig"
       /\ DeclaresEcdsaSighash(map)
       /\ MultisigScript(map) # None
       /\ ParsesMultisig(MultisigScript(map))
       /\ \E j \in DOMAIN MultisigScript(map).keys : MultisigScript(map).keys[j] = key
       /\ MultisigChallengeAccepted(map, challenge)

SigningSighash(psbt, key, n) ==
    LET tx == psbt.unsigned_tx
        challenge == Challenge(psbt, n)
        value == Resolve(psbt, n).value
        map == psbt.inputs[n]
        route == SigningRoute(psbt, n)
    IN  CASE route = "p2tr" ->
               TaprootSighash(tx, n, Prevouts(psbt), SigningTaprootSighash(map))
          [] route = "p2wpkh" -> SegwitSighash(tx, n, challenge, value)
          [] route = "p2pkh" -> LegacySighash(tx, n, challenge)
          [] route = "p2sh_p2wpkh" -> SegwitSighash(tx, n, P2wpkh(key), value)
          [] route = "multisig" /\ IsWitnessMultisig(map) ->
               SegwitSighash(tx, n, MultisigScript(map), value)
          [] OTHER -> LegacySighash(tx, n, MultisigScript(map))

SignAccepted(psbt, key, n) ==
    /\ RequestAccepted(psbt)
    /\ n \in DOMAIN psbt.inputs
    /\ KeyAccepted(psbt, key, n)

(* A taproot signature is made with the tweaked key, which its output      *)
(* script stands for.                                                      *)
SignatureOf(psbt, key, n) ==
    IF SigningRoute(psbt, n) = "p2tr"
       THEN Signature("schnorr", P2tr(Point[key], psbt.inputs[n].tap_merkle_root),
                      SigningSighash(psbt, key, n),
                      SigningTaprootSighash(psbt.inputs[n]))
       ELSE Signature("ecdsa", Point[key], SigningSighash(psbt, key, n), "ALL")

(* Mutant: the input's partial signatures are replaced, not added to.      *)
SignedInputAlone(psbt, key, n) ==
    LET map == psbt.inputs[n] sig == SignatureOf(psbt, key, n) IN
        IF SigningRoute(psbt, n) = "p2tr"
           THEN [map EXCEPT !.tap_internal_key = Point[key], !.tap_key_sig = sig]
           ELSE [map EXCEPT !.partial_sigs = [k \in Key |-> IF k = key THEN sig ELSE None]]

(* Mutant: a taproot signature is recorded as one of the default type,     *)
(* whatever type it was made with.                                         *)
SignedInputDefaultType(psbt, key, n) ==
    LET map == psbt.inputs[n] sig == SignatureOf(psbt, key, n) IN
        IF SigningRoute(psbt, n) = "p2tr"
           THEN [map EXCEPT !.tap_internal_key = Point[key],
                            !.tap_key_sig = [sig EXCEPT !.sighash_type = "DEFAULT"]]
           ELSE [map EXCEPT !.partial_sigs[key] = sig]

(* Mutant: the key is recorded without the redeem script it implies.       *)
SignedInputNoRedeem(psbt, key, n) ==
    LET map == psbt.inputs[n] sig == SignatureOf(psbt, key, n) IN
        IF SigningRoute(psbt, n) = "p2tr"
           THEN [map EXCEPT !.tap_internal_key = Point[key], !.tap_key_sig = sig]
           ELSE [map EXCEPT !.partial_sigs[key] = sig]

SignedInput(psbt, key, n) ==
    LET map == psbt.inputs[n]
        sig == SignatureOf(psbt, key, n)
        route == SigningRoute(psbt, n)
    IN  IF route = "p2tr"
           THEN [map EXCEPT !.tap_internal_key = Point[key], !.tap_key_sig = sig]
        ELSE IF route = "p2sh_p2wpkh"
           THEN [map EXCEPT !.redeem_script = P2wpkh(key), !.partial_sigs[key] = sig]
        ELSE [map EXCEPT !.partial_sigs[key] = sig]

SignBip322PsbtInput(psbt, key, n) ==
    [psbt EXCEPT !.inputs[n] = SignedInput(psbt, key, n)]

-----------------------------------------------------------------------------
(* Psbt::combine (rust-bitcoin): fields of a are kept, missing ones are    *)
(* taken from b, and the signatures of b override; a witness_utxo taken    *)
(* from b clears the non_witness_utxo.  sighash_type is not combined.      *)

CombineAccepted(a, b) == a.unsigned_tx = b.unsigned_tx

OrElse(x, y) == IF x # None THEN x ELSE y

CombineInput(a, b) ==
    [witness_utxo |-> OrElse(a.witness_utxo, b.witness_utxo),
     non_witness_utxo |->
         IF a.witness_utxo = None /\ b.witness_utxo # None THEN None
         ELSE OrElse(a.non_witness_utxo, b.non_witness_utxo),
     partial_sigs |-> [k \in Key |-> OrElse(b.partial_sigs[k], a.partial_sigs[k])],
     sighash_type |-> a.sighash_type,
     redeem_script |-> OrElse(a.redeem_script, b.redeem_script),
     witness_script |-> OrElse(a.witness_script, b.witness_script),
     tap_key_sig |-> OrElse(a.tap_key_sig, b.tap_key_sig),
     tap_internal_key |-> OrElse(a.tap_internal_key, b.tap_internal_key),
     tap_merkle_root |-> OrElse(a.tap_merkle_root, b.tap_merkle_root),
     final_script_sig |-> OrElse(a.final_script_sig, b.final_script_sig),
     final_script_witness |-> OrElse(a.final_script_witness, b.final_script_witness)]

Combine(a, b) ==
    [a EXCEPT !.inputs = [n \in DOMAIN a.inputs |->
                             IF n \in DOMAIN b.inputs
                                THEN CombineInput(a.inputs[n], b.inputs[n])
                                ELSE a.inputs[n]],
              !.message = OrElse(b.message, a.message)]

-----------------------------------------------------------------------------
(* finalize_bip322_psbt.  A witness or a scriptSig is the sequence of its  *)
(* items: signatures, keys, scripts and the empty item.                    *)

SigItem(sig) == [kind |-> "signature", data |-> sig]
KeyItem(key) == [kind |-> "key", data |-> key]
ScriptItem(script) == [kind |-> "script", data |-> script]
EmptyItem == [kind |-> "empty", data |-> None]

Signers(map) == { k \in Key : map.partial_sigs[k] # None }

(* single_partial_sig: one signature, by the key of the challenge, with    *)
(* the declared sighash type.                                              *)
SinglePartialSig(map, key) ==
    /\ Signers(map) = {key}
    /\ DeclaresEcdsaSighash(map)
    /\ map.partial_sigs[key].sighash_type = "ALL"

(* The branch of finalize_input: a taproot signature first, then the       *)
(* redeem script, and only then the challenge.                             *)
FinalizingRoute(map, challenge) ==
    IF map.tap_key_sig # None THEN "p2tr"
    ELSE IF IsP2wpkh(map.redeem_script) THEN "p2sh_p2wpkh"
    ELSE IF challenge.type \in {"p2wpkh", "p2pkh"} THEN challenge.type
    ELSE "multisig"

(* Mutant: the order in which signatures were collected, here the reverse  *)
(* of the script order.                                                    *)
ChosenKeysUnordered(map) ==
    LET keys == MultisigScript(map).keys
        reversed == [j \in DOMAIN keys |-> keys[Len(keys) + 1 - j]]
        signed == SelectSeq(reversed, LAMBDA k : map.partial_sigs[k] # None)
    IN  SubSeq(signed, 1, MultisigScript(map).required)

(* The first `required` keys of the script that have a signature.          *)
ChosenKeys(map) ==
    LET keys == MultisigScript(map).keys
        signed == { j \in DOMAIN keys : map.partial_sigs[keys[j]] # None }
        Nth(m) == CHOOSE j \in signed : Cardinality(signed \cap 1 .. j) = m
    IN  [m \in 1 .. MultisigScript(map).required |-> keys[Nth(m)]]

EnoughSigned(map) ==
    LET keys == MultisigScript(map).keys IN
        Cardinality({ j \in DOMAIN keys : map.partial_sigs[keys[j]] # None })
            >= MultisigScript(map).required

InputFinalizable(map, challenge) ==
    LET route == FinalizingRoute(map, challenge) IN
    \/ /\ route = "p2tr"
       /\ challenge.type = "p2tr"
       /\ map.tap_key_sig.sighash_type \in {"ALL", "DEFAULT"}
       /\ map.sighash_type \in {None, map.tap_key_sig.sighash_type}
    \/ /\ route = "p2sh_p2wpkh"
       /\ \E key \in Compressed :
              /\ SinglePartialSig(map, key)
              /\ map.redeem_script = P2wpkh(key)
              /\ challenge = P2sh(map.redeem_script)
    \/ /\ route = "p2wpkh"
       /\ \E key \in Compressed : SinglePartialSig(map, key) /\ challenge = P2wpkh(key)
    \/ /\ route = "p2pkh"
       /\ \E key \in Key : SinglePartialSig(map, key) /\ challenge = P2pkh(key)
    \/ /\ route = "multisig"
       /\ MultisigScript(map) # None
       /\ MultisigChallengeAccepted(map, challenge)
       /\ ParsesMultisig(MultisigScript(map))
       /\ DeclaresEcdsaSighash(map)
       /\ \A k \in Signers(map) : map.partial_sigs[k].sighash_type = "ALL"
       /\ EnoughSigned(map)

(* The single-key stack <signature> <public key>.                          *)
KeySpend(map) ==
    LET key == CHOOSE k \in Key : Signers(map) = {k} IN
        <<SigItem(map.partial_sigs[key]), KeyItem(key)>>

(* OP_0 <signatures> <script>.                                             *)
MultisigSpend(map) ==
    LET chosen == ChosenKeys(map) IN
        <<EmptyItem>>
        \o [j \in DOMAIN chosen |-> SigItem(map.partial_sigs[chosen[j]])]
        \o <<ScriptItem(MultisigScript(map))>>

FinalScriptSig(map, route) ==
    CASE route = "p2sh_p2wpkh" -> <<ScriptItem(map.redeem_script)>>
      [] route = "p2pkh" -> KeySpend(map)
      [] route = "multisig" /\ ~IsWitnessMultisig(map) -> MultisigSpend(map)
      [] route = "multisig" /\ IsWitnessMultisig(map) /\ map.redeem_script # None ->
             <<ScriptItem(map.redeem_script)>>
      [] OTHER -> None

FinalScriptWitness(map, route) ==
    CASE route = "p2tr" -> <<SigItem(map.tap_key_sig)>>
      [] route \in {"p2wpkh", "p2sh_p2wpkh"} -> KeySpend(map)
      [] route = "multisig" /\ IsWitnessMultisig(map) -> MultisigSpend(map)
      [] OTHER -> None

(* clear_non_final_fields leaves the UTXO fields and the final ones.       *)
FinalizedInput(map, challenge) ==
    LET route == FinalizingRoute(map, challenge) IN
        [EmptyInput EXCEPT
            !.witness_utxo = map.witness_utxo,
            !.non_witness_utxo = map.non_witness_utxo,
            !.final_script_sig = FinalScriptSig(map, route),
            !.final_script_witness = FinalScriptWitness(map, route)]

FinalizeAccepted(psbt) ==
    /\ RequestAccepted(psbt)
    /\ Len(psbt.inputs) <= MaxProofInputs
    /\ Resolve(psbt, 1).script_pubkey = ClaimedChallenge(psbt).script_pubkey
    /\ \A n \in DOMAIN psbt.inputs :
           InputFinalizable(psbt.inputs[n], Challenge(psbt, n))

FinalizedPsbt(psbt) ==
    [psbt EXCEPT !.inputs =
        [n \in DOMAIN psbt.inputs |-> FinalizedInput(psbt.inputs[n], Challenge(psbt, n))]]

(* extract_tx_unchecked_fee_rate: the signed transaction.                  *)
ExtractTx(psbt) ==
    LET items(x) == IF x = None THEN << >> ELSE x IN
        [tx |-> psbt.unsigned_tx,
         script_sig |-> [n \in DOMAIN psbt.inputs |->
                            items(psbt.inputs[n].final_script_sig)],
         witness |-> [n \in DOMAIN psbt.inputs |->
                            items(psbt.inputs[n].final_script_witness)]]

(* A request with proven inputs is encoded as the finalized PSBT, one      *)
(* without as the signed transaction alone.                                *)
FinalizeBip322Psbt(psbt) ==
    IF Len(psbt.inputs) > 1
       THEN [format |-> "pof", psbt |-> FinalizedPsbt(psbt)]
       ELSE [format |-> "ful", to_sign |-> ExtractTx(FinalizedPsbt(psbt))]

-----------------------------------------------------------------------------
(* What a caller claims about the outputs of a transaction agrees with it, *)
(* as far as the roles look: they look where an earlier input brings the   *)
(* transaction along, as a legacy spend has to.                            *)

BringsTx(request, n) ==
    LET map == IF n = 1 THEN ChallengeInputMap(request)
               ELSE ProofInputMap(request.inputs[n - 1])
    IN  map.non_witness_utxo # None

ClaimsAgree(request) ==
    LET spent(n) == RequestTx(request).input[n].previous_output
        count == Len(request.inputs) + 1
    IN  \A h, n \in 1 .. count :
            h < n /\ BringsTx(request, h) /\ spent(h).txid = spent(n).txid =>
                /\ spent(n).vout < Len(Outputs(spent(n).txid))
                /\ Outputs(spent(n).txid)[spent(n).vout + 1] = RequestedPrevout(request, n)
=============================================================================
