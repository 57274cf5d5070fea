------------------------------- MODULE Bip322 -------------------------------
(***************************************************************************)
(* The data of the library and its pure functions: scripts (src/script.rs),*)
(* the to_spend and to_sign transactions and the producer's PSBT           *)
(* (src/message.rs, src/psbt/creator.rs), the structural rules             *)
(* (src/transaction.rs, src/limits.rs).                                    *)
(*                                                                         *)
(* Cryptography is symbolic.  A hash is the value it commits to: a txid is *)
(* its transaction, a P2SH or P2WSH output holds its script, a sighash is  *)
(* the record of what it covers.  Byte encodings are left out, and inputs  *)
(* are numbered from 1, so input 1 is the message challenge.               *)
(***************************************************************************)
EXTENDS Integers, Sequences, FiniteSets

CONSTANTS
    Key,             \* serialized public keys
    Point,           \* Point[k]: the curve point of k
    Compressed,      \* the keys in compressed form
    Message,         \* message byte strings
    Utf8,            \* the messages that are UTF-8
    PrevTx,          \* transactions on the chain, each named by its id
    PrevOutputs,     \* PrevOutputs[t]: the outputs of transaction t
    NullOutpoint,    \* the outpoint of a coinbase input
    MaxProofInputs,  \* MAX_PROOF_INPUTS
    MaxElementSize,  \* MAX_SCRIPT_ELEMENT_SIZE
    None             \* an absent field

ASSUME DataAssumption ==
    /\ Compressed \subseteq Key
    /\ Utf8 \subseteq Message
    /\ None \notin Key \cup Message \cup PrevTx

-----------------------------------------------------------------------------
(* Scripts.                                                                *)

P2pkh(key) == [type |-> "p2pkh", key |-> key]
P2wpkh(key) == [type |-> "p2wpkh", key |-> key]
P2wsh(script) == [type |-> "p2wsh", script |-> script]
P2sh(script) == [type |-> "p2sh", script |-> script]
P2tr(point, root) == [type |-> "p2tr", point |-> point, root |-> root]
Multisig(m, keys) == [type |-> "multisig", required |-> m, keys |-> keys]
OpReturn == [type |-> "op_return"]

(* A script no template matches, as its instructions and its length.       *)
Script(ops, size) == [type |-> "script", ops |-> ops, size |-> size]
(* A witness program that none of the above describes: another version, or *)
(* another length.                                                         *)
Program(version, size) == [type |-> "program", version |-> version, size |-> size]

IsWitnessProgram(s) == s # None /\ s.type \in {"p2wpkh", "p2wsh", "p2tr", "program"}
IsP2wpkh(s) == s # None /\ s.type = "p2wpkh"

(* parse_multisig accepts m <keys> n CHECKMULTISIG for 1 <= m <= n <= 16.  *)
ParsesMultisig(s) ==
    /\ s.type = "multisig"
    /\ s.keys \in Seq(Key)
    /\ s.required \in 1 .. Len(s.keys)
    /\ Len(s.keys) <= 16

(* The bytes of a multisig script: three opcodes, and a push of 33 or 65   *)
(* bytes for each key.  No output script of a key or of a hash is longer   *)
(* than 34 bytes.                                                          *)
ScriptLen(s) ==
    IF s.type = "script" THEN s.size
    ELSE IF s.type # "multisig" THEN 34
    ELSE LET short == { j \in DOMAIN s.keys : s.keys[j] \in Compressed }
             long  == DOMAIN s.keys \ short
         IN  3 + 34 * Cardinality(short) + 66 * Cardinality(long)

SpendsWitness(spk, redeem) ==
    \/ IsWitnessProgram(spk)
    \/ spk.type = "p2sh" /\ (redeem = None \/ IsWitnessProgram(redeem))

P2shRedeemScript(spk, script) ==
    IF spk = P2sh(script) THEN script ELSE P2wsh(script)

-----------------------------------------------------------------------------
(* Transactions.                                                           *)

TxOut(value, spk) == [value |-> value, script_pubkey |-> spk]
TxIn(txid, vout, sequence) ==
    [previous_output |-> [txid |-> txid, vout |-> vout], sequence |-> sequence]

(* create_to_spend_from_script: the transaction is a function of its       *)
(* output script and of the message hash in its scriptSig.                 *)
ToSpend(spk, message) == [challenge |-> spk, message |-> message]

(* The outputs of the transaction a txid names, a to_spend or a chain one. *)
Outputs(txid) ==
    IF txid \in PrevTx THEN PrevOutputs[txid] ELSE <<TxOut(0, txid.challenge)>>

Version(locks) == IF locks.lock_time # 0 \/ locks.sequence # 0 THEN 2 ELSE 0

(* proofs: the outpoints of the proven inputs, which take sequence zero.   *)
ToSignTransaction(to_spend, proofs, locks) ==
    [version   |-> Version(locks),
     lock_time |-> locks.lock_time,
     input     |-> <<TxIn(to_spend, 0, locks.sequence)>>
                   \o [n \in DOMAIN proofs |->
                          TxIn(proofs[n].outpoint.txid, proofs[n].outpoint.vout, 0)],
     output    |-> <<TxOut(0, OpReturn)>>]

IsBip322Output(output) == output = <<TxOut(0, OpReturn)>>

(* validate_outpoints: none is null and none is spent twice.               *)
OutpointsValid(tx) ==
    \A m, n \in DOMAIN tx.input :
        /\ tx.input[n].previous_output # NullOutpoint
        /\ m # n => tx.input[m].previous_output # tx.input[n].previous_output

-----------------------------------------------------------------------------
(* PSBTs.  outputs is the number of output maps, message the field         *)
(* PSBT_GLOBAL_GENERIC_SIGNED_MESSAGE.                                     *)

EmptyInput ==
    [witness_utxo |-> None, non_witness_utxo |-> None,
     partial_sigs |-> [k \in Key |-> None], sighash_type |-> None,
     redeem_script |-> None, witness_script |-> None,
     tap_key_sig |-> None, tap_internal_key |-> None, tap_merkle_root |-> None,
     final_script_sig |-> None, final_script_witness |-> None]

Psbt(tx, message, inputs) ==
    [unsigned_tx |-> tx, message |-> message, inputs |-> inputs,
     outputs |-> Len(tx.output)]

(* validate_psbt_structure.                                                *)
MapsMatch(psbt) ==
    /\ Len(psbt.inputs) = Len(psbt.unsigned_tx.input)
    /\ psbt.outputs = Len(psbt.unsigned_tx.output)

StructureValid(psbt) == MapsMatch(psbt) /\ OutpointsValid(psbt.unsigned_tx)

(* set_proof_input_utxo: a legacy proof input needs a prev_tx that is the  *)
(* outpoint's transaction and has the claimed output.  The redeem script   *)
(* decides, when the caller supplied one.                                  *)
ProofSpendsWitness(input) ==
    LET spk == input.prevout.script_pubkey IN
        SpendsWitness(spk, IF input.witness_script = None THEN None
                           ELSE P2shRedeemScript(spk, input.witness_script))

ProofUtxoAccepted(input) ==
    ProofSpendsWitness(input) \/
        /\ input.prev_tx # None
        /\ input.prev_tx = input.outpoint.txid
        /\ input.outpoint.vout < Len(Outputs(input.prev_tx))
        /\ Outputs(input.prev_tx)[input.outpoint.vout + 1] = input.prevout

ProofInputMap(input) ==
    IF ProofSpendsWitness(input)
       THEN [EmptyInput EXCEPT !.witness_utxo = input.prevout]
       ELSE [EmptyInput EXCEPT !.non_witness_utxo = input.prev_tx]

(* The challenge's UTXO field: BIP-174 wants the whole transaction for a   *)
(* legacy spend.                                                           *)
ChallengeInputMap(request) ==
    LET spk == request.challenge
        redeem == IF request.witness_script = None THEN None
                  ELSE P2shRedeemScript(spk, request.witness_script)
    IN  IF SpendsWitness(spk, redeem)
           THEN [EmptyInput EXCEPT !.witness_utxo = TxOut(0, spk)]
           ELSE [EmptyInput EXCEPT !.non_witness_utxo = ToSpend(spk, request.message)]

(* set_input_script: which of the three multisig wrappings the script has  *)
(* under this output, or none of them.                                     *)
InputScriptAccepted(script, spk) ==
    \/ spk = P2wsh(script)
    \/ spk = P2sh(P2wsh(script))
    \/ spk = P2sh(script) /\ ScriptLen(script) <= MaxElementSize

SetInputScript(map, script, spk) ==
    IF spk = P2wsh(script) THEN [map EXCEPT !.witness_script = script]
    ELSE IF spk = P2sh(P2wsh(script))
       THEN [map EXCEPT !.witness_script = script, !.redeem_script = P2wsh(script)]
    ELSE [map EXCEPT !.redeem_script = script]

WithScript(map, script, spk) ==
    IF script = None THEN map ELSE SetInputScript(map, script, spk)

(* The challenge script rule of create_bip322_psbt: single-key outputs take*)
(* no script, and without a script P2SH is taken to wrap P2WPKH.           *)
ChallengeScriptAccepted(request) ==
    LET spk == request.challenge script == request.witness_script IN
        IF spk.type \in {"p2wpkh", "p2tr", "p2pkh"} THEN script = None
        ELSE IF script = None THEN spk.type = "p2sh"
        ELSE InputScriptAccepted(script, spk)

RequestTx(request) ==
    ToSignTransaction(ToSpend(request.challenge, request.message),
                      request.inputs, request.locks)

(* create_proof_psbt, which direct signing and the PSBT creator share.      *)
CreateProofAccepted(request) ==
    /\ request.message \in Utf8
    /\ Len(request.inputs) + 1 <= MaxProofInputs
    /\ OutpointsValid(RequestTx(request))
    /\ \A n \in DOMAIN request.inputs : ProofUtxoAccepted(request.inputs[n])

CreateProofPsbt(request) ==
    Psbt(RequestTx(request), request.message,
         <<ChallengeInputMap(request)>>
         \o [n \in DOMAIN request.inputs |-> ProofInputMap(request.inputs[n])])

(* The output that input n is said to spend, and the script that goes with *)
(* it.                                                                     *)
RequestedPrevout(request, n) ==
    IF n = 1 THEN TxOut(0, request.challenge) ELSE request.inputs[n - 1].prevout
RequestedScript(request, n) ==
    IF n = 1 THEN request.witness_script ELSE request.inputs[n - 1].witness_script

(* create_bip322_psbt.                                                     *)
CreateAccepted(request) ==
    /\ CreateProofAccepted(request)
    /\ ChallengeScriptAccepted(request)
    /\ \A n \in DOMAIN request.inputs :
           LET input == request.inputs[n] IN
               input.witness_script # None =>
                   InputScriptAccepted(input.witness_script, input.prevout.script_pubkey)

CreateBip322Psbt(request) ==
    [CreateProofPsbt(request) EXCEPT !.inputs =
        [n \in DOMAIN @ |-> WithScript(@[n], RequestedScript(request, n),
                                       RequestedPrevout(request, n).script_pubkey)]]
=============================================================================
