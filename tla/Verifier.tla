------------------------------ MODULE Verifier ------------------------------
(***************************************************************************)
(* The verifier as a function of a finished proof: verify_simple,          *)
(* verify_full and verify_pof (src/verify.rs) over the inputs of module    *)
(* Spends.  Module Verification has the loops that compute the verdict.    *)
(***************************************************************************)
EXTENDS Spends

ParseSpends(to_sign, prevouts) ==
    [n \in DOMAIN to_sign.tx.input |-> Parse(to_sign, prevouts, n)]

(* verify_spends: every required rule of every input comes before the      *)
(* upgradeable ones, of which the version is another.                      *)
VerifySpends(to_sign, prevouts, spends) ==
    LET Verdict(n) == VerifyInput(to_sign, prevouts, n, spends[n]) IN
        IF \E n \in DOMAIN spends :
               \/ SpendsCodeseparator(to_sign, prevouts, n, spends[n])
               \/ Verdict(n) = "invalid"
           THEN "Invalid"
        ELSE IF \/ \E n \in DOMAIN spends : Verdict(n) = "inconclusive"
                \/ to_sign.tx.version \notin {0, 2}
           THEN "Inconclusive"
        ELSE "Valid"

-----------------------------------------------------------------------------

SpendsChallenge(tx, address, message) ==
    tx.input[1].previous_output = [txid |-> ToSpend(address, message), vout |-> 0]

(* check_to_sign.                                                          *)
CheckToSign(address, message, to_sign) ==
    /\ Len(to_sign.tx.input) = 1
    /\ SpendsChallenge(to_sign.tx, address, message)
    /\ IsBip322Output(to_sign.tx.output)

VerifyFull(address, message, to_sign) ==
    LET prevouts == <<TxOut(0, address)>>
        spends == ParseSpends(to_sign, prevouts)
    IN  IF ~CheckToSign(address, message, to_sign) \/ spends[1] = Malformed
           THEN "Invalid"
        ELSE VerifySpends(to_sign, prevouts, spends)

(* create_to_sign: what a simple proof, which is only a witness, signs.    *)
SimpleToSign(address, message, witness) ==
    [tx |-> ToSignTransaction(ToSpend(address, message), << >>,
                              [lock_time |-> 0, sequence |-> 0]),
     script_sig |-> << << >> >>, witness |-> <<witness>>]

(* require_simple_format.                                                  *)
SupportsSimple(address) == IsWitnessProgram(address)

VerifySimple(address, message, witness) ==
    IF SupportsSimple(address)
       THEN VerifyFull(address, message, SimpleToSign(address, message, witness))
    ELSE "Invalid"

-----------------------------------------------------------------------------

(* The challenge input is verified against the challenge output itself.    *)
PofPrevouts(address, message, psbt) ==
    [n \in DOMAIN psbt.inputs |->
        IF n = 1 THEN TxOut(0, address) ELSE Resolve(psbt, n)]

(* Mutant: the challenge's UTXO data need not agree with the challenge.    *)
PofConsistentUnbound(address, message, psbt) ==
    LET tx == psbt.unsigned_tx IN
        /\ psbt.message \in {None, message} /\ (psbt.message # None => message \in Utf8)
        /\ Len(tx.input) >= 2
        /\ StructureValid(psbt)
        /\ IsBip322Output(tx.output)
        /\ IndexedOk(psbt)
        /\ \A n \in DOMAIN tx.input : Resolvable(psbt, n)

(* The checks of verify_pof up to the resolution of every prevout.         *)
PofConsistent(address, message, psbt) ==
    LET tx == psbt.unsigned_tx IN
        /\ psbt.message \in {None, message} /\ (psbt.message # None => message \in Utf8)
        /\ Len(tx.input) >= 2
        /\ SpendsChallenge(tx, address, message)
        /\ StructureValid(psbt)
        /\ IsBip322Output(tx.output)
        /\ IndexedOk(psbt)
        /\ Resolvable(psbt, 1) /\ Resolve(psbt, 1) = TxOut(0, address)
        /\ \A n \in DOMAIN tx.input : Resolvable(psbt, n)

(* Mutant: a legacy input may be backed by its witness_utxo alone.         *)
BackedByClaim(psbt, n, spend) == TRUE

(* BIP174 wants the previous transaction of every legacy input.            *)
Backed(psbt, n, spend) == IsWitnessSpend(spend) \/ HasNonWitness(psbt, n)

(* Mutant: a proof at the bound is already too large.                      *)
TooManyInputsAt(psbt) == Len(psbt.unsigned_tx.input) >= MaxProofInputs

(* Such a proof is inconclusive before anything about it is checked.       *)
TooManyInputs(psbt) == Len(psbt.unsigned_tx.input) > MaxProofInputs

VerifyPof(address, message, psbt) ==
    IF TooManyInputs(psbt) THEN "Inconclusive"
    ELSE IF ~PofConsistent(address, message, psbt) THEN "Invalid"
    ELSE LET to_sign == ExtractTx(psbt)
             prevouts == PofPrevouts(address, message, psbt)
             spends == ParseSpends(to_sign, prevouts)
         IN  IF \E n \in DOMAIN spends :
                    spends[n] = Malformed \/ ~Backed(psbt, n, spends[n])
                THEN "Invalid"
             ELSE VerifySpends(to_sign, prevouts, spends)

-----------------------------------------------------------------------------
(* A proof is of one of three formats, which its encoding is prefixed with.*)

SimpleProof(witness) == [format |-> "smp", witness |-> witness]
FullProof(to_sign) == [format |-> "ful", to_sign |-> to_sign]
PofProof(psbt) == [format |-> "pof", psbt |-> psbt]

Verify(address, message, proof) ==
    CASE proof.format = "smp" -> VerifySimple(address, message, proof.witness)
      [] proof.format = "ful" -> VerifyFull(address, message, proof.to_sign)
      [] proof.format = "pof" -> VerifyPof(address, message, proof.psbt)

(* The transaction a proof signs, and the outputs it is about.             *)
ProofToSign(address, message, proof) ==
    CASE proof.format = "smp" -> SimpleToSign(address, message, proof.witness)
      [] proof.format = "ful" -> proof.to_sign
      [] proof.format = "pof" -> ExtractTx(proof.psbt)

ProvenOutputs(address, message, proof) ==
    IF proof.format = "pof" THEN PofPrevouts(address, message, proof.psbt)
    ELSE <<TxOut(0, address)>>

ProofTx(proof) ==
    IF proof.format = "pof" THEN proof.psbt.unsigned_tx ELSE proof.to_sign.tx
=============================================================================
