--------------------------- MODULE DirectSigning ---------------------------
(***************************************************************************)
(* Direct signing: sign_simple, sign_full and sign_pof (src/sign.rs), whose*)
(* caller holds every key.  The inputs are signed one after the other      *)
(* (src/sign/input.rs); for a multisig script the keys of the script are   *)
(* gone through one by one (ordered_multisig_signatures, src/script.rs).   *)
(*                                                                         *)
(* A call has its keys and scripts by input: private_keys[1] are those for *)
(* the challenge, private_keys[n + 1] those of proof input n.              *)
(***************************************************************************)
EXTENDS Authorisation

CONSTANT Calls     \* the calls of the API that are made

ASSUME CallAssumption ==
    \A c \in Calls :
        /\ c.format \in {"smp", "ful", "pof"}
        /\ c.format # "pof" => c.inputs = << >>
        /\ c.format = "smp" => c.locks = [lock_time |-> 0, sequence |-> 0]
        /\ Sequential(c.inputs)
        /\ \A j \in DOMAIN c.inputs :
               None \notin {c.inputs[j].prevout, c.inputs[j].outpoint.txid}
        /\ c.private_keys \in [1 .. Len(c.inputs) + 1 -> Seq(Key)]

(* A to_spend, which spends no output, is not on the chain, and its first  *)
(* output is not the null one, which has the largest index.  Limits leave  *)
(* room for an input.                                                      *)
ASSUME ChainAssumption ==
    /\ RoomForMultisig /\ MaxProofInputs \in Nat \ {0}
    /\ \A c \in Calls : ToSpend(c.challenge, c.message) \notin PrevTx
    /\ NullOutpoint.vout # 0

VARIABLES
    call,         \* the call, with its arguments
    pc,           \* "create", "input", "keys", "done"
    n,            \* the input that is being signed
    to_sign,      \* the PSBT
    k,            \* how many keys of the multisig script were looked at
    used,         \* the private keys, by position, that have signed for it
    signatures,   \* the signatures made for it
    result        \* "pending", "refused", or "ok"

vars == <<call, pc, n, to_sign, k, used, signatures, result>>

Count == Len(call.inputs) + 1
private_keys == call.private_keys[n]
witness_script == RequestedScript(call, n)
prevouts == [j \in 1 .. Count |-> RequestedPrevout(call, j)]
script_pubkey == prevouts[n].script_pubkey

-----------------------------------------------------------------------------

(* create_to_sign, for the formats without proven inputs.                  *)
CreateToSign ==
    Psbt(RequestTx(call), None,
         <<[EmptyInput EXCEPT !.witness_utxo = TxOut(0, call.challenge)]>>)

CallAccepted ==
    /\ call.format = "smp" => SupportsSimple(call.challenge)
    /\ call.private_keys[1] # << >>
    /\ call.format = "pof" => call.inputs # << >> /\ CreateProofAccepted(call)

(* Mutant: a redeem script of exactly the size of a push is refused.       *)
RouteShort ==
    LET spk == script_pubkey IN
        IF spk.type \in {"p2tr", "p2wpkh", "p2pkh"} THEN spk.type
        ELSE IF witness_script = None
           THEN IF spk.type = "p2sh" THEN "p2sh_p2wpkh" ELSE "none"
        ELSE IF spk = P2wsh(witness_script) THEN "p2wsh"
        ELSE IF spk = P2sh(witness_script)
           THEN IF ScriptLen(witness_script) < MaxElementSize THEN "p2sh" ELSE "none"
        ELSE IF spk = P2sh(P2wsh(witness_script)) THEN "p2sh_p2wsh"
        ELSE "none"

(* Which branch of sign_input the input takes.                             *)
Route ==
    LET spk == script_pubkey IN
        IF spk.type \in {"p2tr", "p2wpkh", "p2pkh"} THEN spk.type
        ELSE IF witness_script = None
           THEN IF spk.type = "p2sh" THEN "p2sh_p2wpkh" ELSE "none"
        ELSE IF spk = P2wsh(witness_script) THEN "p2wsh"
        ELSE IF spk = P2sh(witness_script)
           THEN IF ScriptLen(witness_script) <= MaxElementSize THEN "p2sh" ELSE "none"
        ELSE IF spk = P2sh(P2wsh(witness_script)) THEN "p2sh_p2wsh"
        ELSE "none"

SingleKeyRoutes == {"p2tr", "p2wpkh", "p2pkh", "p2sh_p2wpkh"}
MultisigRoutes == {"p2wsh", "p2sh", "p2sh_p2wsh"}

(* single_key, and the comparison of its output with the one to be spent.  *)
SingleKeyAccepted ==
    /\ Len(private_keys) = 1
    /\ LET key == private_keys[1] IN
           CASE Route = "p2tr" -> script_pubkey = P2tr(Point[key], None)
             [] Route = "p2wpkh" -> key \in Compressed /\ script_pubkey = P2wpkh(key)
             [] Route = "p2pkh" -> script_pubkey = P2pkh(key)
             [] Route = "p2sh_p2wpkh" ->
                    key \in Compressed /\ script_pubkey = P2sh(P2wpkh(key))

(* Mutant: a key may be given twice to make up the threshold.              *)
SignersAcceptedTwice ==
    /\ ParsesMultisig(witness_script)
    /\ Len(private_keys) = witness_script.required

(* The start of ordered_multisig_signatures.                               *)
SignersAccepted ==
    /\ ParsesMultisig(witness_script)
    /\ Len(private_keys) = witness_script.required
    /\ \A h, j \in DOMAIN private_keys :
           Point[private_keys[h]] = Point[private_keys[j]] => h = j

(* What the signatures of input n are made over.                           *)
InputSighash ==
    CASE Route = "p2tr" -> TaprootSighash(to_sign.unsigned_tx, n, prevouts, "ALL")
      [] Route = "p2wpkh" ->
             SegwitSighash(to_sign.unsigned_tx, n, script_pubkey, prevouts[n].value)
      [] Route = "p2sh_p2wpkh" ->
             SegwitSighash(to_sign.unsigned_tx, n, P2wpkh(private_keys[1]),
                           prevouts[n].value)
      [] Route \in {"p2wsh", "p2sh_p2wsh"} ->
             SegwitSighash(to_sign.unsigned_tx, n, witness_script, prevouts[n].value)
      [] Route = "p2pkh" -> LegacySighash(to_sign.unsigned_tx, n, script_pubkey)
      [] Route = "p2sh" -> LegacySighash(to_sign.unsigned_tx, n, witness_script)

EcdsaItem(key) == SigItem(Signature("ecdsa", Point[key], InputSighash, "ALL"))

SingleKeyInput ==
    LET key == private_keys[1]
        map == to_sign.inputs[n]
        spend == <<EcdsaItem(key), KeyItem(key)>>
    IN  CASE Route = "p2tr" ->
               [map EXCEPT !.final_script_witness =
                   <<SigItem(Signature("schnorr", script_pubkey, InputSighash, "ALL"))>>]
          [] Route = "p2wpkh" -> [map EXCEPT !.final_script_witness = spend]
          [] Route = "p2pkh" -> [map EXCEPT !.final_script_sig = spend]
          [] Route = "p2sh_p2wpkh" ->
               [map EXCEPT !.final_script_sig = <<ScriptItem(P2wpkh(key))>>,
                           !.final_script_witness = spend]

(* OP_0 <signatures> <script>, in the witness or in the scriptSig.         *)
MultisigInput ==
    LET map == to_sign.inputs[n]
        spend == <<EmptyItem>> \o signatures \o <<ScriptItem(witness_script)>>
    IN  CASE Route = "p2wsh" -> [map EXCEPT !.final_script_witness = spend]
          [] Route = "p2sh" -> [map EXCEPT !.final_script_sig = spend]
          [] Route = "p2sh_p2wsh" ->
               [map EXCEPT !.final_script_sig = <<ScriptItem(P2wsh(witness_script))>>,
                           !.final_script_witness = spend]

-----------------------------------------------------------------------------

Init ==
    /\ call \in Calls
    /\ pc = "create" /\ n = 1
    /\ to_sign = None
    /\ k = 0 /\ used = {} /\ signatures = << >>
    /\ result = "pending"

Refuse ==
    /\ pc' = "done" /\ result' = "refused"
    /\ UNCHANGED <<call, n, to_sign, k, used, signatures>>

Create ==
    /\ pc = "create"
    /\ IF ~CallAccepted THEN Refuse
       ELSE /\ to_sign' = IF call.format = "pof" THEN CreateProofPsbt(call)
                          ELSE CreateToSign
            /\ pc' = "input"
            /\ UNCHANGED <<call, n, k, used, signatures, result>>

(* The input is finished: the next one, or the end.                        *)
PlaceInput(map) ==
    /\ to_sign' = [to_sign EXCEPT !.inputs[n] = map]
    /\ IF n < Count THEN n' = n + 1 /\ pc' = "input" /\ result' = result
       ELSE n' = n /\ pc' = "done" /\ result' = "ok"
    /\ k' = 0 /\ used' = {} /\ signatures' = << >>
    /\ UNCHANGED call

SignSingleKey ==
    /\ pc = "input" /\ private_keys # << >> /\ Route \in SingleKeyRoutes
    /\ IF SingleKeyAccepted THEN PlaceInput(SingleKeyInput) ELSE Refuse

StartMultisig ==
    /\ pc = "input" /\ private_keys # << >> /\ Route \in MultisigRoutes
    /\ IF SignersAccepted
          THEN pc' = "keys" /\ UNCHANGED <<call, n, to_sign, k, used, signatures, result>>
          ELSE Refuse

RefuseInput ==
    /\ pc = "input" /\ (private_keys = << >> \/ Route = "none")
    /\ Refuse

(* The positions of the private keys that the next key of the script fits. *)
Fitting ==
    { h \in DOMAIN private_keys :
        h \notin used /\ Point[private_keys[h]] = Point[witness_script.keys[k + 1]] }

(* Mutant: signatures come in the order of the private keys.               *)
TryPubkeyGivenOrder ==
    /\ pc = "keys" /\ k < Len(witness_script.keys)
    /\ k' = k + 1
    /\ IF k < Len(private_keys)
          THEN /\ used' = used \cup {k + 1}
               /\ signatures' = Append(signatures, EcdsaItem(private_keys[k + 1]))
          ELSE UNCHANGED <<used, signatures>>
    /\ UNCHANGED <<call, pc, n, to_sign, result>>

(* Mutant: a private key signs for every key of the script that it fits.   *)
TryPubkeyReusing ==
    /\ pc = "keys" /\ k < Len(witness_script.keys)
    /\ k' = k + 1
    /\ \/ \E h \in DOMAIN private_keys :
              /\ Point[private_keys[h]] = Point[witness_script.keys[k + 1]]
              /\ signatures' = Append(signatures, EcdsaItem(private_keys[h]))
       \/ /\ \A h \in DOMAIN private_keys :
                 Point[private_keys[h]] # Point[witness_script.keys[k + 1]]
          /\ signatures' = signatures
    /\ UNCHANGED <<call, pc, n, to_sign, used, result>>

(* One turn of the loop over the keys of the script.                       *)
TryPubkey ==
    /\ pc = "keys" /\ k < Len(witness_script.keys)
    /\ k' = k + 1
    /\ \/ \E h \in Fitting :
              /\ \A j \in Fitting : h <= j
              /\ used' = used \cup {h}
              /\ signatures' = Append(signatures, EcdsaItem(private_keys[h]))
       \/ Fitting = {} /\ UNCHANGED <<used, signatures>>
    /\ UNCHANGED <<call, pc, n, to_sign, result>>

FinishMultisig ==
    /\ pc = "keys" /\ k = Len(witness_script.keys)
    /\ IF Len(signatures) = witness_script.required
          THEN PlaceInput(MultisigInput) ELSE Refuse

Next ==
    \/ Create \/ SignSingleKey \/ StartMultisig \/ RefuseInput
    \/ TryPubkey \/ FinishMultisig

Spec == Init /\ [][Next]_vars /\ WF_vars(Next)

-----------------------------------------------------------------------------

(* The proof that the call returns.                                        *)
Proof ==
    CASE call.format = "smp" -> SimpleProof(to_sign.inputs[1].final_script_witness)
      [] call.format = "ful" -> FullProof(ExtractTx(to_sign))
      [] call.format = "pof" -> PofProof(to_sign)

(* The multisig loop signs with no key twice and with none that the script *)
(* does not name so far, and the inputs behind it carry a spend.           *)
TypeOK ==
    /\ pc \in {"create", "input", "keys", "done"}
    /\ result = IF pc # "done" THEN "pending" ELSE result
    /\ n \in 1 .. Count
    /\ pc = "keys" =>
           /\ k \in 0 .. Len(witness_script.keys)
           /\ used \subseteq DOMAIN private_keys
           /\ Len(signatures) = Cardinality(used)
    /\ pc # "keys" => (result = "refused" \/ signatures = << >>)
    /\ result = "ok" =>
           \A j \in 1 .. Count : \/ to_sign.inputs[j].final_script_sig # None
                                 \/ to_sign.inputs[j].final_script_witness # None

(* What direct signing returns, the verifier accepts: for every format,    *)
(* script type, order of keys and size, and exactly when the claims about  *)
(* the outputs agree with each other, which sign_pof takes as they are.    *)
DirectProofVerifies ==
    result = "ok" =>
        (Verify(call.challenge, call.message, Proof) = "Valid" <=> ClaimsAgree(call))

(* The same, by way of the PSBT roles: create, sign every input with every *)
(* key given for it, finalize.                                             *)
SignedBy(psbt, keys, j) ==
    LET signed[h \in 0 .. Len(keys)] ==
            IF h = 0 THEN psbt ELSE SignBip322PsbtInput(signed[h - 1], keys[h], j)
    IN  signed
RolesPsbt[j \in 0 .. Count] ==
    IF j = 0 THEN CreateBip322Psbt(call)
    ELSE SignedBy(RolesPsbt[j - 1], call.private_keys[j], j)[Len(call.private_keys[j])]
RolesProve ==
    /\ CreateAccepted(call)
    /\ \A j \in 1 .. Count :
           LET keys == call.private_keys[j] IN
               \A h \in 1 .. Len(keys) :
                   SignAccepted(SignedBy(RolesPsbt[j - 1], keys, j)[h - 1], keys[h], j)
    /\ FinalizeAccepted(RolesPsbt[Count])

(* Each input has as many distinct keys as it needs signatures.            *)
KeysNeeded(j) ==
    LET script == RequestedScript(call, j) IN
        IF script # None /\ script.type = "multisig" THEN script.required ELSE 1
WellCounted ==
    \A j \in 1 .. Count :
        /\ Len(call.private_keys[j]) = KeysNeeded(j)
        /\ \A g, h \in 1 .. KeysNeeded(j) :
               Point[call.private_keys[j][g]] = Point[call.private_keys[j][h]] => g = h

(* Direct signing refuses no call whose keys can produce a proof together  *)
(* by way of the PSBT roles, when each signature has a key of its own and  *)
(* the scripts given are multisig scripts: the creator also takes the      *)
(* redeem script of a nested key.                                          *)
RefusesOnlyWhatRolesRefuse ==
    /\ result = "refused" /\ WellCounted
    /\ \A j \in 1 .. Count : ~IsP2wpkh(RequestedScript(call, j))
    /\ call.format # "smp" /\ (call.format = "pof" => call.inputs # << >>)
    => ~RolesProve

(* And the other way round, but for calls that the PSBT creator or signer  *)
(* is stricter about: a message that is not UTF-8, a script for an output  *)
(* of a single key, and a key in another form than the script has it.      *)
StricterInRoles ==
    \/ call.message \notin Utf8
    \/ \E j \in 1 .. Count :
           LET spk == RequestedPrevout(call, j).script_pubkey
               script == RequestedScript(call, j)
           IN  \/ spk.type \in {"p2wpkh", "p2pkh", "p2tr"} /\ script # None
               \/ /\ script # None
                  /\ \E h \in DOMAIN call.private_keys[j] :
                         \A g \in DOMAIN script.keys :
                             script.keys[g] # call.private_keys[j][h]

RolesProveWhatIsSigned ==
    result = "ok" /\ ClaimsAgree(call) /\ ~StricterInRoles => RolesProve
=============================================================================
