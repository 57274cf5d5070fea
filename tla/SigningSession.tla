--------------------------- MODULE SigningSession ---------------------------
(***************************************************************************)
(* A signing session: the multi-party workflow that the PSBT roles exist   *)
(* for (README.md of the crate, examples/multisig_psbt.rs, the multiparty  *)
(* tests).  The creator builds the request; the parties pass copies around *)
(* in any order and combine what they get; each signs its own copy, any    *)
(* input, again after a lost reply if it likes; anyone finalizes.  Between *)
(* two calls a copy, or the finished proof, may be changed by other        *)
(* software or by a faulty coordinator: an alteration.                     *)
(***************************************************************************)
EXTENDS Authorisation

CONSTANTS
    Party,           \* the holders of copies
    Creator,         \* the party that calls create_bip322_psbt
    KeyOf,           \* KeyOf[p]: the keys p signs with
    Requests,        \* the arguments create_bip322_psbt is called with
    Addresses,       \* output scripts a proof may be verified against
    EditScripts,     \* scripts an alteration may put in a script field
    EditOuts,        \* outputs it may claim for an input
    EditOutputs,     \* output lists it may give the transaction
    MaxAlterations   \* bound on the alterations of a session

ASSUME SessionAssumption ==
    /\ Creator \in Party
    /\ KeyOf \in [Party -> SUBSET Key]
    /\ MaxAlterations \in Nat
    /\ \A r \in Requests :
           /\ Sequential(r.inputs)
           /\ \A n \in DOMAIN r.inputs :
                  None \notin {r.inputs[n].prevout, r.inputs[n].outpoint.txid}

(* A to_spend, which spends no output, is not on the chain.                *)
ASSUME ChainAssumption ==
    /\ RoomForMultisig
    /\ \A r \in Requests : ToSpend(r.challenge, r.message) \notin PrevTx

VARIABLES
    request,     \* what the creator was asked for
    copy,        \* copy[p]: the PSBT p holds, or None
    proof,       \* the encoded proof, or None
    released,    \* every signature made by a call of the signer, and what
                 \* the call reported for display
    alterations  \* how many alterations there were

vars == <<request, copy, proof, released, alterations>>

Init ==
    /\ request \in Requests
    /\ copy = [p \in Party |-> None]
    /\ proof = None
    /\ released = {}
    /\ alterations = 0

(* The session is followed up to its first proof.                          *)
Holds(p) == proof = None /\ copy[p] # None

Create ==
    /\ proof = None /\ copy[Creator] = None
    /\ CreateAccepted(request)
    /\ copy' = [copy EXCEPT ![Creator] = CreateBip322Psbt(request)]
    /\ UNCHANGED <<request, proof, released, alterations>>

(* p gets q's copy: its first one, or one to combine with its own.         *)
Receive(p, q) ==
    /\ p # q /\ Holds(q)
    /\ \/ copy[p] = None /\ copy' = [copy EXCEPT ![p] = copy[q]]
       \/ /\ copy[p] # None
          /\ CombineAccepted(copy[p], copy[q])
          /\ copy' = [copy EXCEPT ![p] = Combine(copy[p], copy[q])]
    /\ UNCHANGED <<request, proof, released, alterations>>

(* What the outside learns from one call of the signer.                    *)
Release(psbt, key, n) ==
    [key |-> key, index |-> n,
     message |-> DetectedRequest(psbt).message,
     challenge |-> DetectedRequest(psbt).message_challenge,
     value |-> Resolve(psbt, n).value,
     sig |-> SignatureOf(psbt, key, n)]

Sign(p, key, n) ==
    /\ Holds(p)
    /\ SignAccepted(copy[p], key, n)
    /\ copy' = [copy EXCEPT ![p] = SignBip322PsbtInput(copy[p], key, n)]
    /\ released' = released \cup {Release(copy[p], key, n)}
    /\ UNCHANGED <<request, proof, alterations>>

Finalize(p) ==
    /\ Holds(p)
    /\ FinalizeAccepted(copy[p])
    /\ proof' = FinalizeBip322Psbt(copy[p])
    /\ UNCHANGED <<request, copy, released, alterations>>

-----------------------------------------------------------------------------
(* Alterations.  They use the signatures that exist: released ones, and    *)
(* for each key one made elsewhere, over something that is no to_sign.     *)

NoToSign == [output |-> << >>]
Foreign(key) == Signature("ecdsa", Point[key], [tx |-> NoToSign], "ALL")

SignaturePool == { r.sig : r \in released } \cup { Foreign(k) : k \in Key }

(* The fields that describe the spent output.                              *)
UtxoEdits(map) ==
    { [map EXCEPT !.witness_utxo = x] : x \in EditOuts \cup {None} }
    \cup { [map EXCEPT !.non_witness_utxo = x] : x \in PrevTx \cup {None} }

(* The fields that signers and finalizers work from.                       *)
SigningEdits(map) ==
    { [map EXCEPT !.redeem_script = x] : x \in EditScripts \cup {None} }
    \cup { [map EXCEPT !.witness_script = x] : x \in EditScripts \cup {None} }
    \cup { [map EXCEPT !.sighash_type = x] : x \in {None, "ALL", "DEFAULT", "NONE"} }
    \cup { [map EXCEPT !.partial_sigs[k] = x] : k \in Key, x \in SignaturePool \cup {None} }
    \cup { [map EXCEPT !.tap_key_sig = x] : x \in SignaturePool \cup {None} }

Items ==
    { SigItem(s) : s \in SignaturePool } \cup { KeyItem(k) : k \in Key }
    \cup { ScriptItem(s) : s \in EditScripts } \cup {EmptyItem}

Without(items, j) == SubSeq(items, 1, j - 1) \o SubSeq(items, j + 1, Len(items))

(* One item of a witness or scriptSig replaced, removed or added.          *)
StackEdits(items) ==
    { [items EXCEPT ![j] = x] : j \in DOMAIN items, x \in Items }
    \cup { Without(items, j) : j \in DOMAIN items }
    \cup { <<x>> \o items : x \in Items }

FinalEdits(map) ==
    (IF map.final_script_sig = None THEN {}
     ELSE { [map EXCEPT !.final_script_sig = x] : x \in StackEdits(map.final_script_sig) })
    \cup
    (IF map.final_script_witness = None THEN {}
     ELSE { [map EXCEPT !.final_script_witness = x] : x \in StackEdits(map.final_script_witness) })

TxEdits(tx) ==
    { [tx EXCEPT !.output = x] : x \in EditOutputs }
    \cup { [tx EXCEPT !.version = 1] }
    \cup { [tx EXCEPT !.input[1].previous_output.txid = t] : t \in PrevTx }

(* The request made over into one for another message, signatures kept.    *)
Rebind(psbt, message) ==
    LET to_spend == ToSpend(ClaimedChallenge(psbt).script_pubkey, message) IN
        [psbt EXCEPT !.message = message,
                     !.unsigned_tx.input[1].previous_output.txid = to_spend,
                     !.inputs[1].non_witness_utxo = IF @ = None THEN None ELSE to_spend]

DropLastInput(psbt) ==
    LET n == Len(psbt.inputs) - 1 IN
        [psbt EXCEPT !.inputs = SubSeq(@, 1, n), !.unsigned_tx.input = SubSeq(@, 1, n)]

SwapLastInputs(psbt) ==
    LET n == Len(psbt.inputs)
        swapped(seq) == [seq EXCEPT ![n] = seq[n - 1], ![n - 1] = seq[n]]
    IN  [psbt EXCEPT !.inputs = swapped(@), !.unsigned_tx.input = swapped(@)]

(* The whole PSBT, whatever stage it is in.                                *)
RequestEdits(psbt) ==
    { [psbt EXCEPT !.message = m] : m \in Message \cup {None} }
    \cup (IF \A f \in {"witness_utxo", "non_witness_utxo"} : psbt.inputs[1][f] = None
             THEN {} ELSE { Rebind(psbt, m) : m \in Message })
    \cup { [psbt EXCEPT !.unsigned_tx = tx, !.outputs = Len(tx.output)] :
              tx \in TxEdits(psbt.unsigned_tx) }
    \cup (IF Len(psbt.inputs) > 1 THEN {DropLastInput(psbt), SwapLastInputs(psbt)} ELSE {})

InputEdits(psbt, Edits(_)) ==
    UNION { { [psbt EXCEPT !.inputs[n] = map] : map \in Edits(psbt.inputs[n]) } :
                n \in DOMAIN psbt.inputs }

ToSignEdits(to_sign) ==
    { [to_sign EXCEPT !.tx = tx] : tx \in TxEdits(to_sign.tx) }
    \cup { [to_sign EXCEPT !.script_sig[1] = x] : x \in StackEdits(to_sign.script_sig[1]) }
    \cup { [to_sign EXCEPT !.witness[1] = x] : x \in StackEdits(to_sign.witness[1]) }

AlterCopy(p) ==
    /\ Holds(p) /\ alterations < MaxAlterations
    /\ \E psbt \in RequestEdits(copy[p]) \cup InputEdits(copy[p], UtxoEdits)
                   \cup InputEdits(copy[p], SigningEdits) :
           copy' = [copy EXCEPT ![p] = psbt]
    /\ alterations' = alterations + 1
    /\ UNCHANGED <<request, proof, released>>

AlterProof ==
    /\ proof # None /\ alterations < MaxAlterations
    /\ \/ /\ proof.format = "pof"
          /\ \E psbt \in RequestEdits(proof.psbt) \cup InputEdits(proof.psbt, UtxoEdits)
                         \cup InputEdits(proof.psbt, FinalEdits) :
                 proof' = [proof EXCEPT !.psbt = psbt]
       \/ /\ proof.format = "ful"
          /\ \E to_sign \in ToSignEdits(proof.to_sign) :
                 proof' = [proof EXCEPT !.to_sign = to_sign]
    /\ alterations' = alterations + 1
    /\ UNCHANGED <<request, copy, released>>

-----------------------------------------------------------------------------

Next ==
    \/ Create
    \/ \E p, q \in Party : Receive(p, q)
    \/ \E p \in Party : \E key \in KeyOf[p] :
           \E n \in 1 .. MaxProofInputs : Sign(p, key, n)
    \/ \E p \in Party : Finalize(p)
    \/ \E p \in Party : AlterCopy(p)
    \/ AlterProof

(* Fairness: while something is left to do, the parties do not all stop.   *)
Spec == Init /\ [][Next]_vars /\ WF_vars(Next)

-----------------------------------------------------------------------------

(* A copy is a PSBT with a map for each input, and the signatures in it    *)
(* are ones that somebody made.                                            *)
TypeOK ==
    /\ request \in Requests
    /\ alterations \in 0 .. MaxAlterations
    /\ proof = None \/ proof.format \in {"pof", "ful"}
    /\ \A p \in Party : copy[p] # None =>
           \A n \in DOMAIN copy[p].inputs :
               LET map == copy[p].inputs[n] IN
                   /\ DOMAIN map = DOMAIN EmptyInput
                   /\ map.tap_key_sig \in SignaturePool \cup {None}
                   /\ map.partial_sigs \in [Key -> SignaturePool \cup {None}]

(* The signature commits to a transaction whose first input spends the     *)
(* to_spend of the displayed challenge and message, which no chain holds,  *)
(* and whose only output is unspendable.                                   *)
GoodOnlyForDisplay(r) ==
    LET tx == r.sig.sighash.tx IN
        /\ r.message \in Utf8
        /\ tx.input[1].previous_output.txid = ToSpend(r.challenge, r.message)
        /\ tx.input[1].previous_output.vout = 0
        /\ tx.output = <<TxOut(0, OpReturn)>>
        /\ r.sig.sighash.index = r.index

(* What a signer releases is only good for the request that the same call  *)
(* reports for display, whatever the copy went through before             *)
(* (sign_bip322_psbt_input; Bip322Psbt: "display to the user as message    *)
(* signing, not transaction signing").                                     *)
SignedOnlyAsDisplayed == \A r \in released : GoodOnlyForDisplay(r)

(* The value that the signer took for the input is the one the signature   *)
(* is about: the sighash covers it, or, where a legacy sighash covers no   *)
(* value, it was read from the transaction that the outpoint names.        *)
ValueBound(r) ==
    LET sighash == r.sig.sighash
        spent == sighash.tx.input[r.index].previous_output
    IN  \/ sighash.algorithm = "legacy" /\ r.value = Outputs(spent.txid)[spent.vout + 1].value
        \/ sighash.algorithm = "v0" /\ sighash.prevouts = <<r.value>>
        \/ sighash.algorithm = "taproot" /\ sighash.prevouts[r.index].value = r.value

(* No copy, however altered, makes a signer sign for a value that only the *)
(* PSBT claims (checked_psbt_input_prevout, whose idea of a segwit spend   *)
(* comes from the redeem script field and has to agree with the sighash    *)
(* that the signer's own routes then choose).                              *)
SignedValueBound == \A r \in released : ValueBound(r)

(* The points under which input n of this very transaction was signed, by   *)
(* holders who were shown this message and address, and who took the input *)
(* to have this value.                                                     *)
Consenting(address, message, n) ==
    { r.sig.point : r \in
        { c \in released :
            /\ c.message = message
            /\ c.challenge = address
            /\ c.index = n
            /\ c.value = ProvenOutputs(address, message, proof)[n].value
            /\ c.sig.sighash.tx = ProofTx(proof) } }

(* A Valid verdict, for whatever address and message it is asked about and *)
(* however copies and proofs were altered, means consent: for each input,  *)
(* holders who can spend its output were shown that message and address    *)
(* and signed that input of that transaction for the value it is said to   *)
(* have (sign, combine, finalize and verify taken together).               *)
ValidImpliesConsent ==
    proof # None =>
        \A address \in Addresses, message \in Message :
            Verify(address, message, proof) = "Valid" =>
                \A n \in DOMAIN ProofTx(proof).input :
                    OutputAuthorised(ProvenOutputs(address, message, proof)[n].script_pubkey,
                                     Consenting(address, message, n))

(* A session without alterations ends in a proof this crate's verifier     *)
(* accepts, for every script type and in whatever order the copies were    *)
(* signed and combined.  The finalizer checks no signature, so this rests  *)
(* on all four roles agreeing (finalize_bip322_psbt's documentation).      *)
HonestProofVerifies ==
    alterations = 0 /\ proof # None =>
        Verify(request.challenge, request.message, proof) = "Valid"

(* The keys an input waits for: those its output, or the script given for  *)
(* it, names.                                                              *)
AskedFor(n, key) ==
    LET spk == RequestedPrevout(request, n).script_pubkey
        script == RequestedScript(request, n)
    IN  \/ spk \in {P2pkh(key), P2tr(Point[key], None)}
        \/ key \in Compressed /\ spk \in {P2wpkh(key), P2sh(P2wpkh(key))}
        \/ /\ script # None /\ ParsesMultisig(script)
           /\ \E j \in DOMAIN script.keys : script.keys[j] = key

(* In a session without alterations no order of signing, combining or      *)
(* retrying locks a signer out: as long as the session is open, any copy   *)
(* can be signed for any input by any key its script names, unless the     *)
(* request itself makes claims that do not agree.                          *)
SigningNeverBlocked ==
    alterations = 0 /\ ClaimsAgree(request) =>
        \A p \in Party : Holds(p) =>
            \A n \in DOMAIN copy[p].inputs, key \in Key :
                AskedFor(n, key) => SignAccepted(copy[p], key, n)

(* No step but an alteration takes a signature out of a copy, or puts      *)
(* anything but a signature that somebody made in its place: signing adds  *)
(* one, combining merges, a retry repeats.                                 *)
SignaturesAccumulate ==
    [][alterations' = alterations =>
          \A p \in Party : copy[p] # None =>
              \A n \in DOMAIN copy[p].inputs :
                  LET old == copy[p].inputs[n] new == copy'[p].inputs[n] IN
                      /\ old.tap_key_sig # None => new.tap_key_sig \in SignaturePool'
                      /\ \A k \in Key :
                             old.partial_sigs[k] # None =>
                                 new.partial_sigs[k] \in SignaturePool']_vars

(* However the parties interleave, a session without alterations comes to  *)
(* a proof if the claims of its request agree: there is no dead end and no *)
(* way to go round in circles.                                             *)
EventuallyProven == ClaimsAgree(request) => <>(proof # None)
=============================================================================
