-------------------------- MODULE MCSigningSession --------------------------
(***************************************************************************)
(* Sessions over three keys A, B, C and the uncompressed form U of A.  Two *)
(* chain transactions: t1 has a legacy and a segwit output, t2 a taproot   *)
(* and a nested one.                                                       *)
(***************************************************************************)
EXTENDS SigningSession

CONSTANTS A, B, C, U, pA, pB, pC, m1, m2, m3, t1, t2, coordinator, alice, bob

MCKey == {A, B, C, U}
MCPoint == [k \in MCKey |-> CASE k \in {A, U} -> pA [] k = B -> pB [] OTHER -> pC]
MCMessage == {m1, m2, m3}
MCPrevTx == {t1, t2}

Two == Multisig(2, <<A, B>>)
TwoOfThree == Multisig(2, <<B, C, A>>)
Repeated == Multisig(2, <<A, B, A>>)
OneOfTwo == Multisig(1, <<U, B>>)

Legacy1 == TxOut(5, P2pkh(U))
Segwit1 == TxOut(7, P2wsh(Two))
Taproot2 == TxOut(4, P2tr(pB, None))
Nested2 == TxOut(6, P2sh(P2wpkh(A)))
LegacyMultisig2 == TxOut(3, P2sh(OneOfTwo))

MCPrevOutputs ==
    [t \in MCPrevTx |-> IF t = t1 THEN <<Legacy1, Segwit1>>
                        ELSE <<Taproot2, Nested2, LegacyMultisig2>>]
MCNullOutpoint == [txid |-> None, vout |-> -1]
(* No leaf is committed to: the signer signs key paths only.               *)
MCLeaves == << >>

ProofInput(txid, vout, script, prev_tx) ==
    [outpoint |-> [txid |-> txid, vout |-> vout],
     prevout |-> MCPrevOutputs[txid][vout + 1],
     witness_script |-> script, prev_tx |-> prev_tx]

Request(challenge, script, message, inputs, lock_time) ==
    [challenge |-> challenge, witness_script |-> script, message |-> message,
     inputs |-> inputs, locks |-> [lock_time |-> lock_time, sequence |-> 0]]

(* Claims that do not agree: of a value that the transaction which a legacy*)
(* input brings does not have, and of a second output of the to_spend.     *)
DisagreeingRequests ==
    { Request(P2wpkh(A), None, m1,
              <<ProofInput(t1, 0, None, t1),
                [ProofInput(t1, 1, Two, None) EXCEPT !.prevout.value = 9]>>, 0),
      Request(P2pkh(U), None, m1,
              <<[ProofInput(t2, 0, None, None)
                    EXCEPT !.outpoint = [txid |-> ToSpend(P2pkh(U), m1), vout |-> 1]]>>, 0) }

(* Every script type as challenge, and every one as a proven input.        *)
HonestRequests ==
    { Request(P2wsh(Two), Two, m1,
              <<ProofInput(t1, 0, None, t1), ProofInput(t2, 0, None, None)>>, 0),
      Request(P2sh(OneOfTwo), OneOfTwo, m1,
              <<ProofInput(t2, 1, None, None), ProofInput(t1, 1, Two, None)>>, 0),
      Request(P2tr(pA, None), None, m1, <<ProofInput(t2, 2, OneOfTwo, t2)>>, 0),
      Request(P2sh(P2wsh(TwoOfThree)), TwoOfThree, m1, << >>, 9),
      Request(P2wsh(Repeated), Repeated, m1, << >>, 0),
      Request(P2pkh(U), None, m1, << >>, 0),
      Request(P2sh(P2wpkh(B)), None, m1, << >>, 0),
      Request(P2wpkh(A), None, m1, << >>, 0) }
    \cup DisagreeingRequests

MCHonestParty == {coordinator, alice, bob}
MCHonestKeyOf == [p \in MCHonestParty |-> CASE p = alice -> {A, U}
                                            [] p = bob -> {B}
                                            [] OTHER -> {}]

-----------------------------------------------------------------------------
(* The altered sessions: two parties and one alteration, or one party that *)
(* holds every key and two alterations.                                    *)

(* A 2-of-2 with a legacy key input, a taproot with a bare multisig input, *)
(* and two requests without proven inputs.                                 *)
AlteredRequests ==
    { Request(P2wsh(Two), Two, m1, <<ProofInput(t1, 0, None, t1)>>, 0),
      Request(P2tr(pA, None), None, m1, <<ProofInput(t2, 2, OneOfTwo, t2)>>, 0),
      Request(P2sh(OneOfTwo), OneOfTwo, m1, << >>, 0),
      Request(P2sh(P2wpkh(B)), None, m1, << >>, 0) }

MCAlteredParty == {alice, bob}
MCAlteredKeyOf == [p \in MCAlteredParty |-> IF p = alice THEN {A, U} ELSE {B}]

MCSoloParty == {alice}
MCSoloKeyOf == [p \in MCSoloParty |-> {A, U, B}]

MCAddresses ==
    { r.challenge : r \in AlteredRequests } \cup {Legacy1.script_pubkey, P2wpkh(B)}
MCEditScripts == {Two, OneOfTwo, P2wsh(Two), P2wpkh(B)}

(* Claims of another value, another script, or an output that is real but  *)
(* belongs to another input.                                               *)
MCEditOuts ==
    { TxOut(0, P2wsh(Two)), TxOut(9, P2tr(pB, None)), TxOut(5, P2wpkh(B)),
      TxOut(0, P2tr(pA, None)), Legacy1, TxOut(8, P2pkh(U)),
      TxOut(8, P2sh(OneOfTwo)) }
MCEditOutputs == { << >>, <<TxOut(5, P2wpkh(B))>>, <<TxOut(0, OpReturn), TxOut(0, OpReturn)>> }
=============================================================================
