---------------------------- MODULE HonestProofs ----------------------------
(***************************************************************************)
(* Sessions without alterations, for every set of keys, messages, scripts, *)
(* chains and parties: no order of passing on, combining, signing and      *)
(* retrying locks a signer out, and what is finalized verifies.  A copy    *)
(* grows from the request that the creator made: it gains signatures by    *)
(* keys that the request asks for, and the redeem script that a key of a   *)
(* nested output implies, and nothing else.                                *)
(***************************************************************************)
EXTENDS SigningSessionProofs

-----------------------------------------------------------------------------
(* Every copy has grown from what was made, and the proof was finalized    *)
(* from one of them.                                                       *)

HonestInv ==
    alterations = 0 =>
        /\ \A p \in Party : copy[p] # None =>
               CreateAccepted(request) /\ Grown(copy[p], CreateBip322Psbt(request))
        /\ proof # None =>
               \E p \in Party : /\ copy[p] # None /\ FinalizeAccepted(copy[p])
                                /\ proof = FinalizeBip322Psbt(copy[p])

(* The requests of a session are such as the creator can be asked for.     *)
LEMMA SessionRequest ==
    ASSUME NEW r \in Requests
    PROVE  RequestOK(r)
BY SessionAssumption, ChainAssumption DEF RequestOK

(* The copies are such as the signer can add to.                           *)
LEMMA CopiesShaped ==
    ASSUME NEW psbt, NEW pool, PsbtOK(psbt, pool)
    PROVE  Shaped(psbt)
<1>1. PICK S : psbt.inputs \in Seq(S) /\ \A map \in S : MapOK(map, pool)
    BY DEF PsbtOK, MapsOK
<1>2. /\ Len(psbt.inputs) \in Nat /\ DOMAIN psbt.inputs = 1 .. Len(psbt.inputs)
      /\ \A n \in DOMAIN psbt.inputs : MapOK(psbt.inputs[n], pool)
    BY <1>1, LenProperties, ElementOfSeq
<1>3. "inputs" \in DOMAIN psbt
    BY DEF PsbtOK
<1> QED BY <1>2, <1>3 DEF Shaped, MapOK

LEMMA GrownMapsCombined ==
    ASSUME NEW a, NEW b, NEW old, NEW made, NEW n,
           SameOutputs(a, old), SameOutputs(b, old),
           SameScripts(a, old, Challenge(made, n)), SameScripts(b, old, Challenge(made, n)),
           GrownMap(a, made, n), GrownMap(b, made, n)
    PROVE  /\ SameOutputs(CombineInput(a, b), old)
           /\ SameScripts(CombineInput(a, b), old, Challenge(made, n))
           /\ GrownMap(CombineInput(a, b), made, n)
<1> DEFINE c == CombineInput(a, b)
<1>1. /\ c.witness_utxo = OrElse(a.witness_utxo, b.witness_utxo)
      /\ c.non_witness_utxo = IF a.witness_utxo = None /\ b.witness_utxo # None THEN None
                              ELSE OrElse(a.non_witness_utxo, b.non_witness_utxo)
      /\ \A k \in Key : c.partial_sigs[k] = OrElse(b.partial_sigs[k], a.partial_sigs[k])
      /\ c.sighash_type = a.sighash_type
      /\ c.redeem_script = OrElse(a.redeem_script, b.redeem_script)
      /\ c.witness_script = OrElse(a.witness_script, b.witness_script)
      /\ c.tap_key_sig = OrElse(a.tap_key_sig, b.tap_key_sig)
      /\ c.tap_merkle_root = OrElse(a.tap_merkle_root, b.tap_merkle_root)
    BY DEF CombineInput
<1> HIDE DEF c
<1>2. \A x : OrElse(x, x) = x
    BY DEF OrElse
<1>3. \A x, y : OrElse(x, y) \in {x, y}
    BY DEF OrElse
<1>4. SameOutputs(c, old)
    BY <1>1, <1>2 DEF SameOutputs
<1>5. SameScripts(c, old, Challenge(made, n))
    BY <1>1, <1>2, <1>3 DEF SameScripts
<1>6. GrownMap(c, made, n)
    BY <1>1, <1>3 DEF GrownMap
<1> QED BY <1>4, <1>5, <1>6 DEF c

LEMMA GrownByCombining ==
    ASSUME NEW a, NEW b, NEW made, NEW pool, PsbtOK(a, pool), PsbtOK(b, pool),
           Grown(a, made), Grown(b, made), "message" \in DOMAIN made
    PROVE  Grown(Combine(a, b), made)
<1> DEFINE c == Combine(a, b)
<1>1. /\ DOMAIN a = DOMAIN made
      /\ a.message = made.message /\ b.message = made.message
      /\ a.unsigned_tx = made.unsigned_tx /\ a.outputs = made.outputs
      /\ DOMAIN a.inputs = DOMAIN made.inputs /\ DOMAIN b.inputs = DOMAIN made.inputs
      /\ Len(a.inputs) = Len(made.inputs)
    BY DEF Grown, SameRequest, SameSpends
<1>2. /\ DOMAIN c = DOMAIN a /\ c.message = OrElse(b.message, a.message)
      /\ c.unsigned_tx = a.unsigned_tx /\ c.outputs = a.outputs
      /\ c.inputs = [n \in DOMAIN a.inputs |->
                         IF n \in DOMAIN b.inputs THEN CombineInput(a.inputs[n], b.inputs[n])
                         ELSE a.inputs[n]]
    BY <1>1 DEF Combine, PsbtOK
<1> HIDE DEF c
<1>3. c.message = made.message
    BY <1>1, <1>2 DEF OrElse
<1>4. \A n \in DOMAIN made.inputs : c.inputs[n] = CombineInput(a.inputs[n], b.inputs[n])
    BY <1>1, <1>2
<1>5. DOMAIN c.inputs = DOMAIN made.inputs /\ Len(c.inputs) = Len(made.inputs)
    BY <1>1, <1>2 DEF PsbtOK, MapsOK
<1>6. ASSUME NEW n \in DOMAIN made.inputs
      PROVE  /\ SameOutputs(c.inputs[n], made.inputs[n])
             /\ SameScripts(c.inputs[n], made.inputs[n], Challenge(made, n))
             /\ GrownMap(c.inputs[n], made, n)
    <2> DEFINE x == a.inputs[n]
               y == b.inputs[n]
               old == made.inputs[n]
    <2>1. /\ SameOutputs(x, old) /\ SameOutputs(y, old)
          /\ SameScripts(x, old, Challenge(made, n)) /\ SameScripts(y, old, Challenge(made, n))
          /\ GrownMap(x, made, n) /\ GrownMap(y, made, n)
        BY DEF Grown, SameRequest, SameSpends
    <2> HIDE DEF x, y, old
    <2>2. /\ SameOutputs(CombineInput(x, y), old)
          /\ SameScripts(CombineInput(x, y), old, Challenge(made, n))
          /\ GrownMap(CombineInput(x, y), made, n)
        BY <2>1, GrownMapsCombined
    <2> QED BY <1>4, <2>2 DEF x, y, old
<1>7. SameRequest(c, made)
    BY <1>1, <1>2, <1>3, <1>5, <1>6 DEF SameRequest, SameSpends
<1> QED BY <1>6, <1>7 DEF Grown, c

LEMMA HonestStep ==
    ASSUME AbsentIsNoFunction
    PROVE  SessionOK /\ HonestInv /\ [Next]_vars => HonestInv'
<1> SUFFICES ASSUME SessionOK, HonestInv, [Next]_vars, alterations' = 0
             PROVE  HonestInv'
    BY DEF HonestInv
<1> DEFINE made == CreateBip322Psbt(request)
<1>1. /\ RequestOK(request) /\ alterations \in Nat
      /\ \A p \in Party : copy[p] # None => PsbtOK(copy[p], SignaturePool)
      /\ DOMAIN copy = Party
    BY SessionAssumption, SessionRequest DEF SessionOK
<1>2. CASE UNCHANGED vars
    BY <1>2 DEF HonestInv, vars
<1>3. /\ DOMAIN made.inputs = 1 .. Len(made.inputs) /\ "message" \in DOMAIN made
    BY <1>1, Created
<1>4. ASSUME NEW p \in Party, NEW psbt, Grown(psbt, made), CreateAccepted(request),
             proof = None, alterations = 0,
             copy' = [copy EXCEPT ![p] = psbt], UNCHANGED <<request, proof>>
      PROVE  HonestInv'
    BY <1>1, <1>4 DEF HonestInv
<1>5. CASE Create
    <2>1. Grown(made, made)
        BY <1>1, MadeHasNoSignatures
    <2> QED BY <1>4, <1>5, <2>1, SessionAssumption DEF Create
<1>6. ASSUME NEW p \in Party, NEW q \in Party, Receive(p, q) PROVE HonestInv'
    <2>1. /\ proof = None /\ alterations = 0 /\ UNCHANGED <<request, proof>>
          /\ copy[q] # None /\ CreateAccepted(request) /\ Grown(copy[q], made)
        BY <1>6 DEF Receive, Holds, HonestInv
    <2>2. CASE copy[p] = None /\ copy' = [copy EXCEPT ![p] = copy[q]]
        BY <1>4, <2>1, <2>2
    <2>3. CASE copy[p] # None /\ copy' = [copy EXCEPT ![p] = Combine(copy[p], copy[q])]
        <3>1. Grown(copy[p], made)
            BY <2>1, <2>3 DEF HonestInv
        <3> DEFINE a == copy[p]
                   b == copy[q]
                   base == made
        <3>2. Grown(a, base) /\ Grown(b, base) /\ "message" \in DOMAIN base
              /\ PsbtOK(a, SignaturePool) /\ PsbtOK(b, SignaturePool)
            BY <1>1, <1>3, <2>1, <2>3, <3>1
        <3> HIDE DEF a, b, base
        <3>3. Grown(Combine(a, b), base)
            BY <3>2, GrownByCombining
        <3>4. Grown(Combine(copy[p], copy[q]), made)
            BY <3>3 DEF a, b, base
        <3> QED BY <1>4, <2>1, <2>3, <3>4
    <2> QED BY <1>6, <2>2, <2>3 DEF Receive
<1>7. ASSUME NEW p \in Party, NEW key \in KeyOf[p], NEW n, Sign(p, key, n) PROVE HonestInv'
    <2>1. /\ proof = None /\ alterations = 0 /\ UNCHANGED <<request, proof>>
          /\ copy[p] # None /\ CreateAccepted(request) /\ Grown(copy[p], made)
          /\ SignAccepted(copy[p], key, n) /\ key \in Key
          /\ copy' = [copy EXCEPT ![p] = SignBip322PsbtInput(copy[p], key, n)]
        BY <1>7, SessionAssumption DEF Sign, Holds, HonestInv
    <2> DEFINE psbt == copy[p]
               base == made
    <2>2. PsbtOK(psbt, SignaturePool) /\ Grown(psbt, base)
          /\ DOMAIN base.inputs = 1 .. Len(base.inputs) /\ SignAccepted(psbt, key, n)
        BY <1>1, <1>3, <2>1
    <2> HIDE DEF psbt, base
    <2>3. Grown(SignBip322PsbtInput(psbt, key, n), base)
        BY <2>1, <2>2, CopiesShaped, GrownBySigning
    <2>4. Grown(SignBip322PsbtInput(copy[p], key, n), made)
        BY <2>3 DEF psbt, base
    <2> QED BY <1>4, <2>1, <2>4
<1>8. ASSUME NEW p \in Party, Finalize(p) PROVE HonestInv'
    BY <1>8 DEF Finalize, Holds, HonestInv
<1>9. ASSUME \/ \E p \in Party : AlterCopy(p)
             \/ AlterProof
      PROVE  FALSE
    BY <1>1, <1>9 DEF AlterCopy, AlterProof
<1> QED BY <1>2, <1>5, <1>6, <1>7, <1>8, <1>9 DEF Next

LEMMA HonestInvariant == ASSUME AbsentIsNoFunction PROVE Spec => []HonestInv
<1>1. Init => HonestInv
    BY DEF Init, HonestInv
<1> QED BY <1>1, HonestStep, SessionInvariant, PTL DEF Spec

(* SigningNeverBlocked: in a session without alterations no order of       *)
(* signing, combining and retrying locks out a key that an input asks for. *)
THEOREM NeverBlocked == ASSUME AbsentIsNoFunction PROVE Spec => []SigningNeverBlocked
<1>1. SessionOK /\ HonestInv => SigningNeverBlocked
    <2> SUFFICES ASSUME SessionOK, HonestInv, alterations = 0, ClaimsAgree(request),
                        NEW p \in Party, Holds(p), NEW n \in DOMAIN copy[p].inputs,
                        NEW key \in Key, AskedFor(n, key)
                 PROVE  SignAccepted(copy[p], key, n)
        BY DEF SigningNeverBlocked
    <2> DEFINE psbt == copy[p]
               made == CreateBip322Psbt(request)
    <2>1. RequestOK(request) /\ CreateAccepted(request) /\ SameRequest(psbt, made)
        BY SessionRequest DEF SessionOK, HonestInv, Holds, Grown
    <2>2. /\ Len(made.inputs) = Len(request.inputs) + 1 /\ Len(made.inputs) \in Nat
          /\ DOMAIN made.inputs = 1 .. Len(made.inputs)
        BY <2>1, CreatedSizes
    <2>3. n \in DOMAIN made.inputs
        BY <2>1 DEF SameRequest, SameSpends
    <2>4. KeyAccepted(made, key, n) /\ RequestAccepted(made)
        <3>1. Asks(request, n, key)
            BY DEF AskedFor, Asks
        <3> QED BY <2>1, <2>2, <2>3, <3>1, AskedKeyAccepted, MadeAccepted
    <2> HIDE DEF psbt, made
    <2>5. RequestAccepted(psbt) /\ KeyAccepted(psbt, key, n)
        BY <2>1, <2>2, <2>3, <2>4, SameAcceptance, SameRoute
    <2> QED BY <2>5 DEF SignAccepted, psbt
<1> QED BY <1>1, SessionInvariant, HonestInvariant, PTL

-----------------------------------------------------------------------------
(* Inputs that were signed and finalized are satisfied: what the finalizer *)
(* puts together from the signer's signatures is what the output asks for. *)

(* The keys chosen have signed, and come in the order of the script.       *)
LEMMA ChosenInOrder ==
    ASSUME NEW map, ParsesMultisig(MultisigScript(map)), EnoughSigned(map)
    PROVE  LET script == MultisigScript(map) IN
           \E f \in [1 .. script.required -> DOMAIN script.keys] :
               /\ \A h, j \in DOMAIN f : h < j => f[h] < f[j]
               /\ \A j \in DOMAIN f :
                      /\ ChosenKeys(map)[j] = script.keys[f[j]]
                      /\ script.keys[f[j]] \in Key
                      /\ map.partial_sigs[script.keys[f[j]]] # None
<1> DEFINE keys == MultisigScript(map).keys
           required == MultisigScript(map).required
           size == Len(keys)
           signed == { j \in DOMAIN keys : map.partial_sigs[keys[j]] # None }
           UpTo(j) == signed \cap 1 .. j
           Nth(m) == CHOOSE j \in signed : Cardinality(UpTo(j)) = m
           f == [m \in 1 .. required |-> Nth(m)]
<1>1. size \in Nat /\ DOMAIN keys = 1 .. size /\ required \in 1 .. size
      /\ \A j \in 1 .. size : keys[j] \in Key
    BY LenProperties, ElementOfSeq DEF ParsesMultisig
<1>2. signed \subseteq 1 .. size /\ IsFiniteSet(signed) /\ Cardinality(signed) \in Nat
    <2>1. IsFiniteSet(1 .. size) /\ signed \subseteq 1 .. size
        BY <1>1, FS_Interval
    <2> QED BY <2>1, FS_Subset, FS_CardinalityType
<1>3. Cardinality(signed) >= required
    BY DEF EnoughSigned
<1>4. \A m \in 1 .. required : ChosenKeys(map)[m] = keys[Nth(m)]
    BY DEF ChosenKeys
<1>5. ASSUME NEW m \in 1 .. required
      PROVE  Nth(m) \in signed /\ Cardinality(UpTo(Nth(m))) = m
    <2>1. \E j \in signed : Cardinality(UpTo(j)) = m
        <3> HIDE DEF signed, size, required
        <3>1. Cardinality(signed) >= m /\ m \in Nat \ {0}
            BY <1>1, <1>2, <1>3
        <3> QED BY <1>1, <1>2, <3>1, Counted
    <2> HIDE DEF signed, UpTo
    <2> QED BY <2>1
<1>6. \A m \in 1 .. required :
          /\ Nth(m) \in 1 .. size
          /\ keys[Nth(m)] \in Key /\ map.partial_sigs[keys[Nth(m)]] # None
    <2>1. \A j \in signed : j \in 1 .. size /\ map.partial_sigs[keys[j]] # None
        BY <1>2
    <2> HIDE DEF Nth, signed, required, keys, size
    <2> QED BY <1>1, <1>5, <2>1
<1>7. ASSUME NEW h \in 1 .. required, NEW j \in 1 .. required, h < j
      PROVE  Nth(h) < Nth(j)
    <2> DEFINE low == Nth(h)
               high == Nth(j)
    <2>1. /\ low \in 1 .. size /\ high \in 1 .. size
          /\ Cardinality(UpTo(low)) = h /\ Cardinality(UpTo(high)) = j
        BY <1>5, <1>6
    <2>2. IsFiniteSet(UpTo(low))
        BY <1>2, FS_Intersection
    <2> HIDE DEF low, high, signed, size
    <2>3. high <= low => UpTo(high) \in SUBSET UpTo(low)
        BY <1>1, <2>1
    <2> HIDE DEF UpTo
    <2>4. high <= low => j <= h
        BY <2>1, <2>2, <2>3, FS_Subset
    <2>5. low \in Int /\ high \in Int /\ h \in Int /\ j \in Int
        BY <1>1, <2>1
    <2> QED BY <1>7, <2>4, <2>5 DEF low, high
<1> HIDE DEF Nth
<1>8. f \in [1 .. required -> DOMAIN keys] /\ DOMAIN f = 1 .. required
    BY <1>1, <1>6
<1>9. \A m \in 1 .. required : f[m] = Nth(m)
    OBVIOUS
<1> HIDE DEF f, keys, required
<1>10. \A h, j \in DOMAIN f : h < j => f[h] < f[j]
    BY <1>7, <1>8, <1>9
<1>11. \A j \in DOMAIN f :
           /\ ChosenKeys(map)[j] = keys[f[j]]
           /\ keys[f[j]] \in Key /\ map.partial_sigs[keys[f[j]]] # None
    BY <1>4, <1>6, <1>8, <1>9
<1> QED BY <1>8, <1>10, <1>11 DEF keys, required

(* The items that the finalizer puts together for a multisig script are    *)
(* what the script asks for, and within every limit.                       *)
LEMMA MultisigSpent ==
    ASSUME AbsentIsNoFunction, NEW map, ParsesMultisig(MultisigScript(map)),
           EnoughSigned(map), NEW sighash,
           \A key \in Key : map.partial_sigs[key] # None =>
               SigItem(map.partial_sigs[key]) = EcdsaBy(key, sighash)
    PROVE  LET items == MultisigSpend(map) script == MultisigScript(map) IN
               /\ items # << >> /\ items # None /\ Last(items) = ScriptItem(script)
               /\ CheckWitnessStack(Front(items))
               /\ ScriptLen(script) <= MaxElementSize =>
                      CheckWitnessStack(items) /\ ScriptSigLen(items) <= MaxScriptSize
               /\ \A keys : ScriptStack(script, keys, Front(items), sighash)
<1> DEFINE chosen == ChosenKeys(map)
           script == MultisigScript(map)
           size == script.required
           sigs == [j \in DOMAIN chosen |-> SigItem(map.partial_sigs[chosen[j]])]
           both == <<EmptyItem>> \o sigs
           items == both \o <<ScriptItem(script)>>
<1>1. MultisigSpend(map) = items
    BY DEF MultisigSpend
<1>2. DOMAIN chosen = 1 .. size
    BY DEF ChosenKeys
<1>3. PICK f \in [1 .. size -> DOMAIN script.keys] :
          /\ \A h, j \in DOMAIN f : h < j => f[h] < f[j]
          /\ \A j \in DOMAIN f :
                 /\ chosen[j] = script.keys[f[j]]
                 /\ script.keys[f[j]] \in Key
                 /\ map.partial_sigs[script.keys[f[j]]] # None
    BY ChosenInOrder
<1> HIDE DEF chosen
<1>4. Listed(sigs, size)
    BY <1>2 DEF Listed
<1>5. SignedInOrder(sigs, script, sighash)
    BY <1>2, <1>3, <1>4 DEF SignedInOrder
<1>6. RoomForMultisig /\ ParsesMultisig(script)
    BY ChainAssumption
<1>7. Joins(both, <<EmptyItem>>, sigs) /\ Joins(items, both, <<ScriptItem(script)>>)
    BY DEF Joins
<1> HIDE DEF sigs, both, items, script
<1>8. /\ items # << >> /\ items # None /\ Last(items) = ScriptItem(script)
      /\ CheckWitnessStack(Front(items))
      /\ ScriptLen(script) <= MaxElementSize =>
             CheckWitnessStack(items) /\ ScriptSigLen(items) <= MaxScriptSize
      /\ \A keys : ScriptStack(script, keys, Front(items), sighash)
    BY <1>5, <1>6, <1>7, MultisigSatisfies
<1> QED BY <1>1, <1>8 DEF script, items

(* What the finalizer and the extraction leave of an input.                *)
FilledIn(to_sign, psbt, n) ==
    LET map == psbt.inputs[n]
        route == FinalizingRoute(map, Challenge(psbt, n))
    IN  /\ to_sign.tx = psbt.unsigned_tx
        /\ to_sign.script_sig[n] = ItemsOrNone(FinalScriptSig(map, route))
        /\ to_sign.witness[n] = ItemsOrNone(FinalScriptWitness(map, route))

(* The single signature of a key: what the one signer of an input made.    *)
LEMMA KeySpent ==
    ASSUME AbsentIsNoFunction, NEW map, NEW key \in Key, SinglePartialSig(map, key), NEW sighash,
           SigItem(map.partial_sigs[key]) = EcdsaBy(key, sighash)
    PROVE  /\ KeySpend(map) = KeyStack(key, sighash)
           /\ ItemsOrNone(KeySpend(map)) = KeyStack(key, sighash)
<1>1. \A k \in Key : Signers(map) = {k} <=> k = key
    BY DEF SinglePartialSig
<1>2. (CHOOSE k \in Key : Signers(map) = {k}) = key
    BY <1>1
<1>3. KeySpend(map) = KeyStack(key, sighash)
    BY <1>2 DEF KeySpend, KeyStack
<1>4. KeyStack(key, sighash) # None
    <2>1. KeyStack(key, sighash) \in Seq({EcdsaBy(key, sighash), KeyItem(key)})
        BY DEF KeyStack
    <2> QED BY <2>1, PresentSequences
<1> QED BY <1>3, <1>4 DEF ItemsOrNone

(* An input that was signed by keys it asks for and that the finalizer     *)
(* accepts is satisfied by what the finalizer puts together.               *)
THEOREM FinalizedIsSatisfied ==
    ASSUME AbsentIsNoFunction, NEW psbt, NEW n \in DOMAIN psbt.inputs,
           GrownMap(psbt.inputs[n], psbt, n),
           InputFinalizable(psbt.inputs[n], Challenge(psbt, n)),
           Challenge(psbt, n) = Resolve(psbt, n).script_pubkey,
           NEW to_sign, FilledIn(to_sign, psbt, n)
    PROVE  InputSatisfied(to_sign, Prevouts(psbt), n)
<1> DEFINE map == psbt.inputs[n]
           spk == Challenge(psbt, n)
           tx == psbt.unsigned_tx
           prevouts == Prevouts(psbt)
           value == Resolve(psbt, n).value
           route == FinalizingRoute(map, spk)
           script_sig == to_sign.script_sig[n]
           witness == to_sign.witness[n]
<1>1. /\ prevouts[n].script_pubkey = spk /\ prevouts[n].value = value
      /\ to_sign.tx = tx
      /\ script_sig = ItemsOrNone(FinalScriptSig(map, route))
      /\ witness = ItemsOrNone(FinalScriptWitness(map, route))
    BY DEF Prevouts, FilledIn
<1>2. \A key \in Key : map.partial_sigs[key] # None =>
          /\ SigningRoute(psbt, n) # "p2tr" /\ KeyAccepted(psbt, key, n)
          /\ map.partial_sigs[key] = SignatureOf(psbt, key, n)
    BY DEF GrownMap, SignedFor
<1>3. map.tap_key_sig # None =>
          /\ SigningRoute(psbt, n) = "p2tr"
          /\ \E key \in Key : /\ KeyAccepted(psbt, key, n)
                              /\ map.tap_key_sig = SignatureOf(psbt, key, n)
    BY DEF GrownMap, SignedFor
<1>4. \A key \in Key : map.partial_sigs[key] # None =>
          SigItem(map.partial_sigs[key]) = EcdsaBy(key, SigningSighash(psbt, key, n))
    BY <1>2 DEF SignatureOf, EcdsaBy
<1>5. \A key \in Key : SinglePartialSig(map, key) => map.partial_sigs[key] # None
    BY DEF SinglePartialSig, Signers
<1>6. InputFinalizable(map, spk)
    OBVIOUS
<1>7. ItemsOrNone(None) = << >>
    BY DEF ItemsOrNone
<1> HIDE DEF map, spk, tx, prevouts, value, route, script_sig, witness
<1>8. CASE route = "p2tr"
    <2>1. map.tap_key_sig # None
        BY <1>8 DEF FinalizingRoute, route
    <2>2. PICK key \in Key : /\ KeyAccepted(psbt, key, n)
                             /\ map.tap_key_sig = SignatureOf(psbt, key, n)
        BY <1>3, <2>1
    <2> DEFINE type == SigningTaprootSighash(map)
    <2>3. /\ SigningRoute(psbt, n) = "p2tr"
          /\ map.sighash_type \in {None, "ALL", "DEFAULT"}
          /\ spk = P2tr(Point[key], map.tap_merkle_root)
        BY <1>3, <2>1, <2>2 DEF KeyAccepted, map, spk
    <2>4. type \in {"ALL", "DEFAULT"}
        BY <2>3 DEF SigningTaprootSighash
    <2>5. map.tap_key_sig = Signature("schnorr", spk,
                                Sighash("taproot", tx, n, None, prevouts, type), type)
        BY <2>2, <2>3 DEF SignatureOf, SigningSighash, TaprootSighash, map, tx, prevouts
    <2>6. script_sig = << >> /\ FinalScriptWitness(map, route) = <<SigItem(map.tap_key_sig)>>
        BY <1>1, <1>7, <1>8 DEF FinalScriptSig, FinalScriptWitness
    <2>7. <<SigItem(map.tap_key_sig)>> # None
        <3>1. <<SigItem(map.tap_key_sig)>> \in Seq({SigItem(map.tap_key_sig)})
            OBVIOUS
        <3> QED BY <3>1, PresentSequences
    <2>8. witness = <<SigItem(map.tap_key_sig)>>
        BY <1>1, <2>6, <2>7 DEF ItemsOrNone
    <2> HIDE DEF type
    <2>9. Len(witness) = 1 /\ SchnorrBy(witness[1], spk, tx, n, None, prevouts)
        BY <2>4, <2>5, <2>8 DEF SchnorrBy
    <2>10. TaprootSatisfied(spk, witness, tx, n, prevouts)
        BY <2>9 DEF TaprootSatisfied
    <2>11. /\ spk.type = "p2tr" /\ spk = P2tr(spk.point, spk.root) /\ spk # None
           /\ Unwrapped(spk) = spk
        BY <2>3, Present DEF P2tr, Unwrapped
    <2>12. CheckScript(spk)
        BY <2>11, ShortScript, ChainAssumption
    <2>13. ScriptSigLen(script_sig) <= MaxScriptSize
        BY <2>6, ScriptSigsFit, ChainAssumption
    <2> QED BY <1>1, <2>6, <2>10, <2>11, <2>12, <2>13
        DEF InputSatisfied, script_sig, witness, prevouts
<1>9. CASE route = "p2sh_p2wpkh"
    <2>1. PICK key \in Compressed : /\ SinglePartialSig(map, key)
                                    /\ map.redeem_script = P2wpkh(key)
                                    /\ spk = P2sh(P2wpkh(key))
        BY <1>6, <1>9 DEF InputFinalizable, route
    <2>2. key \in Key /\ map.partial_sigs[key] # None
        BY <1>5, <2>1, DataAssumption
    <2>3. /\ spk.type = "p2sh" /\ spk.script = P2wpkh(key)
          /\ P2wpkh(key).type = "p2wpkh" /\ P2wpkh(key) # None
          /\ \A s : P2wsh(s).type = "p2wsh"
        BY <2>1, Present DEF P2sh, P2wpkh, P2wsh
    <2>4. SigningRoute(psbt, n) = "p2sh_p2wpkh"
        <3>1. SigningRoute(psbt, n) \in {"p2sh_p2wpkh", "multisig"}
            BY <2>3 DEF SigningRoute, spk
        <3>2. SUFFICES ASSUME SigningRoute(psbt, n) = "multisig" PROVE FALSE
            BY <3>1
        <3>3. MultisigChallengeAccepted(map, spk)
            BY <1>2, <2>2, <3>2 DEF KeyAccepted, map, spk
        <3>4. map.witness_script # None
            BY <2>1, <2>3, <3>2 DEF SigningRoute, IsP2wpkh, map, spk
        <3>5. spk = P2wsh(map.witness_script) \/ map.redeem_script = P2wsh(map.witness_script)
            BY <3>3, <3>4 DEF MultisigChallengeAccepted, IsWitnessMultisig, MultisigScript
        <3> QED BY <2>1, <2>3, <3>5
    <2>5. SigningSighash(psbt, key, n) = SegwitSighash(tx, n, P2wpkh(key), value)
        BY <2>4 DEF SigningSighash, tx, value
    <2>6. ItemsOrNone(KeySpend(map)) = KeyStack(key, SegwitSighash(tx, n, P2wpkh(key), value))
        BY <1>4, <2>1, <2>2, <2>5, KeySpent
    <2>7. FinalScriptSig(map, route) = <<ScriptItem(spk.script)>>
          /\ FinalScriptWitness(map, route) = KeySpend(map)
        BY <1>9, <2>1, <2>3 DEF FinalScriptSig, FinalScriptWitness
    <2>8. <<ScriptItem(spk.script)>> # None
        <3>1. <<ScriptItem(spk.script)>> \in Seq({ScriptItem(spk.script)})
            OBVIOUS
        <3> QED BY <3>1, PresentSequences
    <2>9. script_sig = <<ScriptItem(spk.script)>>
          /\ witness = KeyStack(key, SegwitSighash(tx, n, P2wpkh(key), value))
        BY <1>1, <2>6, <2>7, <2>8 DEF ItemsOrNone
    <2>10. WitnessSatisfied(spk.script, witness, tx, n, value)
        BY <2>3, <2>9 DEF WitnessSatisfied
    <2>11. spk = P2sh(spk.script) /\ spk # None /\ Unwrapped(spk) # None
        BY <2>1, <2>3, Present DEF Unwrapped
    <2>12. CheckScript(spk)
        BY <2>3, ShortScript, ChainAssumption
    <2>13. ScriptSigLen(script_sig) <= MaxScriptSize
        BY <2>3, <2>9, ScriptSigsFit, ChainAssumption
    <2> QED BY <1>1, <2>3, <2>9, <2>10, <2>11, <2>12, <2>13
        DEF InputSatisfied, script_sig, witness, prevouts
<1>10. CASE route = "p2wpkh"
    <2>1. PICK key \in Compressed : SinglePartialSig(map, key) /\ spk = P2wpkh(key)
        BY <1>6, <1>10 DEF InputFinalizable, route
    <2>2. key \in Key /\ map.partial_sigs[key] # None
        BY <1>5, <2>1, DataAssumption
    <2>3. spk.type = "p2wpkh" /\ spk # None /\ Unwrapped(spk) = spk
        BY <2>1, Present DEF P2wpkh, Unwrapped
    <2>4. SigningSighash(psbt, key, n) = SegwitSighash(tx, n, spk, value)
        BY <2>3 DEF SigningSighash, SigningRoute, tx, spk, value
    <2>5. ItemsOrNone(KeySpend(map)) = KeyStack(key, SegwitSighash(tx, n, spk, value))
        BY <1>4, <2>1, <2>2, <2>4, KeySpent
    <2>6. FinalScriptSig(map, route) = None /\ FinalScriptWitness(map, route) = KeySpend(map)
        BY <1>10 DEF FinalScriptSig, FinalScriptWitness
    <2>7. script_sig = << >> /\ witness = KeyStack(key, SegwitSighash(tx, n, spk, value))
        BY <1>1, <1>7, <2>5, <2>6
    <2>8. WitnessSatisfied(spk, witness, tx, n, value)
        BY <2>1, <2>7 DEF WitnessSatisfied
    <2>9. CheckScript(spk)
        BY <2>3, ShortScript, ChainAssumption
    <2>10. ScriptSigLen(script_sig) <= MaxScriptSize
        BY <2>7, ScriptSigsFit, ChainAssumption
    <2> QED BY <1>1, <2>3, <2>7, <2>8, <2>9, <2>10
        DEF InputSatisfied, script_sig, witness, prevouts
<1>11. CASE route = "p2pkh"
    <2>1. PICK key \in Key : SinglePartialSig(map, key) /\ spk = P2pkh(key)
        BY <1>6, <1>11 DEF InputFinalizable, route
    <2>2. map.partial_sigs[key] # None
        BY <1>5, <2>1
    <2>3. spk.type = "p2pkh" /\ spk # None /\ Unwrapped(spk) = spk
        BY <2>1, Present DEF P2pkh, Unwrapped
    <2>4. SigningSighash(psbt, key, n) = LegacySighash(tx, n, spk)
        BY <2>3 DEF SigningSighash, SigningRoute, tx, spk
    <2>5. ItemsOrNone(KeySpend(map)) = KeyStack(key, LegacySighash(tx, n, spk))
        BY <1>4, <2>1, <2>2, <2>4, KeySpent
    <2>6. FinalScriptSig(map, route) = KeySpend(map) /\ FinalScriptWitness(map, route) = None
        BY <1>11 DEF FinalScriptSig, FinalScriptWitness
    <2>7. witness = << >> /\ script_sig = KeyStack(key, LegacySighash(tx, n, spk))
        BY <1>1, <1>7, <2>5, <2>6
    <2>8. CheckScript(spk)
        BY <2>3, ShortScript, ChainAssumption
    <2>9. ScriptSigLen(script_sig) <= MaxScriptSize
        BY <2>7, ScriptSigsFit, ChainAssumption
    <2> QED BY <1>1, <2>1, <2>3, <2>7, <2>8, <2>9
        DEF InputSatisfied, script_sig, witness, prevouts
<1>12. CASE route = "multisig"
    <2> DEFINE script == MultisigScript(map)
               items == MultisigSpend(map)
    <2>1. /\ script # None /\ MultisigChallengeAccepted(map, spk) /\ ParsesMultisig(script)
          /\ EnoughSigned(map)
        BY <1>6, <1>12 DEF InputFinalizable, route
    <2>2. /\ \A s : P2wsh(s).type = "p2wsh" /\ P2wsh(s).script = s
          /\ \A s : P2sh(s).type = "p2sh" /\ P2sh(s).script = s
          /\ \A s : P2wsh(s) # None /\ P2sh(s) # None
          /\ script.type = "multisig"
        BY <2>1, Present DEF P2wsh, P2sh, ParsesMultisig
    <2>3. ~IsP2wpkh(map.redeem_script)
        BY <1>12 DEF FinalizingRoute, route
    <2>4. /\ IsWitnessMultisig(map) => /\ script = map.witness_script
                                       /\ \/ spk = P2wsh(script) /\ map.redeem_script = None
                                          \/ spk = P2sh(P2wsh(script)) /\ map.redeem_script = P2wsh(script)
          /\ ~IsWitnessMultisig(map) => /\ script = map.redeem_script /\ map.witness_script = None
                                        /\ spk = P2sh(script) /\ ScriptLen(script) <= MaxElementSize
        BY <2>1 DEF MultisigChallengeAccepted, IsWitnessMultisig, MultisigScript
    <2> HIDE DEF script, items
    <2>5. SigningRoute(psbt, n) = "multisig"
        BY <2>1, <2>2, <2>3, <2>4 DEF SigningRoute, IsWitnessMultisig, map, spk
    <2> DEFINE sighash == IF IsWitnessMultisig(map) THEN SegwitSighash(tx, n, script, value)
                          ELSE LegacySighash(tx, n, script)
    <2>6. \A key \in Key : SigningSighash(psbt, key, n) = sighash
        BY <2>5 DEF SigningSighash, map, tx, value, script
    <2> HIDE DEF sighash
    <2>7. \A key \in Key : map.partial_sigs[key] # None =>
              SigItem(map.partial_sigs[key]) = EcdsaBy(key, sighash)
        BY <1>4, <2>6
    <2>8. /\ items # << >> /\ items # None /\ Last(items) = ScriptItem(script)
          /\ CheckWitnessStack(Front(items))
          /\ ScriptLen(script) <= MaxElementSize =>
                 CheckWitnessStack(items) /\ ScriptSigLen(items) <= MaxScriptSize
          /\ \A keys : ScriptStack(script, keys, Front(items), sighash)
        BY <2>1, <2>7, MultisigSpent DEF script, items
    <2>9. Last(items).data = script
        BY <2>8 DEF ScriptItem
    <2>10. ItemsOrNone(items) = items
        BY <2>8 DEF ItemsOrNone
    <2>11. spk # None /\ Unwrapped(spk) # None /\ spk.type \in {"p2sh", "p2wsh"}
        BY <2>1, <2>2, <2>4 DEF Unwrapped
    <2>12. CheckScript(spk)
        BY <2>11, ShortScript, ChainAssumption
    <2>13. CASE IsWitnessMultisig(map)
        <3>1. sighash = SegwitSighash(tx, n, script, value)
            BY <2>13 DEF sighash
        <3>2. witness = items
            BY <1>1, <1>12, <2>10, <2>13 DEF FinalScriptWitness, items
        <3>3. WitnessSatisfied(P2wsh(script), witness, tx, n, value)
            BY <2>8, <2>9, <3>1, <3>2 DEF WitnessSatisfied
        <3>4. CASE spk = P2wsh(script) /\ map.redeem_script = None
            <4>1. script_sig = << >>
                BY <1>1, <1>7, <1>12, <2>13, <3>4 DEF FinalScriptSig
            <4>2. ScriptSigLen(script_sig) <= MaxScriptSize
                BY <4>1, ScriptSigsFit, ChainAssumption
            <4> QED BY <1>1, <2>11, <2>12, <3>3, <3>4, <4>1, <4>2
        DEF InputSatisfied, script_sig, witness, prevouts
        <3>5. CASE spk = P2sh(P2wsh(script)) /\ map.redeem_script = P2wsh(script)
            <4>1. spk.type = "p2sh" /\ spk.script = P2wsh(script) /\ spk = P2sh(spk.script)
                BY <2>2, <3>5
            <4>2. FinalScriptSig(map, route) = <<ScriptItem(spk.script)>>
                BY <1>12, <2>2, <2>13, <3>5, <4>1 DEF FinalScriptSig
            <4>3. <<ScriptItem(spk.script)>> # None
                <5>1. <<ScriptItem(spk.script)>> \in Seq({ScriptItem(spk.script)})
                    OBVIOUS
                <5> QED BY <5>1, PresentSequences
            <4>4. script_sig = <<ScriptItem(spk.script)>>
                BY <1>1, <4>2, <4>3 DEF ItemsOrNone
            <4>5. ScriptSigLen(script_sig) <= MaxScriptSize
                BY <2>2, <4>1, <4>4, ScriptSigsFit, ChainAssumption
            <4> QED BY <1>1, <2>11, <2>12, <3>3, <4>1, <4>4, <4>5
        DEF InputSatisfied, script_sig, witness, prevouts
        <3> QED BY <2>4, <2>13, <3>4, <3>5
    <2>14. CASE ~IsWitnessMultisig(map)
        <3>1. sighash = LegacySighash(tx, n, script)
            BY <2>14 DEF sighash
        <3>2. script_sig = items /\ witness = << >>
            BY <1>1, <1>7, <1>12, <2>10, <2>14 DEF FinalScriptSig, FinalScriptWitness, items
        <3>3. RedeemSatisfied(spk, script_sig, tx, n)
            BY <2>4, <2>8, <2>9, <2>14, <3>1, <3>2 DEF RedeemSatisfied
        <3>4. ScriptSigLen(script_sig) <= MaxScriptSize
            BY <2>4, <2>8, <2>14, <3>2
        <3> QED BY <1>1, <2>11, <2>12, <3>2, <3>3, <3>4
        DEF InputSatisfied, script_sig, witness, prevouts
    <2> QED BY <2>13, <2>14
<1> QED BY <1>6, <1>8, <1>9, <1>10, <1>11, <1>12 DEF InputFinalizable, route

-----------------------------------------------------------------------------
(* A finalized PSBT, and what the verifier makes of it.                    *)

(* Finalizing leaves what is spent as it was.                              *)
LEMMA FinalizedSpends ==
    ASSUME NEW psbt, {"unsigned_tx", "message", "inputs", "outputs"} \subseteq DOMAIN psbt,
           DOMAIN psbt.inputs = 1 .. Len(psbt.inputs), Len(psbt.inputs) \in Nat
    PROVE  /\ SameSpends(FinalizedPsbt(psbt), psbt)
           /\ ExtractTx(FinalizedPsbt(psbt)).tx = psbt.unsigned_tx
           /\ \A n \in DOMAIN psbt.inputs : FilledIn(ExtractTx(FinalizedPsbt(psbt)), psbt, n)
<1> DEFINE finalized == FinalizedPsbt(psbt)
           to_sign == ExtractTx(finalized)
           Done(n) == FinalizedInput(psbt.inputs[n], Challenge(psbt, n))
           maps == [n \in DOMAIN psbt.inputs |-> Done(n)]
<1>1. /\ finalized.unsigned_tx = psbt.unsigned_tx /\ finalized.message = psbt.message
      /\ finalized.outputs = psbt.outputs /\ finalized.inputs = maps
    BY DEF FinalizedPsbt
<1>2. \A n \in DOMAIN psbt.inputs :
          LET route == FinalizingRoute(psbt.inputs[n], Challenge(psbt, n)) IN
              /\ Done(n).witness_utxo = psbt.inputs[n].witness_utxo
              /\ Done(n).non_witness_utxo = psbt.inputs[n].non_witness_utxo
              /\ Done(n).final_script_sig = FinalScriptSig(psbt.inputs[n], route)
              /\ Done(n).final_script_witness = FinalScriptWitness(psbt.inputs[n], route)
    BY DEF FinalizedInput, EmptyInput
<1> HIDE DEF Done
<1>3. DOMAIN maps = DOMAIN psbt.inputs /\ Len(maps) = Len(psbt.inputs)
      /\ \A n \in DOMAIN psbt.inputs : maps[n] = Done(n)
    OBVIOUS
<1> HIDE DEF maps, finalized
<1>4. SameSpends(finalized, psbt)
    BY <1>1, <1>2, <1>3 DEF SameSpends, SameOutputs
<1>5. /\ to_sign.tx = psbt.unsigned_tx
      /\ \A n \in DOMAIN psbt.inputs :
             /\ to_sign.script_sig[n] = ItemsOrNone(Done(n).final_script_sig)
             /\ to_sign.witness[n] = ItemsOrNone(Done(n).final_script_witness)
    BY <1>1, <1>3 DEF ExtractTx, ItemsOrNone
<1> HIDE DEF to_sign
<1>6. \A n \in DOMAIN psbt.inputs : FilledIn(to_sign, psbt, n)
    BY <1>2, <1>5 DEF FilledIn
<1> QED BY <1>4, <1>5, <1>6 DEF finalized, to_sign

(* An input that nothing shows the transaction of is a segwit spend.       *)
LEMMA FinalizableIsWitness ==
    ASSUME AbsentIsNoFunction, NEW map, NEW spk, InputFinalizable(map, spk),
           SpendsWitness(spk, map.redeem_script)
    PROVE  Algorithm(spk) # "legacy"
<1>1. CASE IsWitnessProgram(spk)
    <2>1. spk.type # "p2sh"
        BY <1>1 DEF IsWitnessProgram
    <2> QED BY <1>1, <2>1 DEF Algorithm, Unwrapped
<1>2. CASE ~IsWitnessProgram(spk)
    <2>1. spk.type = "p2sh" /\ (map.redeem_script = None \/ IsWitnessProgram(map.redeem_script))
        BY <1>2 DEF SpendsWitness
    <2>2. /\ \A s : P2sh(s).script = s
          /\ \A s : P2wsh(s).type = "p2wsh" /\ P2wsh(s) # None
          /\ \A key : P2wpkh(key).type = "p2wpkh" /\ P2wpkh(key) # None
          /\ \A key : P2pkh(key).type = "p2pkh"
        BY Present DEF P2sh, P2wsh, P2wpkh, P2pkh
    <2>3. \/ \E key : spk = P2sh(P2wpkh(key))
          \/ /\ MultisigScript(map) # None
             /\ MultisigChallengeAccepted(map, spk)
        BY <2>1, <2>2 DEF InputFinalizable
    <2>4. CASE \E key : spk = P2sh(P2wpkh(key))
        <3>1. IsWitnessProgram(spk.script)
            BY <2>2, <2>4 DEF IsWitnessProgram
        <3> QED BY <2>1, <3>1 DEF Algorithm, Unwrapped
    <2>5. CASE MultisigScript(map) # None /\ MultisigChallengeAccepted(map, spk)
        <3>1. CASE IsWitnessMultisig(map)
            <4>1. \E s : spk = P2wsh(s) \/ spk = P2sh(P2wsh(s))
                BY <2>5, <3>1 DEF MultisigChallengeAccepted
            <4>2. IsWitnessProgram(spk.script)
                BY <2>1, <2>2, <4>1 DEF IsWitnessProgram
            <4> QED BY <2>1, <4>2 DEF Algorithm, Unwrapped
        <3>2. CASE ~IsWitnessMultisig(map)
            <4>1. spk = P2sh(map.redeem_script) /\ map.redeem_script # None
                BY <2>5, <3>2 DEF MultisigChallengeAccepted, MultisigScript, IsWitnessMultisig
            <4>2. IsWitnessProgram(spk.script)
                BY <2>1, <2>2, <4>1
            <4> QED BY <2>1, <4>2 DEF Algorithm, Unwrapped
        <3> QED BY <3>1, <3>2
    <2> QED BY <2>3, <2>4, <2>5
<1> QED BY <1>1, <1>2

(* A PSBT whose every input was signed by keys it asks for.                *)
SignedPsbt(psbt) == \A n \in DOMAIN psbt.inputs : GrownMap(psbt.inputs[n], psbt, n)

LEMMA FinalizedAccepted ==
    ASSUME AbsentIsNoFunction, NEW psbt, NEW pool, PsbtOK(psbt, pool),
           {"unsigned_tx", "message", "inputs", "outputs"} \subseteq DOMAIN psbt,
           FinalizeAccepted(psbt), SignedPsbt(psbt), NEW n \in DOMAIN psbt.inputs
    PROVE  LET to_sign == ExtractTx(FinalizedPsbt(psbt))
               spend == Parse(to_sign, Prevouts(psbt), n)
           IN  /\ Accepted(to_sign, Prevouts(psbt), n, spend)
               /\ IsWitnessSpend(spend) \/ HasNonWitness(psbt, n)
<1> DEFINE finalized == FinalizedPsbt(psbt)
           to_sign == ExtractTx(finalized)
           prevouts == Prevouts(psbt)
           spend == Parse(to_sign, prevouts, n)
           spk == Challenge(psbt, n)
<1>1. DOMAIN psbt.inputs = 1 .. Len(psbt.inputs) /\ Len(psbt.inputs) \in Nat
    BY LenProperties DEF PsbtOK, MapsOK
<1>2. PsbtOK(finalized, pool)
    BY FinalizedPsbtOK
<1>3. SameSpends(finalized, psbt) /\ FilledIn(to_sign, psbt, n)
    BY <1>1, FinalizedSpends
<1>4. /\ spk = Resolve(psbt, n).script_pubkey /\ CheckedPrevout(psbt, n)
      /\ InputFinalizable(psbt.inputs[n], spk)
    BY DEF FinalizeAccepted, RequestAccepted, Challenge
<1>5. GrownMap(psbt.inputs[n], psbt, n)
    BY DEF SignedPsbt
<1> HIDE DEF finalized
<1>6. InputOK(to_sign, n)
    <2>1. n \in DOMAIN finalized.inputs
        BY <1>3 DEF SameSpends
    <2> QED BY <1>2, <2>1, ExtractedInput, ShownByInput
<1> HIDE DEF to_sign
<1>7. InputSatisfied(to_sign, prevouts, n)
    BY <1>3, <1>4, <1>5, FinalizedIsSatisfied
<1>8. prevouts[n].script_pubkey = spk
    BY <1>4 DEF Prevouts
<1> HIDE DEF prevouts, spk
<1>9. Accepted(to_sign, prevouts, n, spend)
    BY <1>6, <1>7, SatisfiedInputIsValid
<1>10. IsWitnessSpend(spend) \/ HasNonWitness(psbt, n)
    <2>1. SpendsWitness(spk, psbt.inputs[n].redeem_script) => Algorithm(spk) # "legacy"
        BY <1>4, FinalizableIsWitness
    <2>2. SpendsWitness(spk, psbt.inputs[n].redeem_script) \/ HasNonWitness(psbt, n)
        BY <1>4 DEF CheckedPrevout
    <2>3. IsWitnessSpend(spend) \/ Algorithm(spk) = "legacy"
        BY <1>8, <1>9 DEF Accepted
    <2> QED BY <2>1, <2>2, <2>3
<1> QED BY <1>9, <1>10 DEF prevouts, to_sign, finalized

(* A PSBT of which every input was signed by keys it asks for and which    *)
(* the finalizer accepts makes a proof that the verifier accepts.          *)
LEMMA FinalizedVerifies ==
    ASSUME AbsentIsNoFunction, NEW psbt, NEW pool, PsbtOK(psbt, pool),
           {"unsigned_tx", "message", "inputs", "outputs"} \subseteq DOMAIN psbt,
           FinalizeAccepted(psbt), SignedPsbt(psbt), psbt.unsigned_tx.version \in {0, 2},
           NEW address, SpendsChallenge(psbt.unsigned_tx, address, psbt.message),
           Resolve(psbt, 1) = TxOut(0, address)
    PROVE  Verify(address, psbt.message, FinalizeBip322Psbt(psbt)) = "Valid"
<1> DEFINE finalized == FinalizedPsbt(psbt)
           to_sign == ExtractTx(finalized)
           prevouts == Prevouts(psbt)
           tx == psbt.unsigned_tx
           size == Len(psbt.inputs)
           message == psbt.message
<1>1. /\ size \in Nat /\ size > 0 /\ DOMAIN psbt.inputs = 1 .. size
      /\ Len(tx.input) = size /\ DOMAIN tx.input = 1 .. size
    <2>1. size > 0
        BY DEF FinalizeAccepted, RequestAccepted, Detected
    <2> QED BY <2>1, LenProperties DEF PsbtOK, MapsOK, TxOK
<1>2. SameSpends(finalized, psbt) /\ to_sign.tx = tx
    BY <1>1, FinalizedSpends
<1>3. \A n \in 1 .. size :
          /\ Accepted(to_sign, prevouts, n, Parse(to_sign, prevouts, n))
          /\ IsWitnessSpend(Parse(to_sign, prevouts, n)) \/ HasNonWitness(psbt, n)
    BY <1>1, FinalizedAccepted
<1>4. /\ Detected(psbt) /\ StructureValid(psbt) /\ IndexedOk(psbt) /\ size <= MaxProofInputs
      /\ \A n \in 1 .. size : Resolvable(psbt, n)
    BY <1>1 DEF FinalizeAccepted, RequestAccepted, CheckedPrevout
<1>5. message \in Utf8 /\ IsBip322Output(tx.output)
    BY <1>4 DEF Detected
<1>6. SpendsChallenge(tx, address, message) /\ Resolve(psbt, 1) = TxOut(0, address)
    OBVIOUS
<1>7. tx.version \in {0, 2}
    OBVIOUS
<1>8. FinalizeBip322Psbt(psbt) = IF size > 1 THEN [format |-> "pof", psbt |-> finalized]
                                 ELSE [format |-> "ful", to_sign |-> to_sign]
    BY DEF FinalizeBip322Psbt
<1> HIDE DEF to_sign, prevouts, finalized, size, message, tx
<1>9. VerifySpends(to_sign, prevouts, ParseSpends(to_sign, prevouts)) = "Valid"
    BY <1>1, <1>2, <1>3, <1>7, AcceptedSpends
<1>10. \A n \in 1 .. size : ParseSpends(to_sign, prevouts)[n] # Malformed
                             /\ ParseSpends(to_sign, prevouts)[n] = Parse(to_sign, prevouts, n)
    BY <1>1, <1>2, <1>3 DEF ParseSpends, Accepted
<1>11. CASE size > 1
    <2>1. finalized.unsigned_tx = tx /\ finalized.message = message
          /\ DOMAIN finalized.inputs = 1 .. size
        BY <1>1, <1>2 DEF SameSpends, tx, message
    <2>2. /\ StructureValid(finalized) /\ IndexedOk(finalized)
        BY <1>1, <1>2, <1>4, SameDetected DEF size
    <2>3. \A n \in 1 .. size : /\ Resolve(finalized, n) = Resolve(psbt, n)
                               /\ Resolvable(finalized, n) <=> Resolvable(psbt, n)
                               /\ HasNonWitness(finalized, n) <=> HasNonWitness(psbt, n)
        BY <1>1, <1>2, SamePrevouts DEF size
    <2>4. 1 \in 1 .. size
        BY <1>1
    <2>5. PofConsistent(address, message, finalized)
        BY <1>1, <1>4, <1>5, <1>6, <1>11, <2>1, <2>2, <2>3, <2>4 DEF PofConsistent, tx, message
    <2>6. ~TooManyInputs(finalized)
        BY <1>1, <1>4, <2>1, LimitAssumption DEF TooManyInputs, tx
    <2>7. PofPrevouts(address, message, finalized) = prevouts
        BY <1>1, <1>6, <2>1, <2>3, <2>4 DEF PofPrevouts, Prevouts, prevouts
    <2>8. ExtractTx(finalized) = to_sign
        BY DEF to_sign
    <2> DEFINE spends == ParseSpends(to_sign, prevouts)
    <2>9. DOMAIN spends = 1 .. size
        BY <1>1, <1>2 DEF ParseSpends
    <2> HIDE DEF spends
    <2>10. \A n \in DOMAIN spends : spends[n] # Malformed /\ Backed(finalized, n, spends[n])
        BY <1>3, <1>10, <2>3, <2>9 DEF Backed, spends
    <2>11. VerifyPof(address, message, finalized) = "Valid"
        BY <1>9, <2>5, <2>6, <2>7, <2>8, <2>10 DEF VerifyPof, spends
    <2> QED BY <1>8, <1>11, <2>11 DEF Verify, message
<1>12. CASE ~(size > 1)
    <2>1. size = 1 /\ 1 \in 1 .. size
        BY <1>1, <1>12
    <2>2. prevouts = <<TxOut(0, address)>>
        <3>1. DOMAIN psbt.inputs = 1 .. 1
            BY <1>1, <2>1
        <3>2. prevouts = [n \in 1 .. 1 |-> Resolve(psbt, n)]
            BY <3>1 DEF Prevouts, prevouts
        <3> QED BY <1>6, <3>2
    <2>3. CheckToSign(address, message, to_sign)
        BY <1>1, <1>2, <1>5, <1>6, <2>1 DEF CheckToSign
    <2>4. VerifyFull(address, message, to_sign) = "Valid"
        BY <1>9, <1>10, <2>1, <2>2, <2>3 DEF VerifyFull
    <2> QED BY <1>8, <1>12, <2>4 DEF Verify, message
<1> QED BY <1>11, <1>12

(* HonestProofVerifies: a session without alterations ends in a proof that *)
(* the verifier accepts, in whatever order the copies were signed.         *)
THEOREM HonestVerifies == ASSUME AbsentIsNoFunction PROVE Spec => []HonestProofVerifies
<1>1. SessionOK /\ HonestInv => HonestProofVerifies
    <2> SUFFICES ASSUME SessionOK, HonestInv, alterations = 0, proof # None
                 PROVE  Verify(request.challenge, request.message, proof) = "Valid"
        BY DEF HonestProofVerifies
    <2> DEFINE made == CreateBip322Psbt(request)
    <2>1. PICK p \in Party : /\ copy[p] # None /\ FinalizeAccepted(copy[p])
                             /\ proof = FinalizeBip322Psbt(copy[p])
        BY DEF HonestInv
    <2> DEFINE psbt == copy[p]
    <2>2. /\ RequestOK(request) /\ CreateAccepted(request) /\ Grown(psbt, made)
          /\ PsbtOK(psbt, SignaturePool) /\ FinalizeAccepted(psbt)
        BY <2>1, SessionRequest DEF SessionOK, HonestInv
    <2>3. /\ Len(made.inputs) \in Nat /\ DOMAIN made.inputs = 1 .. Len(made.inputs)
          /\ 1 \in DOMAIN made.inputs
        BY <2>2, CreatedSizes
    <2>4. /\ made.unsigned_tx = RequestTx(request) /\ made.message = request.message
          /\ DOMAIN made = {"unsigned_tx", "message", "inputs", "outputs"}
          /\ RequestTx(request).version \in {0, 2}
          /\ RequestTx(request).input[1].previous_output
                 = [txid |-> ToSpend(request.challenge, request.message), vout |-> 0]
        BY <2>2, Created
    <2>5. Resolve(made, 1) = TxOut(0, request.challenge)
        BY <2>2, <2>3, MadeResolved DEF RequestedPrevout
    <2> HIDE DEF psbt, made
    <2>6. SameRequest(psbt, made)
        BY <2>2 DEF Grown
    <2>7. /\ psbt.unsigned_tx = RequestTx(request) /\ psbt.message = request.message
          /\ DOMAIN psbt = {"unsigned_tx", "message", "inputs", "outputs"}
          /\ DOMAIN psbt.inputs = DOMAIN made.inputs
        BY <2>4, <2>6 DEF SameRequest, SameSpends
    <2>8. Resolve(psbt, 1) = TxOut(0, request.challenge)
        BY <2>3, <2>5, <2>6, SamePrevouts DEF SameRequest
    <2>9. SpendsChallenge(psbt.unsigned_tx, request.challenge, psbt.message)
        BY <2>4, <2>7 DEF SpendsChallenge
    <2>10. SignedPsbt(psbt)
        <3>1. SUFFICES ASSUME NEW n \in DOMAIN made.inputs
                       PROVE  GrownMap(psbt.inputs[n], psbt, n)
            BY <2>7 DEF SignedPsbt
        <3>2. GrownMap(psbt.inputs[n], made, n)
            BY <2>2 DEF Grown
        <3>3. /\ SigningRoute(psbt, n) = SigningRoute(made, n)
              /\ \A key \in Key : KeyAccepted(psbt, key, n) <=> KeyAccepted(made, key, n)
            BY <2>3, <2>6, SameRoute
        <3>4. \A key : SignatureOf(psbt, key, n) = SignatureOf(made, key, n)
            BY <2>3, <2>6, SameSignature
        <3> QED BY <3>2, <3>3, <3>4 DEF GrownMap, SignedFor
    <2>11. Verify(request.challenge, psbt.message, FinalizeBip322Psbt(psbt)) = "Valid"
        BY <2>2, <2>4, <2>7, <2>8, <2>9, <2>10, FinalizedVerifies
    <2> QED BY <2>1, <2>7, <2>11 DEF psbt
<1> QED BY <1>1, SessionInvariant, HonestInvariant, PTL
=============================================================================
