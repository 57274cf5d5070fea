---------------------------- MODULE Authorisation ----------------------------
(***************************************************************************)
(* What the verifier is judged by: whose signatures an input of a proof    *)
(* shows, and whether they can spend an output.  This is said of scripts   *)
(* and sighashes, not of spends: neither the classification of a spend nor *)
(* its evaluation (module Spends) is used.                                 *)
(***************************************************************************)
EXTENDS Verifier

ASSUME PointAssumption == \A key \in Key : Point[key] \notin Key

(* A push of a key, or of a point, is no opcode and no push of other data. *)
Words == OpCodes \cup BadPushes \cup {"zero", "off_curve", "data", "long"}
ASSUME WordAssumption ==
    Key # {} /\ \A key \in Key : key \notin Words /\ Point[key] \notin Words

ASSUME LimitAssumption ==
    /\ {MaxElementSize, MaxScriptSize, MaxOpsPerScript, MaxStackSize,
        MaxProofInputs} \subseteq Nat
    /\ MaxStackSize >= 2
    /\ SignatureLen \in 1 .. 72 /\ MaxElementSize >= 72

(* The limits leave room for every script that parse_multisig accepts, and *)
(* for a scriptSig of OP_0, 16 signatures and such a script.               *)
RoomForMultisig == MaxStackSize >= 18 /\ MaxScriptSize >= 1246 + MaxElementSize

Sequential(s) == s \in Seq({ s[j] : j \in DOMAIN s })

ASSUME LeafAssumption ==
    \A root \in DOMAIN Leaves : \A leaf \in Leaves[root] : Sequential(Ops(leaf.script))

(* What input n of a signed transaction can hold.                          *)
InputOK(to_sign, n) ==
    /\ Sequential(to_sign.script_sig[n]) /\ Sequential(to_sign.witness[n])
    /\ \A j \in DOMAIN to_sign.witness[n] :
           LET item == to_sign.witness[n][j] IN
               item.kind = "control" => item.data # None

-----------------------------------------------------------------------------

(* The script that decides, within its P2SH and P2WSH wrappings.           *)
Unwrapped(spk) == IF spk.type = "p2sh" THEN spk.script ELSE spk
Core(spk) ==
    LET s == Unwrapped(spk) IN IF s.type = "p2wsh" THEN s.script ELSE s

(* The sighash algorithm that an output's spends are under.                *)
Algorithm(spk) ==
    IF spk.type = "p2tr" THEN "taproot"
    ELSE IF IsWitnessProgram(Unwrapped(spk)) THEN "v0"
    ELSE "legacy"

(* A signature for all of this transaction, at this input, and for what the*)
(* algorithm covers of the outputs: all of them, the input's value, none.  *)
CommitsToAll(sig, to_sign, prevouts, n) ==
    /\ sig.sighash.tx = to_sign.tx /\ sig.sighash.index = n
    /\ sig.sighash_type = sig.sighash.sighash_type
    /\ sig.sighash_type \in {"ALL", "DEFAULT"}
    /\ sig.sighash.algorithm = Algorithm(prevouts[n].script_pubkey)
    /\ sig.sighash.prevouts =
           CASE sig.sighash.algorithm = "legacy" -> << >>
             [] sig.sighash.algorithm = "v0" -> <<prevouts[n].value>>
             [] sig.sighash.algorithm = "taproot" -> prevouts

ItemsOf(to_sign, n) == Range(to_sign.script_sig[n]) \cup Range(to_sign.witness[n])
SignersOf(to_sign, prevouts, n) ==
    { item.data.point : item \in
        { x \in ItemsOf(to_sign, n) :
              x.kind = "signature" /\ CommitsToAll(x.data, to_sign, prevouts, n) } }

PointOf(key) == IF key \in Key THEN Point[key] ELSE key

(* The signers can spend an output of this script.                         *)
ScriptAuthorised(s, signers) ==
    \/ s.type \in {"p2wpkh", "p2pkh"} /\ Point[s.key] \in signers
    \/ /\ ParsesMultisig(s)
       /\ Cardinality({ j \in DOMAIN s.keys : Point[s.keys[j]] \in signers })
              >= s.required
    \/ /\ ChecksKeys(s, Key \cup Points)
       /\ \A j \in DOMAIN CheckedKeys(s) : PointOf(CheckedKeys(s)[j]) \in signers

(* A taproot output stands for the key that it tweaks, and for its leaves. *)
TaprootAuthorised(s, signers) ==
    \/ s \in signers
    \/ /\ s.root \in DOMAIN Leaves
       /\ \E leaf \in Leaves[s.root] :
              /\ leaf.version = "tapscript"
              /\ \/ Ops(leaf.script) = << >> /\ ScriptLen(leaf.script) = 0
                 \/ ScriptAuthorised(leaf.script, signers)

OutputAuthorised(spk, signers) ==
    IF spk.type = "p2tr" THEN TaprootAuthorised(spk, signers)
    ELSE ScriptAuthorised(Core(spk), signers)

-----------------------------------------------------------------------------

(* What softforks may still give a meaning to, or the interpreter does not *)
(* understand, with keys of the forms that the output's context allows.    *)
UnusableKeyOps == { <<key, "checksig">> : key \in {"zero", "long", "off_curve"} }
ReservedScript(s, keys) ==
    \/ s.type = "multisig" /\ ~ParsesMultisig(s)
    \/ /\ s.type = "script" /\ ~ChecksKeys(s, keys)
       /\ \/ \E j \in DOMAIN s.ops :
                 s.ops[j] = "success" /\ \A h \in 1 .. j : s.ops[h] \notin BadPushes
          \/ Minimal(s) /\ (keys = Points => s.ops \notin UnusableKeyOps)

(* An output, or a wrapping, of which the library knows no spend.          *)
ForeignForm(spk) ==
    \/ None \in {spk, Unwrapped(spk)}
    \/ spk.type \notin {"p2pkh", "p2wpkh", "p2wsh", "p2sh", "p2tr", "script"}
    \/ spk.type = "p2sh" /\ spk.script.type \notin {"p2wpkh", "p2wsh", "multisig", "script"}
    \/ Unwrapped(spk).type = "p2wsh" /\ Core(spk).type \notin {"multisig", "script"}

ReservedLeaf(s) == s.type # "script" \/ ReservedScript(s, Points)

ReservedInput(to_sign, prevouts, n) ==
    LET spk == prevouts[n].script_pubkey
        keys == IF spk = P2wsh(Core(spk)) \/ spk = P2sh(P2wsh(Core(spk)))
                   THEN Compressed ELSE Key
    IN  \/ ForeignForm(spk)
        \/ ReservedScript(Core(spk), keys)
        \/ \E item \in ItemsOf(to_sign, n) :
               \/ item.kind \in {"annex", "number"} \/ IsOp(item)
               \/ item.kind = "control" /\ item.data.version # "tapscript"
               \/ spk.type = "p2tr" /\ item.kind = "script" /\ ReservedLeaf(item.data)

-----------------------------------------------------------------------------

(* How the scripts ask to be satisfied: what a witness or scriptSig has to *)
(* be for a script, its signatures over all of the transaction.            *)
EcdsaBy(key, sighash) == SigItem(Signature("ecdsa", Point[key], sighash, "ALL"))
KeyStack(key, sighash) == <<EcdsaBy(key, sighash), KeyItem(key)>>

(* OP_0, and a signature by each of some keys, in the order of the script. *)
MultisigStack(s, stack, sighash) ==
    /\ ParsesMultisig(s)
    /\ Len(stack) = s.required + 1 /\ stack[1] = EmptyItem
    /\ \E f \in [1 .. s.required -> DOMAIN s.keys] :
           /\ \A h, j \in DOMAIN f : h < j => f[h] < f[j]
           /\ \A j \in DOMAIN f : stack[j + 1] = EcdsaBy(s.keys[f[j]], sighash)

(* A signature by each key of a chain, the first key's on top.             *)
ChainStack(s, keys, stack, SignedBy(_, _)) ==
    /\ ChecksKeys(s, keys)
    /\ Len(stack) = Len(CheckedKeys(s))
    /\ \A j \in DOMAIN stack : SignedBy(stack[j], CheckedKeys(s)[Len(stack) + 1 - j])

ScriptStack(s, keys, stack, sighash) ==
    /\ CheckScript(s)
    /\ \/ MultisigStack(s, stack, sighash)
       \/ ChainStack(s, keys, stack, LAMBDA item, key : item = EcdsaBy(key, sighash))

SchnorrBy(item, point, tx, n, covers, prevouts) ==
    \E type \in {"ALL", "DEFAULT"} :
        item = SigItem(Signature("schnorr", point,
                           Sighash("taproot", tx, n, covers, prevouts, type), type))

LeafStack(s, stack, tx, n, prevouts) ==
    \/ s = Script(<< >>, 0) /\ Len(stack) = 1 /\ stack[1] # EmptyItem
    \/ LET covers == [annex |-> FALSE, script |-> s] IN
           ChainStack(s, Points, stack,
                      LAMBDA item, point : SchnorrBy(item, point, tx, n, covers, prevouts))

(* The push of a script, of which the empty one is OP_0.                   *)
PushOf(s) == IF s = Script(<< >>, 0) THEN EmptyItem ELSE ScriptItem(s)

(* Under a segwit output, or nested in P2SH.                               *)
WitnessSatisfied(program, witness, tx, n, value) ==
    \/ \E key \in Compressed :
           /\ program = P2wpkh(key)
           /\ witness = KeyStack(key, SegwitSighash(tx, n, program, value))
    \/ LET script == Last(witness).data IN
           /\ witness # << >> /\ Last(witness) = ScriptItem(script)
           /\ program = P2wsh(script)
           /\ CheckWitnessStack(Front(witness))
           /\ ScriptStack(script, Compressed, Front(witness),
                          SegwitSighash(tx, n, script, value))

(* Under P2SH, by a script that is no program.                             *)
RedeemSatisfied(spk, script_sig, tx, n) ==
    LET script == Last(script_sig).data IN
        /\ script_sig # << >> /\ Last(script_sig) = ScriptItem(script)
        /\ spk = P2sh(script)
        /\ CheckWitnessStack(script_sig)
        /\ ScriptStack(script, Key, Front(script_sig), LegacySighash(tx, n, script))

(* Under a taproot output: by its key, or by a leaf.                       *)
TaprootSatisfied(spk, witness, tx, n, prevouts) ==
    \/ Len(witness) = 1 /\ SchnorrBy(witness[1], spk, tx, n, None, prevouts)
    \/ LET top == Len(witness) stack == SubSeq(witness, 1, top - 2) IN
           /\ top >= 2 /\ spk.root \in DOMAIN Leaves
           /\ witness[top] = ControlItem("tapscript", spk.point, spk.root)
           /\ \E leaf \in Leaves[spk.root] :
                  /\ leaf = [version |-> "tapscript", script |-> leaf.script]
                  /\ witness[top - 1] = PushOf(leaf.script)
                  /\ LeafStack(leaf.script, stack, tx, n, prevouts)
           /\ CheckWitnessStack(stack)

InputSatisfied(to_sign, prevouts, n) ==
    LET spk == prevouts[n].script_pubkey
        script_sig == to_sign.script_sig[n]
        witness == to_sign.witness[n]
        tx == to_sign.tx
    IN  /\ None \notin {spk, Unwrapped(spk)} /\ CheckScript(spk)
        /\ ScriptSigLen(script_sig) <= MaxScriptSize
        /\ \/ /\ spk.type = "p2tr" /\ spk = P2tr(spk.point, spk.root) /\ script_sig = << >>
              /\ TaprootSatisfied(spk, witness, tx, n, prevouts)
           \/ /\ script_sig = << >>
              /\ WitnessSatisfied(spk, witness, tx, n, prevouts[n].value)
           \/ /\ spk.type = "p2sh" /\ spk = P2sh(spk.script)
              /\ script_sig = <<ScriptItem(spk.script)>>
              /\ WitnessSatisfied(spk.script, witness, tx, n, prevouts[n].value)
           \/ /\ witness = << >>
              /\ \/ \E key \in Key : /\ spk = P2pkh(key)
                                      /\ script_sig = KeyStack(key, LegacySighash(tx, n, spk))
                 \/ RedeemSatisfied(spk, script_sig, tx, n)
                 \/ /\ spk.type = "script"
                    /\ ScriptStack(spk, Key, script_sig, LegacySighash(tx, n, spk))
=============================================================================
