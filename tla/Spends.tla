------------------------------- MODULE Spends -------------------------------
(***************************************************************************)
(* One input of a proof against the output it spends: the classification   *)
(* of a spend and its structural rules (src/verify/spend.rs, src/verify/   *)
(* bound.rs), and its evaluation (src/verify/templates.rs, src/verify/     *)
(* taproot.rs, src/verify/interpreter.rs).                                 *)
(*                                                                         *)
(* A witness, and a scriptSig, is a sequence of items.  A script that no   *)
(* template of Bip322 covers is its sequence of instructions: a push is    *)
(* the key (33 or 65 bytes) or the point (32 bytes) pushed, or "zero",     *)
(* "off_curve" (32 bytes that are no point), "data" or "long" (above the   *)
(* element limit); an opcode is one of OpCodes; "nonminimal" and           *)
(* "undecodable" are pushes that instructions_minimal rejects, and the     *)
(* second ends any reading of the script.  Nonminimal pushes of nothing,   *)
(* ECDSA signatures with a high S (which no key verifies) and bare         *)
(* multisig outputs are left out.                                          *)
(***************************************************************************)
EXTENDS PsbtRoles, SequencesExt

CONSTANTS
    MaxScriptSize,     \* MAX_SCRIPT_SIZE
    MaxOpsPerScript,   \* MAX_OPS_PER_SCRIPT
    MaxStackSize,      \* MAX_STACK_SIZE
    SignatureLen,      \* the bytes of a signature and its sighash type
    Leaves             \* Leaves[r]: the leaves of the script tree with root r

-----------------------------------------------------------------------------
(* Scripts as instructions.                                                *)

OpCodes == {"op", "success", "codeseparator", "timelock", "checksig", "checksigverify"}
BadPushes == {"nonminimal", "undecodable"}
Points == { Point[k] : k \in Key }

Ops(script) == IF script.type = "script" THEN script.ops ELSE << >>

Minimal(script) == \A j \in DOMAIN Ops(script) : Ops(script)[j] \notin BadPushes

(* check_script.                                                           *)
CheckScript(script) ==
    /\ ScriptLen(script) <= MaxScriptSize
    /\ Minimal(script)
    /\ Cardinality({ j \in DOMAIN Ops(script) : Ops(script)[j] \in OpCodes })
           <= MaxOpsPerScript

ContainsCodeseparator(script) ==
    \E j \in DOMAIN Ops(script) :
        /\ Ops(script)[j] = "codeseparator"
        /\ \A h \in 1 .. j : Ops(script)[h] # "undecodable"

IsNakedZeroTimelock(script) == Ops(script) = <<"zero", "timelock">>

(* Mutant: the scan goes on behind a push that cannot be decoded.          *)
ContainsOpSuccessAnywhere(script) ==
    \E j \in DOMAIN Ops(script) : Ops(script)[j] = "success"

ContainsOpSuccess(script) ==
    \E j \in DOMAIN Ops(script) :
        /\ Ops(script)[j] = "success"
        /\ \A h \in 1 .. j : Ops(script)[h] \notin BadPushes

(* <key> CHECKSIGVERIFY ... <key> CHECKSIG, and the keys it checks.        *)
ChecksKeys(script, keys) ==
    LET ops == Ops(script) IN
        /\ ops \in Seq(keys \cup {"checksig", "checksigverify"})
        /\ ops # << >> /\ Len(ops) % 2 = 0
        /\ \A j \in DOMAIN ops :
               IF j % 2 = 1 THEN ops[j] \in keys
               ELSE ops[j] = IF j = Len(ops) THEN "checksig" ELSE "checksigverify"
CheckedKeys(script) == [j \in 1 .. Len(Ops(script)) \div 2 |-> Ops(script)[2 * j - 1]]

-----------------------------------------------------------------------------
(* Items.                                                                  *)

Item(kind, data) == [kind |-> kind, data |-> data]
(* A control block: its leaf version, the internal point, and the root that*)
(* its path leads to from the leaf it was made for.                        *)
ControlItem(version, point, root) ==
    Item("control", [version |-> version, point |-> point, root |-> root])
AnnexItem == Item("annex", None)
(* Items beyond the limit of an element, and of a script.                  *)
LongItem == Item("long", None)
HugeItem == Item("huge", None)
(* In a scriptSig: OP_2 to OP_16, other opcodes, a nonminimal push.        *)
NumberItem == Item("number", None)
OpItem == Item("op", None)
CodeseparatorItem == Item("codeseparator", None)
NonminimalItem == Item("nonminimal", None)

IsOp(item) == item.kind \in {"op", "codeseparator"}

(* All signatures count alike.  The data of the last kinds is left out.    *)
ItemLen(item) ==
    CASE item.kind = "long" -> MaxElementSize + 1
      [] item.kind = "huge" -> MaxScriptSize + 1
      [] item.kind = "script" -> ScriptLen(item.data)
      [] item.kind = "signature" -> SignatureLen
      [] item.kind = "key" -> IF item.data \in Compressed THEN 33 ELSE 65
      [] item.kind = "control" -> 33
      [] item.kind = "empty" -> 0
      [] OTHER -> 1

(* Script::from_bytes.  An item that is no script is one nobody commits to.*)
ScriptOf(item) ==
    CASE item.kind = "script" -> item.data
      [] item = EmptyItem -> Script(<< >>, 0)
      [] OTHER -> Script(<<"undecodable">>, ItemLen(item))

(* What an item takes in a scriptSig: with the opcode that pushes it and,  *)
(* from 76 bytes on, its length in one, two or four bytes.                 *)
PushLen(item) ==
    LET size == ItemLen(item) IN
        IF size = 0 \/ IsOp(item) \/ item.kind = "number" THEN 1
        ELSE size + (IF size < 76 THEN 1 ELSE IF size < 256 THEN 2
                     ELSE IF size < 65536 THEN 3 ELSE 5)

ScriptSigLen(script_sig) ==
    LET upto[j \in 0 .. Len(script_sig)] ==
            IF j = 0 THEN 0 ELSE upto[j - 1] + PushLen(script_sig[j])
    IN  upto[Len(script_sig)]

(* Mutant: a scriptSig of exactly the limit is turned away.                *)
CheckScriptSigBelow(script_sig) ==
    /\ ScriptSigLen(script_sig) < MaxScriptSize
    /\ \A j \in DOMAIN script_sig : script_sig[j].kind # "nonminimal"
    /\ Cardinality({ j \in DOMAIN script_sig : IsOp(script_sig[j]) })
           <= MaxOpsPerScript

(* check_script of a scriptSig, which is bounded as a whole.               *)
CheckScriptSig(script_sig) ==
    /\ ScriptSigLen(script_sig) <= MaxScriptSize
    /\ \A j \in DOMAIN script_sig : script_sig[j].kind # "nonminimal"
    /\ Cardinality({ j \in DOMAIN script_sig : IsOp(script_sig[j]) })
           <= MaxOpsPerScript

(* check_witness_stack, and the same limits where taproot applies them.    *)
CheckWitnessStack(items) ==
    /\ Len(items) <= MaxStackSize
    /\ \A j \in DOMAIN items : ItemLen(items[j]) <= MaxElementSize

-----------------------------------------------------------------------------
(* Spend::parse.  script is the script a spend executes, stack the items   *)
(* it executes it on; a control block is there on a taproot script path.   *)

Malformed == [kind |-> "malformed"]
SpendOf(kind, script, stack) ==
    [kind |-> kind, script |-> script, stack |-> stack,
     annex |-> FALSE, control |-> None]

(* taproot_kind.                                                           *)
TaprootKind(witness) ==
    LET annex == Len(witness) >= 2 /\ Last(witness).kind = "annex"
        items == IF annex THEN Front(witness) ELSE witness
        top == Len(items)
    IN  IF top = 0 \/ (top >= 2 /\ items[top].kind # "control") THEN Malformed
        ELSE IF top = 1
           THEN [SpendOf("p2tr", None, items) EXCEPT !.annex = annex]
        ELSE [SpendOf("p2tr", ScriptOf(items[top - 1]), SubSeq(items, 1, top - 2))
                 EXCEPT !.annex = annex, !.control = items[top].data]

(* witness_kind.                                                           *)
WitnessKind(witness, program, nested) ==
    IF program.type = "p2wpkh"
       THEN IF Len(witness) = 2 /\ CheckWitnessStack(witness)
               THEN SpendOf("p2wpkh", program, witness) ELSE Malformed
    ELSE IF program.type = "p2wsh"
       THEN IF /\ witness # << >>
               /\ program = P2wsh(ScriptOf(Last(witness)))
               /\ CheckWitnessStack(Front(witness))
               /\ CheckScript(ScriptOf(Last(witness)))
               THEN SpendOf("p2wsh", ScriptOf(Last(witness)), Front(witness))
               ELSE Malformed
    ELSE IF program.type = "p2tr" /\ ~nested THEN TaprootKind(witness)
    ELSE IF \/ program.type = "program" /\ program.version = 0
            \/ program = Program(1, 32) /\ ~nested
       THEN Malformed
    ELSE SpendOf("unknown", None, << >>)

PushCount(script_sig) == Cardinality({ j \in DOMAIN script_sig : ~IsOp(script_sig[j]) })
PushOnly(script_sig) == \A j \in DOMAIN script_sig : ~IsOp(script_sig[j])

(* p2sh_kind.  A redeem script that is a witness program makes the spend a *)
(* nested one, whose scriptSig pushes it and nothing else.                 *)
P2shKind(script_sig, witness, spk) ==
    LET ends_with_data ==
            /\ script_sig # << >>
            /\ ~IsOp(Last(script_sig)) /\ Last(script_sig).kind # "number"
        redeem == ScriptOf(Last(script_sig))
    IN  IF PushCount(script_sig) > MaxStackSize \/ ~ends_with_data \/ spk # P2sh(redeem)
           THEN Malformed
        ELSE IF IsWitnessProgram(redeem)
           THEN IF script_sig = <<ScriptItem(redeem)>>
                   THEN WitnessKind(witness, redeem, TRUE) ELSE Malformed
        ELSE IF /\ witness = << >>
                /\ PushOnly(script_sig)
                /\ \A j \in DOMAIN script_sig : ItemLen(script_sig[j]) <= MaxElementSize
                /\ CheckScript(redeem)
           THEN SpendOf("p2sh", redeem, Front(script_sig))
        ELSE Malformed

Parse(to_sign, prevouts, n) ==
    LET spk == prevouts[n].script_pubkey
        script_sig == to_sign.script_sig[n]
        witness == to_sign.witness[n]
    IN  IF ~CheckScriptSig(script_sig) \/ ~CheckScript(spk) THEN Malformed
        ELSE IF IsWitnessProgram(spk)
           THEN IF script_sig = << >> THEN WitnessKind(witness, spk, FALSE)
                ELSE Malformed
        ELSE IF spk.type = "p2sh" THEN P2shKind(script_sig, witness, spk)
        ELSE IF witness # << >> THEN Malformed
        ELSE SpendOf(IF spk.type = "p2pkh" THEN "p2pkh" ELSE "bare", spk, script_sig)

(* Spend::is_witness.                                                      *)
IsWitnessSpend(spend) == spend.kind \in {"p2wpkh", "p2wsh", "p2tr", "unknown"}

(* Spend::inner_script: a tapscript is only claimed here, not committed.   *)
InnerScripts(spend) ==
    IF \/ spend.kind \in {"p2sh", "p2wsh"}
       \/ /\ spend.kind = "p2tr" /\ spend.control # None
          /\ spend.control.version = "tapscript"
       THEN {spend.script} ELSE {}

SpendsCodeseparator(to_sign, prevouts, n, spend) ==
    \/ \E j \in DOMAIN to_sign.script_sig[n] :
           to_sign.script_sig[n][j] = CodeseparatorItem
    \/ \E script \in {prevouts[n].script_pubkey} \cup InnerScripts(spend) :
           ContainsCodeseparator(script)

HasNakedZeroTimelock(prevouts, n, spend) ==
    \E script \in {prevouts[n].script_pubkey} \cup InnerScripts(spend) :
        IsNakedZeroTimelock(script)

-----------------------------------------------------------------------------
(* Signatures.                                                             *)

(* Mutant: the sighash type of a signature is not restricted.              *)
EcdsaVerifiesAnySighash(item, point, sighash) ==
    /\ item.kind = "signature"
    /\ item.data.scheme = "ecdsa"
    /\ item.data.point = point

(* parse_ecdsa_signature, then the verification under one key: SIGHASH_ALL *)
(* over exactly this sighash.                                              *)
EcdsaVerifies(item, point, sighash) ==
    /\ item.kind = "signature"
    /\ item.data.scheme = "ecdsa"
    /\ item.data.sighash_type = "ALL"
    /\ item.data.point = point
    /\ item.data.sighash = sighash

(* The taproot sighash of a spend: it covers an annex and, on a script     *)
(* path, the leaf.                                                         *)
SpendSighash(to_sign, prevouts, n, spend, sighash_type) ==
    LET covers == IF ~spend.annex /\ spend.control = None THEN None
                  ELSE [annex |-> spend.annex, script |-> spend.script]
    IN  Sighash("taproot", to_sign.tx, n, covers, prevouts, sighash_type)

(* The type byte DEFAULT, written out, is a type of its own in an item.    *)
SighashType(type) == IF type = "EXPLICIT_DEFAULT" THEN "DEFAULT" ELSE type

(* parse_taproot_signature and verify_schnorr.                             *)
SchnorrVerifies(item, key, to_sign, prevouts, n, spend) ==
    /\ item.kind = "signature"
    /\ item.data.scheme = "schnorr"
    /\ item.data.point = key
    /\ item.data.sighash_type \in {"ALL", "DEFAULT"}
    /\ item.data.sighash = SpendSighash(to_sign, prevouts, n, spend,
                                        item.data.sighash_type)

(* Mutant: the threshold of the script is not enforced.                    *)
CheckmultisigAnyCount(stack, script, sighash) ==
    /\ Len(stack) > 1
    /\ stack[1] = EmptyItem
    /\ \E f \in [1 .. Len(stack) - 1 -> DOMAIN script.keys] :
           /\ \A j \in DOMAIN f :
                  EcdsaVerifies(stack[j + 1], Point[script.keys[f[j]]], sighash)
           /\ \A h, j \in DOMAIN f : h < j => f[h] < f[j]

(* verify_checkmultisig.  Module Checkmultisig proves that its forward     *)
(* pass accepts exactly when such an f exists.                             *)
Checkmultisig(stack, script, sighash) ==
    /\ Len(stack) = script.required + 1
    /\ stack[1] = EmptyItem
    /\ \E f \in [1 .. script.required -> DOMAIN script.keys] :
           /\ \A j \in DOMAIN f :
                  EcdsaVerifies(stack[j + 1], Point[script.keys[f[j]]], sighash)
           /\ \A h, j \in DOMAIN f : h < j => f[h] < f[j]

-----------------------------------------------------------------------------
(* miniscript's interpreter (external).  Of the scripts it knows the model *)
(* has the chains of CHECKSIG, over the key forms each context allows.     *)

ContextKeys(spend) ==
    CASE spend.kind = "p2tr" -> Points
      [] spend.kind = "p2wsh" -> Compressed
      [] OTHER -> Key

InterpreterParses(spend) ==
    /\ ChecksKeys(spend.script, ContextKeys(spend))
    /\ \A j \in DOMAIN spend.stack : ~IsOp(spend.stack[j]) /\ spend.stack[j].kind # "number"

(* The sighash that the script checks its signatures against.              *)
ScriptSighash(to_sign, prevouts, n, spend) ==
    IF spend.kind = "p2wsh"
       THEN SegwitSighash(to_sign.tx, n, spend.script, prevouts[n].value)
    ELSE LegacySighash(to_sign.tx, n, spend.script)

(* A signature of whatever type, over the sighash of that type.            *)
InterpreterVerifies(item, key, to_sign, prevouts, n, spend) ==
    /\ item.kind = "signature"
    /\ IF spend.kind = "p2tr"
          THEN /\ item.data.scheme = "schnorr"
               /\ item.data.point = key
               /\ item.data.sighash = SpendSighash(to_sign, prevouts, n, spend,
                                          SighashType(item.data.sighash_type))
          ELSE /\ item.data.scheme = "ecdsa"
               /\ item.data.point = Point[key]
               /\ item.data.sighash =
                      [ScriptSighash(to_sign, prevouts, n, spend)
                          EXCEPT !.sighash_type = item.data.sighash_type]

(* Mutant: the stack is read from the bottom.                              *)
ItemForFromBottom(spend, j) == spend.stack[j]

(* The item that the j-th key is checked against: the top one is the first.*)
ItemFor(spend, j) == spend.stack[Len(spend.stack) + 1 - j]

InterpreterAccepts(to_sign, prevouts, n, spend) ==
    LET keys == CheckedKeys(spend.script) IN
        /\ Len(spend.stack) = Len(keys)
        /\ \A j \in DOMAIN keys :
               InterpreterVerifies(ItemFor(spend, j), keys[j],
                                   to_sign, prevouts, n, spend)

(* Mutant: the interpreter's word is enough.                               *)
RequiredSignatureAny(item, spend) == item.kind = "signature"

(* The same 64 bytes of signature, and the type byte DEFAULT behind them.  *)
HasExplicitDefault(sig, spend) ==
    \E j \in DOMAIN spend.stack :
        LET other == spend.stack[j] IN
            /\ other.kind = "signature"
            /\ other.data.scheme = sig.scheme
            /\ other.data.point = sig.point
            /\ other.data.sighash = sig.sighash
            /\ other.data.sighash_type = "EXPLICIT_DEFAULT"

(* check_required_signature, with has_explicit_default_taproot_signature.  *)
RequiredSignature(item, spend) ==
    IF item.data.scheme = "ecdsa" THEN item.data.sighash_type = "ALL"
    ELSE /\ SighashType(item.data.sighash_type) \in {"ALL", "DEFAULT"}
         /\ SighashType(item.data.sighash_type) = "DEFAULT" =>
                ~HasExplicitDefault(item.data, spend)

(* verify_with_interpreter.                                                *)
VerifyWithInterpreter(to_sign, prevouts, n, spend) ==
    IF ~InterpreterParses(spend) THEN "inconclusive"
    ELSE IF /\ InterpreterAccepts(to_sign, prevouts, n, spend)
            /\ \A j \in DOMAIN spend.stack : RequiredSignature(spend.stack[j], spend)
       THEN "valid"
    ELSE "invalid"

(* verify_taproot_annex_required_rules: an annexed signature cannot be     *)
(* verified, but its type can be checked, up to the first item that the    *)
(* evaluation stops at.                                                    *)
AnnexRequiredRules(spend) ==
    InterpreterParses(spend) =>
        \A j \in 1 .. Len(CheckedKeys(spend.script)) :
            (/\ j <= Len(spend.stack)
             /\ \A h \in 1 .. j : /\ ItemFor(spend, h).kind = "signature"
                                  /\ ItemFor(spend, h).data.scheme = "schnorr")
            => RequiredSignature(ItemFor(spend, j), spend)

-----------------------------------------------------------------------------
(* The evaluators.  Each returns "valid", "inconclusive" or "invalid".     *)

ValidIf(condition) == IF condition THEN "valid" ELSE "invalid"

(* verify_p2pkh.                                                           *)
VerifyP2pkh(to_sign, n, spend) ==
    ValidIf(/\ Len(spend.stack) = 2
            /\ spend.stack[2].kind = "key"
            /\ P2pkh(spend.stack[2].data) = spend.script
            /\ EcdsaVerifies(spend.stack[1], Point[spend.stack[2].data],
                             LegacySighash(to_sign.tx, n, spend.script)))

(* verify_p2wpkh.                                                          *)
VerifyP2wpkh(to_sign, prevouts, n, spend) ==
    ValidIf(/\ spend.stack[2].kind = "key"
            /\ spend.stack[2].data \in Compressed
            /\ P2wpkh(spend.stack[2].data) = spend.script
            /\ EcdsaVerifies(spend.stack[1], Point[spend.stack[2].data],
                             SegwitSighash(to_sign.tx, n, spend.script,
                                           prevouts[n].value)))

(* verify_p2wsh_multisig, verify_p2sh_multisig and their fallback.         *)
VerifyScript(to_sign, prevouts, n, spend) ==
    IF ParsesMultisig(spend.script)
       THEN ValidIf(Checkmultisig(spend.stack, spend.script,
                                  ScriptSighash(to_sign, prevouts, n, spend)))
       ELSE VerifyWithInterpreter(to_sign, prevouts, n, spend)

(* parse_simple_tapscript, and the signature of its single key.            *)
IsSimpleTapscript(script) ==
    /\ Len(Ops(script)) = 2
    /\ Ops(script)[1] \notin OpCodes
    /\ Ops(script)[2] = "checksig"

VerifySimpleTapscript(to_sign, prevouts, n, spend, satisfied) ==
    LET key == Ops(spend.script)[1] IN
        IF \/ Len(spend.stack) # 1 \/ spend.stack[1] = EmptyItem
           \/ key \in {"zero", "long", "off_curve"}
           THEN "invalid"
        ELSE IF key \notin Points THEN "inconclusive"
        ELSE IF SchnorrVerifies(spend.stack[1], key, to_sign, prevouts, n, spend)
           THEN satisfied
        ELSE "invalid"

(* TapLeaf::commit.                                                        *)
LeafCommitted(spend, output) ==
    /\ output = P2tr(spend.control.point, spend.control.root)
    /\ spend.control.root \in DOMAIN Leaves
    /\ [version |-> spend.control.version, script |-> spend.script]
           \in Leaves[spend.control.root]

(* verify_p2tr after its leaf is known to be a committed tapscript.        *)
VerifyTapscript(to_sign, prevouts, n, spend, satisfied) ==
    IF ContainsOpSuccess(spend.script) THEN "inconclusive"
    ELSE IF ~CheckWitnessStack(spend.stack) \/ ~Minimal(spend.script) THEN "invalid"
    ELSE IF Ops(spend.script) = << >> /\ ScriptLen(spend.script) = 0
       THEN IF Len(spend.stack) = 1 /\ spend.stack[1] # EmptyItem
               THEN satisfied ELSE "invalid"
    ELSE IF IsSimpleTapscript(spend.script)
       THEN VerifySimpleTapscript(to_sign, prevouts, n, spend, satisfied)
    ELSE IF ~spend.annex THEN VerifyWithInterpreter(to_sign, prevouts, n, spend)
    ELSE IF AnnexRequiredRules(spend) THEN "inconclusive"
    ELSE "invalid"

(* verify_p2tr.  An annex leaves a satisfied spend inconclusive at best.   *)
VerifyP2tr(to_sign, prevouts, n, spend) ==
    LET output == prevouts[n].script_pubkey
        satisfied == IF spend.annex THEN "inconclusive" ELSE "valid"
    IN  IF spend.control = None
           THEN IF SchnorrVerifies(spend.stack[1], output, to_sign, prevouts, n, spend)
                   THEN satisfied ELSE "invalid"
        ELSE IF ~LeafCommitted(spend, output) THEN "invalid"
        ELSE IF spend.control.version # "tapscript" THEN "inconclusive"
        ELSE VerifyTapscript(to_sign, prevouts, n, spend, satisfied)

(* verify_input.                                                           *)
VerifyInput(to_sign, prevouts, n, spend) ==
    IF HasNakedZeroTimelock(prevouts, n, spend) THEN "invalid"
    ELSE CASE spend.kind = "p2pkh" -> VerifyP2pkh(to_sign, n, spend)
           [] spend.kind \in {"p2sh", "p2wsh"} ->
                  VerifyScript(to_sign, prevouts, n, spend)
           [] spend.kind = "p2wpkh" -> VerifyP2wpkh(to_sign, prevouts, n, spend)
           [] spend.kind = "p2tr" -> VerifyP2tr(to_sign, prevouts, n, spend)
           [] spend.kind = "unknown" -> "inconclusive"
           [] spend.kind = "bare" ->
                  VerifyWithInterpreter(to_sign, prevouts, n, spend)
=============================================================================
