--------------------------- MODULE MCVerification ---------------------------
(***************************************************************************)
(* Proofs for the verifier.  Three keys: A, its uncompressed form U, and B.*)
(* Single inputs: every executed script below, under every output that can *)
(* wrap it, with every stack of up to two items (and chosen longer ones)   *)
(* from a pool of good and bad items.  Proofs of funds: every sequence of  *)
(* up to two proven inputs out of one spend of each outcome.               *)
(***************************************************************************)
EXTENDS Verification

CONSTANTS A, B, U, pA, pB, m1, m2, t1, tree, future

MCKey == {A, B, U}
MCPoint == [k \in MCKey |-> IF k = B THEN pB ELSE pA]
MCNullOutpoint == [txid |-> None, vout |-> -1]

SpendItems(script_sig, witness) == [script_sig |-> script_sig, witness |-> witness]
Stacks(pool, size) == UNION { [1 .. n -> pool] : n \in 0 .. size }
Reversed(items) == [j \in DOMAIN items |-> items[Len(items) + 1 - j]]

-----------------------------------------------------------------------------
(* Scripts.  Small comes in all wrappings, Big and Redeem test a limit.    *)

Chain1(key) == Script(<<key, "checksig">>, 35)
Chain2(k, l) == Script(<<k, "checksigverify", l, "checksig">>, 70)

(* Under P2SH the scriptSig of the chain of U and B is as long as it may be *)
(* (250 bytes), and that of their multisig script too long by two.         *)
LongChain == Script(<<U, "checksigverify", B, "checksig">>, 102)
LongMultisig == Multisig(2, <<U, B>>)

Multisigs == { Multisig(1, <<A, B>>), Multisig(2, <<A, B>>), Multisig(0, <<A, B>>), LongMultisig }
Understood == { Chain1(A), Chain1(U), Chain2(A, B), LongChain }
Odd == { Script(<<"zero", "timelock">>, 2), Script(<<"op">>, 1),
         Script(<<A, "checksig", "codeseparator">>, 36),
         Script(<<A, "nonminimal", "checksig">>, 36),
         Script(<<"undecodable", "codeseparator">>, 2),
         Script(<<"op", "op", "op">>, 3), Script(<< >>, 0),
         Script(<<A, "checksig">>, 2000), Script(<<A, "checksig">>, 106) }
Inner == Multisigs \cup Understood \cup Odd

Tapscripts ==
    { Chain1(pA), Chain2(pA, pB), Script(<< >>, 0), Script(<<"success">>, 1),
      Script(<<"nonminimal", "success">>, 3), Script(<<"success", "undecodable">>, 2),
      Script(<<"codeseparator", "success">>, 2), Script(<<"zero", "timelock">>, 2),
      Script(<<"op", "op", "op">>, 3), Chain1(A), Chain1("zero"), Chain1("data"),
      Chain1("off_curve"), Chain1("long"), Script(<<pA, "nonminimal", "checksig">>, 36) }
Leaf(version, script) == [version |-> version, script |-> script]
Tree == { Leaf("tapscript", s) : s \in Tapscripts } \cup { Leaf("future", Chain1(pA)) }
TreeOutput == P2tr(pB, tree)
MCLeaves == [r \in {tree, future} |-> IF r = tree THEN Tree ELSE {Leaf("future", Chain1(pA))}]

Programs == { Program(0, 20), Program(0, 4), Program(1, 32), Program(1, 4), Program(2, 32) }

-----------------------------------------------------------------------------
(* Signatures, and pools of items for the stack of a script.               *)

Ecdsa(key, sighash) == SigItem(Signature("ecdsa", Point[key], sighash, "ALL"))
EcdsaPool(sighash) ==
    { Ecdsa(A, sighash), Ecdsa(B, sighash), EmptyItem, KeyItem(A), LongItem,
      SigItem(Signature("ecdsa", pA, [sighash EXCEPT !.sighash_type = "NONE"], "NONE")),
      Ecdsa(A, [sighash EXCEPT !.index = 7]) }

(* The sighash that the holder of a taproot key signs.                     *)
TapSighash(tx, n, outs, annex, script, type) ==
    Sighash("taproot", tx, n,
            IF annex \/ script # None THEN [annex |-> annex, script |-> script] ELSE None,
            outs, type)
Schnorr(key, tx, n, outs, annex, script, type) ==
    SigItem(Signature("schnorr", key, TapSighash(tx, n, outs, annex, script, type), type))
ExplicitDefault(key, tx, n, outs, annex, script) ==
    SigItem(Signature("schnorr", key,
                      TapSighash(tx, n, outs, annex, script, "DEFAULT"),
                      "EXPLICIT_DEFAULT"))
TapPool(key, tx, n, outs, annex, script) ==
    { Schnorr(key, tx, n, outs, annex, script, type) : type \in {"ALL", "DEFAULT", "NONE"} }
    \cup { ExplicitDefault(key, tx, n, outs, annex, script),
           Schnorr(key, tx, n, outs, ~annex, script, "ALL"), EmptyItem, LongItem }

-----------------------------------------------------------------------------
(* Single inputs, by the output they spend.                                *)

LegacyStacks(tx, n, script) ==
    LET sighash == LegacySighash(tx, n, script)
        good == <<EmptyItem, Ecdsa(A, sighash), Ecdsa(B, sighash)>>
    IN  Stacks(EcdsaPool(sighash), 2)
        \cup { good, Reversed(good), Tail(good) \o <<EmptyItem>>, good \o good,
               <<EmptyItem>> \o good, <<NumberItem>>, <<OpItem>>,
               <<CodeseparatorItem>>, <<NonminimalItem, good[2]>>,
               <<HugeItem>>, <<OpItem, OpItem, OpItem>> }

WitnessStacks(tx, n, script, value) ==
    LET sighash == SegwitSighash(tx, n, script, value)
        good == <<EmptyItem, Ecdsa(A, sighash), Ecdsa(B, sighash)>>
    IN  Stacks(EcdsaPool(sighash), 2)
        \cup { good, Reversed(good), <<EmptyItem, good[3], good[2]>>, good \o good,
               <<EmptyItem>> \o good }

WithTop(stacks, item) == { Append(stack, item) : stack \in stacks }
AsItem(script) == IF script = Script(<< >>, 0) THEN EmptyItem ELSE ScriptItem(script)

KeySpends(tx, n, program, value) ==
    LET sighash == SegwitSighash(tx, n, program, value) IN
        Stacks(EcdsaPool(sighash) \cup {KeyItem(B), KeyItem(U)}, 2)
        \cup { <<Ecdsa(A, sighash), KeyItem(A), KeyItem(A)>> }

(* The scriptSigs of a P2SH spend, and what can be done to the nested one. *)
RevealSigs(script) ==
    { <<AsItem(script)>>, << >>, <<EmptyItem, AsItem(script)>>,
      <<OpItem, AsItem(script)>>, <<AsItem(script), OpItem>> }

(* A leaf's stacks: up to one item, or two signatures, or one too many.    *)
LeafStacks(tx, n, outs, annex, script) ==
    LET pool(key) == TapPool(key, tx, n, outs, annex, script) IN
        Stacks(pool(pA), 1) \cup { <<y, x>> : x \in pool(pA), y \in pool(pB) }
        \cup { [j \in 1 .. MaxStackSize + 1 |-> EmptyItem] }

TapWitnesses(tx, n, outs, annex) ==
    { <<item>> : item \in TapPool(TreeOutput, tx, n, outs, annex, None) }
    \cup UNION { WithTop(WithTop(LeafStacks(tx, n, outs, annex, leaf.script),
                                 AsItem(leaf.script)),
                         ControlItem(leaf.version, pB, tree)) : leaf \in Tree }
    \cup { <<Schnorr(pA, tx, n, outs, annex, Chain1(pA), "ALL"),
             ScriptItem(Chain1(pA)), ControlItem("future", pB, future)>> }
    \cup { <<EmptyItem, ScriptItem(Script(<<"op">>, 1)), ControlItem("tapscript", pB, tree)>>,
           <<EmptyItem, EmptyItem>>, << >> }

(* The witnesses of a program.                                             *)
Witnesses(program, tx, n, outs) ==
    CASE program.type = "p2wpkh" -> KeySpends(tx, n, program, outs[n].value)
      [] program.type = "p2wsh" ->
             WithTop(WitnessStacks(tx, n, program.script, outs[n].value),
                     AsItem(program.script))
             \cup {<< >>, <<EmptyItem>>}
      [] program.type = "p2tr" ->
             TapWitnesses(tx, n, outs, FALSE)
             \cup WithTop(TapWitnesses(tx, n, outs, TRUE)
                          \cup TapWitnesses(tx, n, outs, FALSE), AnnexItem)
      [] OTHER -> {<< >>, <<EmptyItem>>}

SpendsOf(tx, n, outs) ==
    LET spk == outs[n].script_pubkey
        core == IF spk.type = "p2sh" THEN spk.script ELSE spk
        reveal == IF spk.type = "p2sh" THEN <<AsItem(core)>> ELSE << >>
    IN  IF IsWitnessProgram(core)
           THEN { SpendItems(reveal, w) : w \in Witnesses(core, tx, n, outs) }
                \cup { SpendItems(sig, << >>) : sig \in RevealSigs(core) }
           ELSE { SpendItems(stack \o reveal, << >>) : stack \in LegacyStacks(tx, n, core) }
                \cup { SpendItems(sig, << >>) : sig \in RevealSigs(core) }
                \cup { SpendItems(<<Ecdsa(A, LegacySighash(tx, n, core)), KeyItem(k)>>, << >>) :
                          k \in MCKey }
                \cup { SpendItems(reveal, <<EmptyItem>>) }

SingleOutputs ==
    { P2pkh(A), P2pkh(U), P2wpkh(A), P2wpkh(U), P2sh(P2wpkh(B)), TreeOutput, P2sh(TreeOutput),
      OpReturn }
    \cup { P2wsh(s) : s \in Inner } \cup { P2sh(s) : s \in Inner }
    \cup { P2sh(P2wsh(s)) : s \in {Multisig(2, <<A, B>>), Chain2(A, B)} }
    \cup Understood \cup Odd
    \cup Programs \cup { P2sh(p) : p \in Programs }

FullTx(spk, locks) == ToSignTransaction(ToSpend(spk, m1), << >>, locks)
NoLocks == [lock_time |-> 0, sequence |-> 0]

Signed(tx, inputs) ==
    [tx |-> tx, script_sig |-> [n \in DOMAIN inputs |-> inputs[n].script_sig],
     witness |-> [n \in DOMAIN inputs |-> inputs[n].witness]]

InputProofs ==
    [spk \in SingleOutputs |->
        { FullProof(Signed(FullTx(spk, NoLocks), <<spend>>)) :
            spend \in SpendsOf(FullTx(spk, NoLocks), 1, <<TxOut(0, spk)>>) }]

(* Simple proofs: the same witnesses, and some for an address that the     *)
(* simple format does not support.                                         *)
SimpleProofs(spk) ==
    { SimpleProof(spend.witness) :
        spend \in SpendsOf(FullTx(spk, NoLocks), 1, <<TxOut(0, spk)>>) }

-----------------------------------------------------------------------------
(* Inputs satisfied as their scripts ask.                                  *)

HonestStacks(script, sighash) ==
    IF script \in Understood
       THEN { Reversed([j \in DOMAIN CheckedKeys(script) |->
                           Ecdsa(CheckedKeys(script)[j], sighash)]) }
    ELSE { <<EmptyItem>> \o [j \in DOMAIN f |-> Ecdsa(script.keys[f[j]], sighash)] :
             f \in { g \in [1 .. script.required -> 1 .. Len(script.keys)] :
                       \A h, j \in DOMAIN g : h < j => g[h] < g[j] } }

HonestTap(tx, n, outs) ==
    LET sig(key, script, type) == Schnorr(key, tx, n, outs, FALSE, script, type)
        leaf(stack, script) ==
            stack \o <<AsItem(script), ControlItem("tapscript", pB, tree)>>
    IN  UNION { { <<sig(TreeOutput, None, type)>>,
                  leaf(<<sig(pA, Chain1(pA), type)>>, Chain1(pA)),
                  leaf(<<sig(pB, Chain2(pA, pB), type), sig(pA, Chain2(pA, pB), "ALL")>>,
                       Chain2(pA, pB)),
                  leaf(<<KeyItem(A)>>, Script(<< >>, 0)) } : type \in {"ALL", "DEFAULT"} }

HonestSpends(tx, n, outs) ==
    LET spk == outs[n].script_pubkey
        core == IF spk.type = "p2sh" THEN spk.script ELSE spk
        reveal == IF spk.type = "p2sh" THEN <<AsItem(core)>> ELSE << >>
        segwit(script) == SegwitSighash(tx, n, script, outs[n].value)
        supported == (Multisigs \ {Multisig(0, <<A, B>>)}) \cup Understood
    IN  CASE core.type = "p2wpkh" /\ core.key \in {A, B} ->
               { SpendItems(reveal, <<Ecdsa(core.key, segwit(core)), KeyItem(core.key)>>) }
          [] core.type = "p2wsh" /\ core.script \in supported \ {Chain1(U), LongChain, LongMultisig} ->
               { SpendItems(reveal, Append(stack, ScriptItem(core.script))) :
                   stack \in HonestStacks(core.script, segwit(core.script)) }
          [] spk = TreeOutput -> { SpendItems(<< >>, w) : w \in HonestTap(tx, n, outs) }
          [] spk.type = "p2pkh" ->
               { SpendItems(<<Ecdsa(core.key, LegacySighash(tx, n, core)), KeyItem(core.key)>>,
                            << >>) }
          [] core \in supported \ (IF spk = core THEN Multisigs ELSE {}) ->
               { SpendItems(stack \o reveal, << >>) :
                   stack \in HonestStacks(core, LegacySighash(tx, n, core)) }
          [] OTHER -> {}

-----------------------------------------------------------------------------
(* Proofs of funds: proven outputs of one transaction, in every order.     *)

Coins == << TxOut(1, P2wpkh(B)), TxOut(2, P2wsh(Script(<<A, "checksig", "codeseparator">>, 36))),
            TxOut(3, Program(2, 32)), TxOut(4, P2sh(Chain1(A))), TxOut(5, TreeOutput),
            TxOut(6, P2wsh(Script(<<"zero", "timelock">>, 2))), TxOut(7, P2pkh(U)) >>
MCPrevTx == {t1}
MCPrevOutputs == [t \in MCPrevTx |-> Coins]

(* Each input honest, or with a flaw of its own.                           *)
CoinSpends(tx, n, outs) ==
    LET spk == outs[n].script_pubkey IN
        HonestSpends(tx, n, outs) \cup
        CASE spk.type = "p2wpkh" ->
               { SpendItems(<< >>, <<EmptyItem, KeyItem(spk.key)>>), SpendItems(<< >>, << >>) }
          [] spk.type = "p2wsh" -> { SpendItems(<< >>, <<EmptyItem, ScriptItem(spk.script)>>) }
          [] spk = TreeOutput ->
               { SpendItems(<< >>, <<Schnorr(TreeOutput, tx, n, outs, TRUE, None, "ALL"), AnnexItem>>) }
          [] spk.type = "program" -> { SpendItems(<< >>, << >>) }
          [] OTHER -> { SpendItems(<<EmptyItem>>, << >>) }

(* A legacy output goes with its previous transaction, or wrongly without. *)
IsLegacy(out) == out.script_pubkey.type \in {"p2pkh", "p2sh"}
Backing(out, txid) ==
    IF IsLegacy(out) THEN [EmptyInput EXCEPT !.non_witness_utxo = txid]
    ELSE [EmptyInput EXCEPT !.witness_utxo = out]
Backings(out, txid) == { Backing(out, txid), [EmptyInput EXCEPT !.witness_utxo = out] }

Filled(map, spend) ==
    [map EXCEPT !.final_script_sig = spend.script_sig, !.final_script_witness = spend.witness]

Requested(spk, coins, version) ==
    [ToSignTransaction(ToSpend(spk, m1),
        [j \in DOMAIN coins |-> [outpoint |-> [txid |-> t1, vout |-> coins[j] - 1]]],
        NoLocks) EXCEPT !.version = version]

PofProofs(spk, versions, sizes, fields) ==
    LET orders == { c \in UNION { [1 .. n -> DOMAIN Coins] : n \in sizes } :
                      \A h, j \in DOMAIN c : h # j => c[h] # c[j] }
        proofs(tx, outs) ==
            LET maps(n) == { Filled(map, spend) :
                               map \in Backings(outs[n], tx.input[n].previous_output.txid),
                               spend \in CoinSpends(tx, n, outs) }
            IN  { PofProof(Psbt(tx, field, inputs)) :
                    field \in fields,
                    inputs \in IF Len(outs) = 2 THEN maps(1) \X maps(2)
                               ELSE maps(1) \X maps(2) \X maps(3) }
    IN  UNION { proofs(Requested(spk, coins, version),
                       <<TxOut(0, spk)>> \o [j \in DOMAIN coins |-> Coins[coins[j]]]) :
                  coins \in orders, version \in versions }

(* One input more than the bound allows, whatever its inputs show.         *)
Oversize(spk) ==
    { PofProof(Psbt(Requested(spk, <<5, 1, 7>>, 0), None,
                    [j \in 1 .. 4 |-> Filled(EmptyInput, SpendItems(<< >>, << >>))])) }

Challenges == {P2wpkh(A), Program(2, 32), P2sh(Multisig(1, <<A, B>>))}
OrderProofs ==
    [spk \in Challenges |-> PofProofs(spk, {0}, {1, 2}, {None})
                            \cup PofProofs(spk, {2, 3}, {1}, {None, m1, m2})
                            \cup SimpleProofs(spk) \cup Oversize(spk)]
=============================================================================
