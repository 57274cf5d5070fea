-------------------------- MODULE MCDirectSigning --------------------------
(***************************************************************************)
(* Calls of direct signing.  Keys A and B, and U, the uncompressed form of *)
(* A.  Challenges: every output script, script argument and sequence of up *)
(* to three keys.  Proofs of funds: every pair of coins, with claims that  *)
(* are true or not, and one coin with every list of keys.                  *)
(***************************************************************************)
EXTENDS DirectSigning

CONSTANTS A, B, U, pA, pB, m1, m2, t1, zero, tree

MCKey == {A, B, U}
MCPoint == [x \in MCKey |-> IF x = B THEN pB ELSE pA]
MCNullOutpoint == [txid |-> zero, vout |-> -1]
MCLeaves == << >>

KeyLists == UNION { [1 .. size -> MCKey] : size \in 0 .. 3 }

Two == Multisig(2, <<A, B>>)
Uncompressed == Multisig(1, <<U, B>>)
Long == Multisig(2, <<A, B, U>>)
Scripts == { Two, Uncompressed, Long, Multisig(2, <<B, A, A>>), Multisig(2, <<A, U>>),
             Multisig(0, <<A>>) }

Outputs1 ==
    { P2pkh(A), P2pkh(U), P2wpkh(A), P2wpkh(U), P2sh(P2wpkh(B)), P2sh(P2wpkh(U)),
      P2tr(pB, None), P2tr(pB, tree), OpReturn, Program(2, 32) }
    \cup { P2wsh(s) : s \in Scripts } \cup { P2sh(s) : s \in Scripts }
    \cup { P2sh(P2wsh(s)) : s \in Scripts }

ScriptsFor(spk) ==
    {None, Two, P2wpkh(B)} \cup { s \in Scripts : spk \in {P2wsh(s), P2sh(s), P2sh(P2wsh(s))} }

Call(format, spk, script, message, inputs, keys) ==
    [format |-> format, challenge |-> spk, witness_script |-> script, message |-> message,
     inputs |-> inputs, private_keys |-> keys,
     locks |-> [lock_time |-> IF format = "smp" THEN 0 ELSE 9, sequence |-> 0]]

SingleCalls ==
    UNION { { Call(format, spk, script, m, << >>, <<keys>>) :
                format \in {"smp", "ful"}, script \in ScriptsFor(spk),
                m \in {m1, m2}, keys \in KeyLists } : spk \in Outputs1 }

(* Coins: a legacy output and segwit ones.                                 *)
Coins == <<TxOut(5, P2pkh(U)), TxOut(7, P2wsh(Two)), TxOut(4, P2tr(pB, None)),
           TxOut(3, P2sh(Uncompressed)), TxOut(6, P2sh(P2wpkh(A)))>>
MCPrevTx == {t1}
MCPrevOutputs == [t \in MCPrevTx |-> Coins]
CoinScripts == <<None, Two, None, Uncompressed, None>>
CoinKeys == <<<<U>>, <<B, A>>, <<B>>, <<A>>, <<A>>>>

Input(vout, prevout, script, prev_tx) ==
    [outpoint |-> [txid |-> t1, vout |-> vout], prevout |-> prevout,
     witness_script |-> script, prev_tx |-> prev_tx]
Coin(c) == Input(c - 1, Coins[c], CoinScripts[c], t1)
(* The coin of another place, or of another value.                         *)
Claims(c) ==
    { Coin(c), Input(c - 1, Coins[c], CoinScripts[c], None),
      Input(7, Coins[c], CoinScripts[c], t1),
      Input(c - 1, TxOut(9, Coins[c].script_pubkey), CoinScripts[c], t1) }

Pof(inputs, keys) == Call("pof", P2wpkh(A), None, m1, inputs, <<<<A>>>> \o keys)

PofCalls ==
    UNION { { Pof(<<x, y>>, <<CoinKeys[c], CoinKeys[d]>>) : x \in Claims(c), y \in Claims(d) } :
              c \in DOMAIN Coins, d \in DOMAIN Coins }
    \cup { Pof(<<Coin(c)>>, <<keys>>) : c \in DOMAIN Coins, keys \in KeyLists }
    \cup { Pof(<<Coin(1), Coin(2), Coin(3)>>, <<CoinKeys[1], CoinKeys[2], CoinKeys[3]>>),
           Pof(<< >>, << >>),
           Pof(<<[Coin(3) EXCEPT !.outpoint = MCNullOutpoint]>>, <<CoinKeys[3]>>),
           [Pof(<<Coin(2)>>, <<CoinKeys[2]>>) EXCEPT !.message = m2],
           [Pof(<<Coin(2)>>, <<CoinKeys[2]>>) EXCEPT !.challenge = P2pkh(A)] }

MCCalls == SingleCalls \cup PofCalls
=============================================================================
