----------------------------- MODULE MCPrevouts -----------------------------
(***************************************************************************)
(* Every PSBT of one to three inputs over two transactions, one with a     *)
(* single legacy output and one with a legacy and a segwit output.  Three  *)
(* inputs are the least with an earlier, an own and a later supplier.      *)
(***************************************************************************)
EXTENDS Prevouts

CONSTANTS t1, t2, segwit, other, legacy, MaxInputs

MCTxid == {t1, t2}
MCTxOut == {segwit, other, legacy}
MCOutputs == [t \in MCTxid |-> IF t = t1 THEN <<legacy>> ELSE <<legacy, segwit>>]

(* Outpoints may name an output past the end of the transaction.           *)
MCInput == [txid : MCTxid, vout : 0 .. 1,
            non_witness_utxo : MCTxid \cup {None},
            witness_utxo : MCTxOut \cup {None}]

(* validate_outpoints: no outpoint is spent twice.                         *)
DistinctOutpoints(p) ==
    \A m, n \in DOMAIN p : m # n => p[m].txid # p[n].txid \/ p[m].vout # p[n].vout

MCPsbts ==
    { p \in UNION { [1 .. n -> MCInput] : n \in 1 .. MaxInputs } : DistinctOutpoints(p) }
=============================================================================
