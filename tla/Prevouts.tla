------------------------------ MODULE Prevouts ------------------------------
(***************************************************************************)
(* How the outputs a PSBT's inputs spend are found: PrevoutResolver of     *)
(* src/psbt/prevouts.rs, run as its three callers run it (the signer, the  *)
(* finalizer and verify_pof): first the loop of `new` over the input maps, *)
(* which indexes the non_witness_utxo transactions, then one resolution    *)
(* for each input in order.  A transaction id is a hash, so it stands for  *)
(* its transaction: Outputs gives the outputs of the transaction a txid    *)
(* names.  Inputs are numbered from 1; vout counts from 0 as in the code.  *)
(***************************************************************************)
EXTENDS Integers, Sequences

CONSTANTS
    Txid,      \* transactions, each named by its id
    TxOut,     \* outputs: a value and a script
    Outputs,   \* Outputs[t]: the outputs of transaction t
    Legacy,    \* the outputs whose spend is not a segwit spend
    None,      \* an absent field
    Psbts      \* the PSBTs the resolver is run on

(* The fields of an input and of its map that the resolver reads.          *)
Input == [txid : Txid, vout : Nat,
          non_witness_utxo : Txid \cup {None},
          witness_utxo : TxOut \cup {None}]

ASSUME PrevoutsAssumption ==
    /\ None \notin Txid \cup TxOut
    /\ Outputs \in [Txid -> Seq(TxOut)]
    /\ Legacy \subseteq TxOut
    /\ Psbts \subseteq Seq(Input)

VARIABLES
    psbt,         \* the inputs
    nonWitness,   \* the HashMap: the input that supplied t, 0 when vacant
    i,            \* the input the running loop is at
    prevouts,     \* the outputs resolved so far
    pc

vars == <<psbt, nonWitness, i, prevouts, pc>>

Init ==
    /\ psbt \in Psbts
    /\ nonWitness = [t \in Txid |-> 0]
    /\ i = 1
    /\ prevouts = << >>
    /\ pc = "index"

(* Mutant: insert instead of entry(..).or_insert, so the last supplier     *)
(* of a transaction replaces the first one.                                *)
InsertLatest(t, n) == [nonWitness EXCEPT ![t] = n]

(* Mutant: the supplier is stored as the number of inputs scanned + 1.     *)
InsertOffByOne(t, n) ==
    [nonWitness EXCEPT ![t] = IF nonWitness[t] = 0 THEN n + 1 ELSE nonWitness[t]]

OrInsert(t, n) ==
    [nonWitness EXCEPT ![t] = IF nonWitness[t] = 0 THEN n ELSE nonWitness[t]]

(* One iteration of the loop of PrevoutResolver::new.                      *)
IndexInput ==
    /\ pc = "index" /\ i <= Len(psbt)
    /\ LET t == psbt[i].non_witness_utxo IN
           \/ /\ t = None
              /\ i' = i + 1
              /\ UNCHANGED <<nonWitness, pc>>
           \/ /\ t # None /\ t # psbt[i].txid
              /\ pc' = "ToSignInvalid"
              /\ UNCHANGED <<nonWitness, i>>
           \/ /\ t # None /\ t = psbt[i].txid
              /\ nonWitness' = OrInsert(t, i)
              /\ i' = i + 1
              /\ UNCHANGED pc
    /\ UNCHANGED <<psbt, prevouts>>

IndexDone ==
    /\ pc = "index" /\ i > Len(psbt)
    /\ pc' = "resolve"
    /\ i' = 1
    /\ UNCHANGED <<psbt, nonWitness, prevouts>>

(* Mutant: only the input's own non_witness_utxo counts.                   *)
HasNonWitnessOwn(n) == psbt[n].non_witness_utxo = psbt[n].txid

(* The transaction input n spends was supplied by it or by an earlier one. *)
HasNonWitness(n) == nonWitness[psbt[n].txid] \in 1 .. n

SpentOutputs(n) == Outputs[psbt[n].txid]
HasSpentOutput(n) == psbt[n].vout < Len(SpentOutputs(n))
SpentOutput(n) == SpentOutputs(n)[psbt[n].vout + 1]

(* Mutant: the two UTXO fields are not compared.                           *)
ResolvableUncompared(n) ==
    /\ HasNonWitness(n) => HasSpentOutput(n)
    /\ psbt[n].witness_utxo # None \/ HasNonWitness(n)

(* resolve returns Ok: the output exists in the supplied transaction, the  *)
(* two fields agree when both are there, and one of them is.               *)
Resolvable(n) ==
    /\ HasNonWitness(n) => HasSpentOutput(n)
    /\ HasNonWitness(n) /\ psbt[n].witness_utxo # None =>
           psbt[n].witness_utxo = SpentOutput(n)
    /\ psbt[n].witness_utxo # None \/ HasNonWitness(n)

Resolution(n) ==
    IF psbt[n].witness_utxo # None THEN psbt[n].witness_utxo ELSE SpentOutput(n)

(* Mutant: a legacy spend is accepted with its witness_utxo alone.         *)
CheckedUnbacked(n) == Resolvable(n)

(* checked_psbt_input_prevout of the PSBT roles, and the same rule at the  *)
(* end of verify_pof: a legacy spend needs the previous transaction.       *)
Checked(n) ==
    /\ Resolvable(n)
    /\ Resolution(n) \in Legacy => HasNonWitness(n)

ResolveInput ==
    /\ pc = "resolve" /\ i <= Len(psbt)
    /\ IF Checked(i)
          THEN /\ prevouts' = Append(prevouts, Resolution(i))
               /\ i' = i + 1
               /\ pc' = pc
          ELSE /\ pc' = "ToSignInvalid"
               /\ UNCHANGED <<prevouts, i>>
    /\ UNCHANGED <<psbt, nonWitness>>

ResolveDone ==
    /\ pc = "resolve" /\ i > Len(psbt)
    /\ pc' = "Ok"
    /\ UNCHANGED <<psbt, nonWitness, i, prevouts>>

Next == IndexInput \/ IndexDone \/ ResolveInput \/ ResolveDone

Spec == Init /\ [][Next]_vars

-----------------------------------------------------------------------------

TypeOK ==
    /\ psbt \in Seq(Input)
    /\ nonWitness \in [Txid -> 0 .. Len(psbt)]
    /\ i \in 1 .. Len(psbt) + 1
    /\ prevouts \in Seq(TxOut)
    /\ pc \in {"index", "resolve", "ToSignInvalid", "Ok"}

(* Some input h supplies the transaction that input n spends.              *)
Supplies(h, n) == psbt[h].non_witness_utxo = psbt[n].txid

(* verify_pof's documentation (src/verify.rs:166-169): an input may use a  *)
(* non_witness_utxo on that input or on an earlier input spending the same *)
(* transaction.  The single map lookup with its index comparison finds one *)
(* exactly when one is there, however suppliers are repeated and ordered.  *)
FallbackIsOwnOrEarlier ==
    pc \in {"resolve", "Ok"} =>
        \A n \in DOMAIN psbt : HasNonWitness(n) <=> \E h \in 1 .. n : Supplies(h, n)

(* When every input resolves, the output used for an input is the output   *)
(* of the transaction that the input itself or an earlier one supplied, so *)
(* no value or script claimed beside that transaction can differ from it.  *)
AgreesWithSupplied ==
    pc = "Ok" =>
        \A n \in DOMAIN psbt :
            (\E h \in 1 .. n : Supplies(h, n)) =>
                HasSpentOutput(n) /\ prevouts[n] = SpentOutput(n)

(* A legacy sighash commits to no value, so a legacy prevout must be read  *)
(* from the transaction its outpoint names and never from a bare claim:    *)
(* the rule of checked_psbt_input_prevout and of verify_pof's last check.  *)
LegacyPrevoutsAreReal ==
    pc = "Ok" =>
        \A n \in DOMAIN psbt :
            prevouts[n] \in Legacy =>
                HasSpentOutput(n) /\ prevouts[n] = SpentOutput(n)

(* The resolver rejects only a PSBT whose UTXO data is missing, names a    *)
(* wrong transaction, contradicts itself or leaves a legacy input unbacked *)
(* (judged over the inputs, without the map).                              *)
RejectsOnlyBadData ==
    pc = "ToSignInvalid" =>
        \E n \in DOMAIN psbt :
            LET own == psbt[n].witness_utxo
                backed == \E h \in 1 .. n : Supplies(h, n)
            IN  \/ psbt[n].non_witness_utxo \notin {None, psbt[n].txid}
                \/ backed /\ ~HasSpentOutput(n)
                \/ backed /\ own # None /\ own # SpentOutput(n)
                \/ ~backed /\ (own = None \/ own \in Legacy)

(* verify_pof's documentation (src/verify.rs:175-176) of the UTXO data:    *)
(* "verification only checks that it is internally consistent".  Taken of  *)
(* the whole PSBT: no accepted prevout contradicts a transaction that some *)
(* input of the same PSBT carries.                                         *)
InternallyConsistent ==
    pc = "Ok" =>
        \A n, h \in DOMAIN psbt :
            Supplies(h, n) => HasSpentOutput(n) /\ prevouts[n] = SpentOutput(n)

=============================================================================
