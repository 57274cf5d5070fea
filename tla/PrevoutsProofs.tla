--------------------------- MODULE PrevoutsProofs ---------------------------
(***************************************************************************)
(* For every PSBT, of any number of inputs in any order: what the resolver *)
(* returns agrees with every transaction supplied by the input itself or   *)
(* an earlier one, and no legacy prevout is a bare claim.                  *)
(***************************************************************************)
EXTENDS Prevouts, TLAPS

(* The map after the first n inputs were indexed: each transaction that    *)
(* one of them supplies is entered under its first supplier.               *)
Indexed(n) ==
    \A t \in Txid :
        \/ /\ nonWitness[t] = 0
           /\ \A h \in 1 .. n : psbt[h].non_witness_utxo # t
        \/ /\ nonWitness[t] \in 1 .. n
           /\ psbt[nonWitness[t]].non_witness_utxo = t
           /\ \A h \in 1 .. nonWitness[t] - 1 : psbt[h].non_witness_utxo # t

(* The first n inputs passed their checks and these are their outputs.     *)
Resolved(n) ==
    /\ Len(prevouts) = n
    /\ \A m \in 1 .. n : Checked(m) /\ prevouts[m] = Resolution(m)

IndexedSoFar == Indexed(i - 1)
IndexedAll == Indexed(Len(psbt))
ResolvedSoFar == Resolved(i - 1)
ResolvedAll == Resolved(Len(psbt))

IInv ==
    /\ TypeOK
    /\ pc = "index" => IndexedSoFar /\ prevouts = << >>
    /\ pc \in {"resolve", "Ok"} => IndexedAll
    /\ pc = "resolve" => ResolvedSoFar
    /\ pc = "Ok" => ResolvedAll
    /\ RejectsOnlyBadData

LEMMA InitIInv == Init => IInv
  <1> SUFFICES ASSUME Init PROVE IInv
    OBVIOUS
  <1>1. psbt \in Seq(Input)
    BY PrevoutsAssumption DEF Init
  <1>2. TypeOK
    BY <1>1 DEF Init, TypeOK
  <1>3. IndexedSoFar /\ prevouts = << >>
    BY DEF Init, IndexedSoFar, Indexed
  <1> QED
    BY <1>2, <1>3 DEF Init, IInv, RejectsOnlyBadData

(* Once every input is indexed, the map lookup with its comparison is the  *)
(* declarative rule.                                                       *)
LEMMA LookupIsFallback ==
    ASSUME TypeOK, Indexed(Len(psbt)), NEW n \in 1 .. Len(psbt)
    PROVE  HasNonWitness(n) <=> \E h \in 1 .. n : Supplies(h, n)
  <1> DEFINE t == psbt[n].txid
  <1>1. t \in Txid /\ Len(psbt) \in Nat
    <2>1. psbt[n] \in Input /\ Len(psbt) \in Nat
      BY DEF TypeOK
    <2> QED
      BY <2>1 DEF Input
  <1>2. CASE nonWitness[t] = 0
    <2>1. \A h \in 1 .. n : psbt[h].non_witness_utxo # t
      BY <1>1, <1>2 DEF Indexed
    <2> QED
      BY <1>2, <2>1 DEF HasNonWitness, Supplies
  <1>3. CASE nonWitness[t] \in 1 .. Len(psbt)
    <2>1. /\ psbt[nonWitness[t]].non_witness_utxo = t
          /\ \A h \in 1 .. nonWitness[t] - 1 : psbt[h].non_witness_utxo # t
      BY <1>1, <1>3 DEF Indexed
    <2>2. CASE nonWitness[t] <= n
      BY <1>3, <2>1, <2>2 DEF HasNonWitness, Supplies
    <2>3. CASE nonWitness[t] > n
      BY <1>3, <2>1, <2>3 DEF HasNonWitness, Supplies
    <2> QED
      BY <1>3, <2>2, <2>3
  <1> QED
    BY <1>1, <1>2, <1>3 DEF Indexed

LEMMA IndexInputIInv == IInv /\ IndexInput => IInv'
  <1> SUFFICES ASSUME IInv, IndexInput PROVE IInv'
    OBVIOUS
  <1> USE DEF IInv
  <1> DEFINE t == psbt[i].non_witness_utxo
  <1>1. /\ i \in 1 .. Len(psbt) /\ psbt' = psbt /\ prevouts' = prevouts
        /\ psbt[i] \in Input /\ pc = "index"
        /\ IndexedSoFar /\ prevouts = << >>
    BY DEF IndexInput, TypeOK
  <1>2. t \in Txid \cup {None} /\ psbt[i].txid \in Txid /\ None \notin Txid
    BY <1>1, PrevoutsAssumption DEF Input
  <1>3. CASE t = None
    <2>1. i' = i + 1 /\ nonWitness' = nonWitness /\ pc' = "index"
      BY <1>1, <1>3 DEF IndexInput
    <2>2. TypeOK'
      BY <1>1, <2>1 DEF TypeOK
    <2>3. IndexedSoFar'
      BY <1>1, <1>2, <1>3, <2>1 DEF IndexedSoFar, Indexed, TypeOK
    <2> QED
      BY <1>1, <2>1, <2>2, <2>3 DEF RejectsOnlyBadData
  <1>4. CASE t # None /\ t # psbt[i].txid
    <2>1. i' = i /\ nonWitness' = nonWitness /\ pc' = "ToSignInvalid"
      BY <1>1, <1>4 DEF IndexInput
    <2>2. TypeOK'
      BY <1>1, <2>1 DEF TypeOK
    <2>3. RejectsOnlyBadData'
      BY <1>1, <1>4 DEF RejectsOnlyBadData
    <2> QED
      BY <2>1, <2>2, <2>3
  <1>5. CASE t # None /\ t = psbt[i].txid
    <2>1. i' = i + 1 /\ nonWitness' = OrInsert(t, i) /\ pc' = "index"
      BY <1>1, <1>5 DEF IndexInput
    <2>2. TypeOK'
      BY <1>1, <1>2, <1>5, <2>1 DEF TypeOK, OrInsert
    <2>3. IndexedSoFar'
      BY <1>1, <1>2, <1>5, <2>1 DEF IndexedSoFar, Indexed, OrInsert, TypeOK
    <2> QED
      BY <1>1, <2>1, <2>2, <2>3 DEF RejectsOnlyBadData
  <1> QED
    BY <1>3, <1>4, <1>5

LEMMA IndexDoneIInv == IInv /\ IndexDone => IInv'
  <1> SUFFICES ASSUME IInv, IndexDone PROVE IInv'
    OBVIOUS
  <1>1. i = Len(psbt) + 1 /\ i' = 1 /\ pc' = "resolve" /\ Len(psbt) \in Nat
    BY DEF IInv, IndexDone, TypeOK
  <1>2. IndexedAll' /\ ResolvedSoFar'
    <2>1. IndexedSoFar /\ prevouts = << >> /\ i - 1 = Len(psbt) /\ i' - 1 = 0
      BY <1>1 DEF IInv, IndexDone
    <2>2. UNCHANGED <<psbt, nonWitness, prevouts>>
      BY DEF IndexDone
    <2>3. IndexedAll'
      BY <2>1, <2>2 DEF IndexedSoFar, IndexedAll, Indexed
    <2>4. ResolvedSoFar'
      BY <2>1, <2>2 DEF ResolvedSoFar, Resolved
    <2> QED
      BY <2>3, <2>4
  <1>3. TypeOK'
    BY <1>1 DEF IInv, IndexDone, TypeOK
  <1> QED
    BY <1>1, <1>2, <1>3 DEF IInv, RejectsOnlyBadData

LEMMA SpentOutputType ==
    ASSUME TypeOK, NEW n \in 1 .. Len(psbt)
    PROVE  HasSpentOutput(n) => SpentOutput(n) \in TxOut
  <1>1. psbt[n].txid \in Txid /\ psbt[n].vout \in Nat
    <2>1. psbt[n] \in Input
      BY DEF TypeOK
    <2> QED
      BY <2>1 DEF Input
  <1>2. Outputs[psbt[n].txid] \in Seq(TxOut)
    BY <1>1, PrevoutsAssumption
  <1> QED
    BY <1>1, <1>2 DEF HasSpentOutput, SpentOutput, SpentOutputs

LEMMA ResolutionType ==
    ASSUME TypeOK, NEW n \in 1 .. Len(psbt), Resolvable(n)
    PROVE  Resolution(n) \in TxOut
  <1>1. psbt[n] \in Input
    BY DEF TypeOK
  <1>2. psbt[n].witness_utxo \in TxOut \cup {None}
    BY <1>1 DEF Input
  <1> QED
    BY <1>2, SpentOutputType DEF Resolvable, Resolution

LEMMA ResolveInputIInv == IInv /\ ResolveInput => IInv'
  <1> SUFFICES ASSUME IInv, ResolveInput PROVE IInv'
    OBVIOUS
  <1>1. /\ i \in 1 .. Len(psbt) /\ psbt' = psbt /\ nonWitness' = nonWitness
        /\ pc = "resolve" /\ IndexedAll /\ ResolvedSoFar /\ TypeOK
    BY DEF IInv, ResolveInput, TypeOK
  <1>2. IndexedAll'
    BY <1>1 DEF IndexedAll, Indexed
  <1>3. CASE Checked(i)
    <2>1. prevouts' = Append(prevouts, Resolution(i)) /\ i' = i + 1 /\ pc' = "resolve"
      BY <1>1, <1>3 DEF ResolveInput
    <2>2. Resolution(i) \in TxOut
      BY <1>1, <1>3, ResolutionType DEF Checked
    <2>3. TypeOK'
      BY <1>1, <2>1, <2>2 DEF TypeOK
    <2>4. Len(prevouts) = i - 1 /\ prevouts \in Seq(TxOut)
      BY <1>1 DEF ResolvedSoFar, Resolved, TypeOK
    <2>5. \A m \in 1 .. i : (Checked(m) /\ prevouts[m] = Resolution(m))'
      <3> TAKE m \in 1 .. i
      <3>1. Checked(m)' = Checked(m) /\ Resolution(m)' = Resolution(m)
        BY <1>1 DEF Checked, Resolvable, Resolution, HasNonWitness, HasSpentOutput,
                    SpentOutput, SpentOutputs
      <3>2. CASE m = i
        BY <1>1, <1>3, <2>1, <2>2, <2>4, <3>1, <3>2
      <3>3. CASE m \in 1 .. i - 1
        <4>1. Checked(m) /\ prevouts[m] = Resolution(m)
          BY <1>1, <3>3 DEF ResolvedSoFar, Resolved
        <4>2. prevouts'[m] = prevouts[m]
          BY <1>1, <2>1, <2>2, <2>4, <3>3
        <4> QED
          BY <3>1, <4>1, <4>2
      <3> QED
        BY <1>1, <3>2, <3>3
    <2>6. Len(prevouts') = i /\ i' - 1 = i
      BY <1>1, <2>1, <2>2, <2>4
    <2>7. ResolvedSoFar'
      BY <2>5, <2>6 DEF ResolvedSoFar, Resolved
    <2> QED
      BY <1>2, <2>1, <2>3, <2>7 DEF IInv, RejectsOnlyBadData
  <1>4. CASE ~Checked(i)
    <2>1. pc' = "ToSignInvalid" /\ i' = i /\ prevouts' = prevouts
      BY <1>1, <1>4 DEF ResolveInput
    <2>2. TypeOK'
      BY <1>1, <2>1 DEF TypeOK
    <2>3. HasNonWitness(i) <=> \E h \in 1 .. i : Supplies(h, i)
      BY <1>1, LookupIsFallback DEF IndexedAll
    <2>4. RejectsOnlyBadData'
      <3> DEFINE own == psbt[i].witness_utxo
      <3>1. \/ HasNonWitness(i) /\ ~HasSpentOutput(i)
            \/ HasNonWitness(i) /\ own # None /\ own # SpentOutput(i)
            \/ ~HasNonWitness(i) /\ (own = None \/ own \in Legacy)
        BY <1>4 DEF Checked, Resolvable, Resolution
      <3>2. i \in DOMAIN psbt
        BY <1>1 DEF TypeOK
      <3> QED
        BY <1>1, <2>3, <3>1, <3>2
        DEF RejectsOnlyBadData, Supplies, HasSpentOutput, SpentOutput, SpentOutputs
    <2> QED
      BY <2>1, <2>2, <2>4 DEF IInv
  <1> QED
    BY <1>3, <1>4

LEMMA ResolveDoneIInv == IInv /\ ResolveDone => IInv'
  <1> SUFFICES ASSUME IInv, ResolveDone PROVE IInv'
    OBVIOUS
  <1>1. /\ i - 1 = Len(psbt) /\ pc = "resolve" /\ pc' = "Ok"
        /\ UNCHANGED <<psbt, nonWitness, i, prevouts>>
    BY DEF IInv, ResolveDone, TypeOK
  <1>2. TypeOK'
    BY <1>1 DEF IInv, TypeOK
  <1>3. IndexedAll'
    BY <1>1 DEF IInv, IndexedAll, Indexed
  <1>4. ResolvedAll'
    BY <1>1 DEF IInv, ResolvedSoFar, ResolvedAll, Resolved, Checked, Resolvable,
                Resolution, HasNonWitness, HasSpentOutput, SpentOutput, SpentOutputs
  <1> QED
    BY <1>1, <1>2, <1>3, <1>4 DEF IInv, RejectsOnlyBadData

LEMMA StutterIInv == IInv /\ UNCHANGED vars => IInv'
  BY DEF IInv, TypeOK, IndexedSoFar, IndexedAll, Indexed, ResolvedSoFar, ResolvedAll,
         Resolved, Checked, Resolvable, Resolution, HasNonWitness, HasSpentOutput,
         SpentOutput, SpentOutputs, RejectsOnlyBadData, Supplies, vars

LEMMA StepIInv == IInv /\ [Next]_vars => IInv'
  BY IndexInputIInv, IndexDoneIInv, ResolveInputIInv, ResolveDoneIInv, StutterIInv
  DEF Next

LEMMA SpecIInv == Spec => []IInv
  BY InitIInv, StepIInv, PTL DEF Spec

(* The resolver's state keeps its types (PrevoutResolver).                 *)
THEOREM TypeCorrect == Spec => []TypeOK
  <1>1. IInv => TypeOK
    BY DEF IInv
  <1> QED
    BY <1>1, SpecIInv, PTL

(* The map lookup finds a transaction exactly when the input itself or an  *)
(* earlier one supplies it (verify_pof's documentation of the fallback).   *)
THEOREM FallbackRule == Spec => []FallbackIsOwnOrEarlier
  <1>1. IInv => FallbackIsOwnOrEarlier
    <2> SUFFICES ASSUME IInv, pc \in {"resolve", "Ok"}, NEW n \in DOMAIN psbt
                 PROVE  HasNonWitness(n) <=> \E h \in 1 .. n : Supplies(h, n)
      BY DEF FallbackIsOwnOrEarlier
    <2>1. n \in 1 .. Len(psbt) /\ TypeOK /\ Indexed(Len(psbt))
      BY DEF IInv, IndexedAll, TypeOK
    <2> QED
      BY <2>1, LookupIsFallback
  <1> QED
    BY <1>1, SpecIInv, PTL

(* Accepted outputs are those of the transactions supplied at or before    *)
(* each input (PrevoutResolver::resolve).                                  *)
THEOREM Agreement == Spec => []AgreesWithSupplied
  <1>1. IInv => AgreesWithSupplied
    <2> SUFFICES ASSUME IInv, pc = "Ok", NEW n \in DOMAIN psbt,
                        \E h \in 1 .. n : Supplies(h, n)
                 PROVE  HasSpentOutput(n) /\ prevouts[n] = SpentOutput(n)
      BY DEF AgreesWithSupplied
    <2>1. n \in 1 .. Len(psbt) /\ TypeOK /\ Indexed(Len(psbt)) /\ Resolved(Len(psbt))
      BY DEF IInv, IndexedAll, ResolvedAll, TypeOK
    <2>2. HasNonWitness(n)
      BY <2>1, LookupIsFallback
    <2> QED
      BY <2>1, <2>2 DEF Resolved, Checked, Resolvable, Resolution
  <1> QED
    BY <1>1, SpecIInv, PTL

(* No accepted legacy prevout is a bare claim (checked_psbt_input_prevout  *)
(* and the last check of verify_pof).                                      *)
THEOREM LegacyBacking == Spec => []LegacyPrevoutsAreReal
  <1>1. IInv => LegacyPrevoutsAreReal
    <2> SUFFICES ASSUME IInv, pc = "Ok", NEW n \in DOMAIN psbt, prevouts[n] \in Legacy
                 PROVE  HasSpentOutput(n) /\ prevouts[n] = SpentOutput(n)
      BY DEF LegacyPrevoutsAreReal
    <2>1. n \in 1 .. Len(psbt) /\ Resolved(Len(psbt))
      BY DEF IInv, ResolvedAll, TypeOK
    <2> QED
      BY <2>1 DEF Resolved, Checked, Resolvable, Resolution
  <1> QED
    BY <1>1, SpecIInv, PTL

(* A rejected PSBT has a fault that is visible without the map             *)
(* (PrevoutResolver::new and resolve return an error).                     *)
THEOREM RejectionIsJustified == Spec => []RejectsOnlyBadData
  <1>1. IInv => RejectsOnlyBadData
    BY DEF IInv
  <1> QED
    BY <1>1, SpecIInv, PTL
=============================================================================
