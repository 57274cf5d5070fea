------------------------ MODULE CheckmultisigProofs ------------------------
(***************************************************************************)
(* For every set of keys and items, every stack and every script: the      *)
(* greedy forward pass of verify_checkmultisig accepts exactly the stacks  *)
(* that some in-order assignment of signatures to keys satisfies.          *)
(***************************************************************************)
EXTENDS Checkmultisig, TLAPS

(* The state of the loop: the signatures passed so far have a matching     *)
(* into the keys consumed so far, and no matching of the whole stack sends *)
(* the signature under evaluation to a consumed key.                       *)
PrefixMatched == \E f \in [1 .. s - 2 -> 1 .. k] : Matches(f, s - 2)

RestBeyond == s <= required + 1 => \A g \in Matchings : g[s - 1] > k

LoopInv == pc \in {"item", "match"} => StackFits /\ PrefixMatched /\ RestBeyond

IInv ==
    /\ TypeOK
    /\ pc = "check" => s = 2 /\ k = 0
    /\ pc = "match" => s <= required + 1 /\ stack[s] \in WellFormed
    /\ LoopInv
    /\ AcceptsOnlySatisfied
    /\ RejectsOnlyUnsatisfied

USE DEF Running, Rejected

LEMMA InitIInv == Init => IInv
  <1> SUFFICES ASSUME Init PROVE IInv
    OBVIOUS
  <1>1. stack \in Seq(Item) /\ keys \in Seq(Key)
    BY InputAssumption DEF Init
  <1>2. TypeOK
    BY <1>1 DEF Init, TypeOK
  <1> QED
    BY <1>2 DEF Init, IInv, LoopInv, AcceptsOnlySatisfied, RejectsOnlyUnsatisfied

(* A matching of the whole stack assigns every signature, the one at       *)
(* position s in particular, to a key that verifies it.                    *)
LEMMA MatchingFacts ==
    ASSUME TypeOK, StackFits, s <= required + 1, NEW g \in Matchings
    PROVE  /\ g[s - 1] \in 1 .. Len(keys)
           /\ stack[s] \in Verifies[keys[g[s - 1]]]
           /\ stack[s] \in WellFormed
           /\ s <= required => g[s] \in 1 .. Len(keys) /\ g[s - 1] < g[s]
  <1>1. s - 1 \in 1 .. required /\ (s - 1) + 1 = s
    BY DEF TypeOK
  <1>2. g \in [1 .. required -> 1 .. Len(keys)] /\ Matches(g, required)
    BY DEF Matchings
  <1>3. g[s - 1] \in 1 .. Len(keys)
    BY <1>1, <1>2
  <1>4. stack[s] \in Verifies[keys[g[s - 1]]]
    BY <1>1, <1>2 DEF Matches
  <1>5. keys[g[s - 1]] \in Key
    BY <1>3 DEF TypeOK
  <1>6. stack[s] \in WellFormed
    BY <1>4, <1>5, ItemAssumption
  <1>7. ASSUME s <= required PROVE g[s] \in 1 .. Len(keys) /\ g[s - 1] < g[s]
    <2>1. s \in 1 .. required /\ s - 1 < s
      BY <1>7 DEF TypeOK
    <2> QED
      BY <1>1, <1>2, <2>1 DEF Matches
  <1> QED
    BY <1>3, <1>4, <1>6, <1>7

LEMMA CheckStackIInv == IInv /\ CheckStack => IInv'
  <1> SUFFICES ASSUME IInv, CheckStack PROVE IInv'
    OBVIOUS
  <1>1. TypeOK'
    BY DEF IInv, TypeOK, CheckStack
  <1>2. CASE StackFits
    <2>1. pc' = "item" /\ s' = s /\ k' = k /\ StackFits'
      BY <1>2 DEF CheckStack, StackFits
    <2>2. s = 2 /\ k = 0
      BY DEF IInv, CheckStack
    <2>3. PrefixMatched'
      <3>1. s' - 2 = 0 /\ k' = 0 /\ 1 .. 0 = {}
        BY <2>1, <2>2
      <3>2. [i \in 1 .. 0 |-> i] \in [1 .. s' - 2 -> 1 .. k']
        BY <3>1
      <3> QED
        BY <3>1, <3>2 DEF PrefixMatched, Matches
    <2>4. ASSUME s' <= required' + 1, NEW g \in Matchings' PROVE g[s' - 1] > k'
      <3>1. g \in Matchings /\ s <= required + 1
        BY <2>4, <2>1 DEF Matchings, Matches, CheckStack
      <3>2. g[s - 1] \in 1 .. Len(keys)
        BY <3>1, <1>2, MatchingFacts DEF IInv
      <3> QED
        BY <3>2, <2>1, <2>2
    <2>5. LoopInv'
      BY <2>1, <2>3, <2>4 DEF LoopInv, RestBeyond
    <2> QED
      BY <1>1, <2>1, <2>5 DEF IInv, AcceptsOnlySatisfied, RejectsOnlyUnsatisfied
  <1>3. CASE ~StackFits
    <2>1. pc' = "InvalidWitness" /\ ~StackFits'
      BY <1>3 DEF CheckStack, StackFits
    <2> QED
      BY <1>1, <2>1
      DEF IInv, LoopInv, AcceptsOnlySatisfied, RejectsOnlyUnsatisfied, Satisfied
  <1> QED
    BY <1>2, <1>3

LEMMA NextItemIInv == IInv /\ NextItem => IInv'
  <1> SUFFICES ASSUME IInv, NextItem PROVE IInv'
    OBVIOUS
  <1> USE DEF IInv
  <1>1. StackFits /\ Len(stack) = required + 1 /\ s \in 2 .. required + 2
    BY DEF NextItem, LoopInv, StackFits, TypeOK
  <1>2. TypeOK'
    BY DEF TypeOK, NextItem
  <1>3. StackFits' = StackFits /\ Matchings' = Matchings
    BY DEF NextItem, StackFits, Matchings, Matches
  <1>4. LoopInv'
    BY <1>3 DEF NextItem, LoopInv, PrefixMatched, RestBeyond, Matches
  <1>5. CASE s > Len(stack)
    <2>1. pc' = "Ok" /\ s = required + 2
      BY <1>1, <1>5 DEF NextItem, TypeOK
    <2>2. PICK f \in [1 .. required -> 1 .. k] : Matches(f, required)
      BY <1>1, <2>1 DEF LoopInv, PrefixMatched, NextItem, TypeOK
    <2>3. f \in [1 .. required -> 1 .. Len(keys)]
      BY <2>2 DEF TypeOK
    <2>4. Satisfied'
      BY <1>1, <1>3, <2>2, <2>3 DEF Satisfied, Matchings
    <2> QED
      BY <1>2, <1>4, <2>1, <2>4 DEF AcceptsOnlySatisfied, RejectsOnlyUnsatisfied
  <1>6. CASE s <= Len(stack) /\ stack[s] \notin WellFormed
    <2>1. pc' \in {"InvalidWitness", "MalformedSignature"}
      BY <1>1, <1>6, ItemAssumption DEF NextItem
    <2>2. ~Satisfied
      BY <1>1, <1>6, MatchingFacts DEF Satisfied
    <2>3. ~Satisfied'
      BY <1>3, <2>2 DEF Satisfied
    <2> QED
      BY <1>2, <1>4, <2>1, <2>3 DEF AcceptsOnlySatisfied, RejectsOnlyUnsatisfied
  <1>7. CASE s <= Len(stack) /\ stack[s] \in WellFormed
    <2>1. pc' = "match" /\ s' = s /\ stack' = stack /\ required' = required
      BY <1>1, <1>7, ItemAssumption DEF NextItem
    <2> QED
      BY <1>1, <1>2, <1>4, <1>7, <2>1 DEF AcceptsOnlySatisfied, RejectsOnlyUnsatisfied
  <1> QED
    BY <1>1, <1>5, <1>6, <1>7

(* The greedy step: the first unconsumed key that verifies the signature   *)
(* extends the matching found so far, and since every whole matching sends *)
(* this signature to that key or beyond, it sends the next one beyond it.  *)
LEMMA TryKeyIInv == IInv /\ TryKey => IInv'
  <1> SUFFICES ASSUME IInv, TryKey PROVE IInv'
    OBVIOUS
  <1> USE DEF IInv
  <1>1. /\ StackFits /\ Len(stack) = required + 1 /\ s \in 2 .. required + 1
        /\ required \in Nat /\ k \in Nat /\ k' = k + 1
        /\ k + 1 \in 1 .. Len(keys)
    BY DEF TryKey, LoopInv, StackFits, TypeOK
  <1>2. TypeOK'
    BY <1>1 DEF TypeOK, TryKey
  <1>3. /\ StackFits' = StackFits
        /\ Matchings' = Matchings
        /\ stack' = stack /\ keys' = keys
    BY DEF TryKey, StackFits, Matchings, Matches
  <1>4. PICK f \in [1 .. s - 2 -> 1 .. k] : Matches(f, s - 2)
    BY DEF LoopInv, PrefixMatched, TryKey
  <1>5. \A g \in Matchings : g[s - 1] > k /\ g[s - 1] \in Nat
    BY <1>1, MatchingFacts DEF LoopInv, RestBeyond, TryKey
  <1>6. CASE stack[s] \in Verifies[keys[k + 1]]
    <2>1. s' = s + 1 /\ pc' = "item"
      BY <1>6 DEF TryKey
    <2> DEFINE h == [i \in 1 .. s - 1 |-> IF i = s - 1 THEN k + 1 ELSE f[i]]
    <2>2. h \in [1 .. s - 1 -> 1 .. k + 1]
      BY <1>1, <1>4
    <2>3. Matches(h, s - 1)
      <3>1. ASSUME NEW i \in 1 .. s - 1
            PROVE  stack[i + 1] \in Verifies[keys[h[i]]]
        <4>1. CASE i = s - 1
          BY <4>1, <1>1, <1>6
        <4>2. CASE i \in 1 .. s - 2
          <5>1. h[i] = f[i]
            BY <4>2, <1>1
          <5>2. stack[i + 1] \in Verifies[keys[f[i]]]
            BY <4>2, <1>4 DEF Matches
          <5> QED
            BY <5>1, <5>2
        <4> QED
          BY <4>1, <4>2, <1>1
      <3>2. ASSUME NEW i \in 1 .. s - 1, NEW j \in 1 .. s - 1, i < j
            PROVE  h[i] < h[j]
        <4>1. i \in 1 .. s - 2 /\ f[i] \in 1 .. k /\ h[i] = f[i]
          BY <3>2, <1>1, <1>4
        <4>2. CASE j = s - 1
          BY <4>1, <4>2, <1>1
        <4>3. CASE j \in 1 .. s - 2
          BY <4>1, <4>3, <1>1, <1>4, <3>2 DEF Matches
        <4> QED
          BY <4>2, <4>3, <1>1
      <3> QED
        BY <3>1, <3>2 DEF Matches
    <2>4. PrefixMatched'
      <3>1. s' - 2 = s - 1 /\ k' = k + 1
        BY <1>1, <2>1
      <3> HIDE DEF h
      <3> QED
        BY <1>3, <2>2, <2>3, <3>1 DEF PrefixMatched, Matches
    <2>5. ASSUME s' <= required' + 1, NEW g \in Matchings' PROVE g[s' - 1] > k'
      <3>1. g \in Matchings /\ s <= required /\ s' - 1 = s
        BY <1>1, <1>3, <2>1, <2>5 DEF TryKey
      <3>2. g[s - 1] < g[s] /\ g[s] \in Nat
        BY <1>1, <3>1, MatchingFacts
      <3> QED
        BY <1>1, <1>5, <3>1, <3>2
    <2>6. LoopInv'
      BY <1>1, <1>3, <2>4, <2>5 DEF LoopInv, RestBeyond
    <2> QED
      BY <1>2, <2>1, <2>6 DEF AcceptsOnlySatisfied, RejectsOnlyUnsatisfied
  <1>7. CASE stack[s] \notin Verifies[keys[k + 1]]
    <2>1. s' = s /\ pc' = "match" /\ stack' = stack /\ required' = required
      BY <1>7 DEF TryKey
    <2>2. PrefixMatched'
      <3>1. f \in [1 .. s - 2 -> 1 .. k + 1]
        BY <1>1, <1>4
      <3> QED
        BY <1>1, <1>3, <1>4, <2>1, <3>1 DEF PrefixMatched, Matches
    <2>3. ASSUME NEW g \in Matchings' PROVE g[s' - 1] > k'
      <3>1. g \in Matchings
        BY <1>3
      <3>2. stack[s] \in Verifies[keys[g[s - 1]]]
        BY <1>1, <3>1, MatchingFacts
      <3>3. g[s - 1] # k + 1
        BY <1>7, <3>2
      <3> QED
        BY <1>1, <1>5, <2>1, <3>1, <3>3
    <2>4. LoopInv'
      BY <1>1, <1>3, <2>2, <2>3 DEF LoopInv, RestBeyond
    <2>5. stack[s] \in WellFormed
      BY DEF TryKey
    <2> HIDE DEF IInv
    <2> QED
      BY <1>1, <1>2, <2>1, <2>4, <2>5 DEF IInv, AcceptsOnlySatisfied, RejectsOnlyUnsatisfied
  <1> QED
    BY <1>6, <1>7

LEMMA KeysExhaustedIInv == IInv /\ KeysExhausted => IInv'
  <1> SUFFICES ASSUME IInv, KeysExhausted PROVE IInv'
    OBVIOUS
  <1>1. TypeOK'
    BY DEF IInv, TypeOK, KeysExhausted
  <1>2. StackFits /\ s <= required + 1 /\ k = Len(keys) /\ keys \in Seq(Key)
    BY DEF IInv, LoopInv, KeysExhausted, TypeOK
  <1>3. ASSUME NEW g \in Matchings PROVE FALSE
    <2>1. g[s - 1] > k
      BY <1>2 DEF IInv, LoopInv, RestBeyond, KeysExhausted
    <2>2. g[s - 1] \in 1 .. Len(keys)
      BY <1>2, MatchingFacts DEF IInv
    <2> QED
      BY <1>2, <2>1, <2>2
  <1>4. ~Satisfied
    BY <1>3 DEF Satisfied
  <1>5. ~Satisfied' /\ pc' = "IncorrectSignature"
    BY <1>4 DEF KeysExhausted, Satisfied, StackFits, Matchings, Matches
  <1> QED
    BY <1>1, <1>5 DEF IInv, LoopInv, AcceptsOnlySatisfied, RejectsOnlyUnsatisfied

LEMMA StutterIInv == IInv /\ UNCHANGED vars => IInv'
  BY DEF IInv, TypeOK, LoopInv, PrefixMatched, RestBeyond, StackFits, Matchings, Matches, Satisfied,
         AcceptsOnlySatisfied, RejectsOnlyUnsatisfied, vars

LEMMA StepIInv == IInv /\ [Next]_vars => IInv'
  BY CheckStackIInv, NextItemIInv, TryKeyIInv, KeysExhaustedIInv, StutterIInv
  DEF Next

LEMMA SpecIInv == Spec => []IInv
  BY InitIInv, StepIInv, PTL DEF Spec

(* The machine's variables keep their types (verify_checkmultisig).        *)
THEOREM TypeCorrect == Spec => []TypeOK
  <1>1. IInv => TypeOK
    BY DEF IInv
  <1> QED
    BY <1>1, SpecIInv, PTL

(* An accepted stack has its signatures assigned to distinct keys, in      *)
(* script order, each verifying (verify_checkmultisig returns Ok).         *)
THEOREM Soundness == Spec => []AcceptsOnlySatisfied
  <1>1. IInv => AcceptsOnlySatisfied
    BY DEF IInv
  <1> QED
    BY <1>1, SpecIInv, PTL

(* A rejected stack has no such assignment: the greedy pass loses nothing  *)
(* (verify_checkmultisig returns an error).                                *)
THEOREM Completeness == Spec => []RejectsOnlyUnsatisfied
  <1>1. IInv => RejectsOnlyUnsatisfied
    BY DEF IInv
  <1> QED
    BY <1>1, SpecIInv, PTL
=============================================================================
