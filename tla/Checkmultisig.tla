--------------------------- MODULE Checkmultisig ---------------------------
(***************************************************************************)
(* The CHECKMULTISIG evaluator of the verifier, verify_checkmultisig in    *)
(* src/verify/templates.rs: one forward pass over the witness items and    *)
(* one over the keys of the script.  A key that was tried is never tried   *)
(* again, so the loop is a greedy matching.  One step of the machine is    *)
(* one test of the loop: the stack check, the parse of one item, one       *)
(* signature verification.                                                 *)
(***************************************************************************)
EXTENDS Integers, Sequences

CONSTANTS
    Key,          \* public keys a script can name
    Item,         \* stack items: the empty one, signatures, anything else
    Empty,        \* the empty item, which is also the NULLDUMMY element
    WellFormed,   \* the items parse_ecdsa_signature accepts
    Verifies,     \* Verifies[k]: the items that sign the sighash under k
    Stacks,       \* the stacks below the script that the machine is run on
    KeyLists      \* the key lists of the scripts it is run on

ASSUME ItemAssumption ==
    /\ Empty \in Item
    /\ WellFormed \subseteq Item \ {Empty}
    /\ Verifies \in [Key -> SUBSET WellFormed]

ASSUME InputAssumption ==
    /\ Stacks \subseteq Seq(Item)
    /\ KeyLists \subseteq Seq(Key)

VARIABLES
    stack,      \* the items below the script
    required,   \* the threshold of the script
    keys,       \* the keys of the script, in script order
    s,          \* the stack position of the item under evaluation
    k,          \* how many keys the iterator has yielded
    pc          \* the next test, or the outcome

vars == <<stack, required, keys, s, k, pc>>

Running == {"check", "item", "match"}
Rejected == {"InvalidWitness", "MalformedSignature", "IncorrectSignature"}

(* CommittedScript::multisig hands over what parse_multisig accepts: a    *)
(* threshold between one and the number of keys.                          *)
Init ==
    /\ stack \in Stacks
    /\ keys \in KeyLists
    /\ required \in 1 .. Len(keys)
    /\ s = 2
    /\ k = 0
    /\ pc = "check"

(* Mutant: the length test lets extra items below the script through.     *)
StackFitsAtLeast == Len(stack) > required /\ stack[1] = Empty

StackFits == Len(stack) = required + 1 /\ stack[1] = Empty

CheckStack ==
    /\ pc = "check"
    /\ pc' = IF StackFits THEN "item" ELSE "InvalidWitness"
    /\ UNCHANGED <<stack, required, keys, s, k>>

(* The head of the loop: stop after the last item, reject an empty item,  *)
(* then parse the signature.                                              *)
NextItem ==
    /\ pc = "item"
    /\ pc' = IF s > Len(stack) THEN "Ok"
             ELSE IF stack[s] = Empty THEN "InvalidWitness"
             ELSE IF stack[s] \notin WellFormed THEN "MalformedSignature"
             ELSE "match"
    /\ UNCHANGED <<stack, required, keys, s, k>>

(* Mutant: keys.clone().any(..), every item scans the keys from the start. *)
TryKeyRestarting ==
    /\ pc = "match"
    /\ k < Len(keys)
    /\ IF stack[s] \in Verifies[keys[k + 1]]
          THEN k' = 0 /\ s' = s + 1 /\ pc' = "item"
          ELSE k' = k + 1 /\ s' = s /\ pc' = pc
    /\ UNCHANGED <<stack, required, keys>>

(* Mutant: keys and signatures are paired one to one, so a key that does  *)
(* not verify is retried for ever.                                        *)
TryKeyPeeking ==
    /\ pc = "match"
    /\ k < Len(keys)
    /\ IF stack[s] \in Verifies[keys[k + 1]]
          THEN k' = k + 1 /\ s' = s + 1 /\ pc' = "item"
          ELSE k' = k /\ s' = s /\ pc' = pc
    /\ UNCHANGED <<stack, required, keys>>

(* One call of the closure of keys.any: the iterator advances whether or  *)
(* not the key verifies.                                                  *)
TryKey ==
    /\ pc = "match"
    /\ k < Len(keys)
    /\ k' = k + 1
    /\ IF stack[s] \in Verifies[keys[k + 1]]
          THEN s' = s + 1 /\ pc' = "item"
          ELSE s' = s /\ pc' = pc
    /\ UNCHANGED <<stack, required, keys>>

(* Mutant: gives up before the last key is tried.                         *)
KeysExhaustedEarly ==
    /\ pc = "match"
    /\ k >= Len(keys) - 1
    /\ pc' = "IncorrectSignature"
    /\ UNCHANGED <<stack, required, keys, s, k>>

KeysExhausted ==
    /\ pc = "match"
    /\ k = Len(keys)
    /\ pc' = "IncorrectSignature"
    /\ UNCHANGED <<stack, required, keys, s, k>>

Next == CheckStack \/ NextItem \/ TryKey \/ KeysExhausted

(* The evaluator is a call: it runs until it returns.                     *)
Spec == Init /\ [][Next]_vars /\ WF_vars(Next)

-----------------------------------------------------------------------------

TypeOK ==
    /\ stack \in Seq(Item)
    /\ keys \in Seq(Key)
    /\ required \in 1 .. Len(keys)
    /\ s \in 2 .. required + 2
    /\ k \in 0 .. Len(keys)
    /\ pc \in Running \cup Rejected \cup {"Ok"}

(* f assigns the first n signatures to keys that verify them, each one to *)
(* a later key than the signature before it.                              *)
Matches(f, n) ==
    /\ \A i \in 1 .. n : stack[i + 1] \in Verifies[keys[f[i]]]
    /\ \A i, j \in 1 .. n : i < j => f[i] < f[j]

Matchings == { f \in [1 .. required -> 1 .. Len(keys)] : Matches(f, required) }

(* What CHECKMULTISIG promises, said without an algorithm: the stack has  *)
(* the dummy and exactly the threshold of signatures, and some assignment *)
(* in script order verifies all of them.                                  *)
Satisfied ==
    /\ StackFits
    /\ Matchings # {}

(* The greedy pass accepts only a stack that some in-order assignment of  *)
(* distinct keys satisfies: no key is counted for two signatures and no   *)
(* signature is skipped (verify_checkmultisig, the Ok of its last line).  *)
AcceptsOnlySatisfied == pc = "Ok" => Satisfied

(* The greedy pass never rejects a stack that some in-order assignment    *)
(* satisfies: spending a key on the first signature it verifies never     *)
(* starves a later signature (verify_checkmultisig, keys.any).            *)
RejectsOnlyUnsatisfied == pc \in Rejected => ~Satisfied

(* The evaluator returns: every stack gets a verdict.                     *)
Terminates == <>(pc \notin Running)
=============================================================================
