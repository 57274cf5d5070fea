---------------------------- MODULE Verification ----------------------------
(***************************************************************************)
(* One run of the verifier (src/verify.rs): the checks of a proof as a     *)
(* whole, then four passes over its inputs: parse_spends, the backing of   *)
(* legacy inputs, the scan for OP_CODESEPARATOR and verify_input.  One     *)
(* step is one input of one pass; a pass returns at the first input that   *)
(* breaks a required rule.                                                 *)
(***************************************************************************)
EXTENDS Authorisation

CONSTANT Proofs     \* Proofs[a]: the proofs for address a it is asked about

ASSUME ProofAssumption ==
    \A address \in DOMAIN Proofs, message \in Message :
        \A proof \in Proofs[address] :
            /\ proof.format \in {"smp", "ful", "pof"}
            /\ Len(ProofToSign(address, message, proof).tx.input) \in Nat
            /\ \A n \in 1 .. Len(ProofToSign(address, message, proof).tx.input) :
                   InputOK(ProofToSign(address, message, proof), n)

VARIABLES
    address, message, proof,   \* the question
    pc,             \* the pass, or "done"
    i,              \* the input that the pass is at
    spends,         \* the inputs parsed so far
    inconclusive,   \* verify_spends' flag
    verdict,        \* "pending" until the verifier returns
    rules           \* auxiliary: the rules that the question is about

question == <<address, message, proof, rules>>
vars == <<question, pc, i, spends, inconclusive, verdict>>

to_sign == ProofToSign(address, message, proof)
prevouts == ProvenOutputs(address, message, proof)
Count == Len(to_sign.tx.input)

(* The proof as a whole, before any input of it.                           *)
Bounded == proof.format = "pof" => ~TooManyInputs(proof.psbt)
Consistent ==
    CASE proof.format = "smp" ->
           /\ SupportsSimple(address)
           /\ CheckToSign(address, message, to_sign)
      [] proof.format = "ful" -> CheckToSign(address, message, to_sign)
      [] proof.format = "pof" ->
           PofConsistent(address, message, proof.psbt)

(* The rules that the question at hand breaks and relies on, each looked at*)
(* by itself.                                                              *)

Inputs == 1 .. Count
ParsedInput(n) == Parse(to_sign, prevouts, n)

(* The required rules a proof breaks: rule 0 is about all of it, the others*)
(* are about an input, and apply to an input that parses.                  *)
BrokenRules ==
    IF ~Consistent THEN {<<"proof", 0>>}
    ELSE { <<"parse", n>> : n \in { m \in Inputs : ParsedInput(m) = Malformed } }
         \cup { <<"backing", n>> : n \in
                { m \in Inputs : /\ proof.format = "pof"
                                 /\ ParsedInput(m) # Malformed
                                 /\ ~Backed(proof.psbt, m, ParsedInput(m)) } }
         \cup { <<"codeseparator", n>> : n \in
                { m \in Inputs : /\ ParsedInput(m) # Malformed
                                 /\ SpendsCodeseparator(to_sign, prevouts, m,
                                                        ParsedInput(m)) } }
         \cup { <<"input", n>> : n \in
                { m \in Inputs : /\ ParsedInput(m) # Malformed
                                 /\ VerifyInput(to_sign, prevouts, m, ParsedInput(m))
                                        = "invalid" } }

ReservedRules ==
    IF ~Consistent THEN {}
    ELSE { <<"input", n>> : n \in
                { m \in Inputs : /\ ParsedInput(m) # Malformed
                                 /\ VerifyInput(to_sign, prevouts, m, ParsedInput(m))
                                        = "inconclusive" } }
         \cup { <<"version", v>> : v \in {to_sign.tx.version} \ {0, 2} }

Rules == [bounded |-> Bounded,
          broken |-> IF Bounded THEN BrokenRules ELSE {},
          reserved |-> IF Bounded THEN ReservedRules ELSE {}]

-----------------------------------------------------------------------------

Init ==
    /\ address \in DOMAIN Proofs /\ message \in Message
    /\ proof \in Proofs[address]
    /\ rules = Rules
    /\ pc = "check" /\ i = 1
    /\ spends = << >> /\ inconclusive = FALSE
    /\ verdict = "pending"

Return(result) ==
    /\ verdict' = result /\ pc' = "done"
    /\ UNCHANGED <<question, i, spends, inconclusive>>

(* Mutant: the last input is not recognised.                               *)
AdvancePast(pass) ==
    /\ IF i <= Count THEN i' = i + 1 /\ pc' = pc ELSE i' = 1 /\ pc' = pass
    /\ UNCHANGED <<question, verdict>>

(* Mutant: the last input is left out.                                     *)
AdvanceShort(pass) ==
    /\ IF i + 1 < Count THEN i' = i + 1 /\ pc' = pc ELSE i' = 1 /\ pc' = pass
    /\ UNCHANGED <<question, verdict>>

(* The pass goes on to the next input, or the next pass begins.            *)
Advance(pass) ==
    /\ IF i < Count THEN i' = i + 1 /\ pc' = pc ELSE i' = 1 /\ pc' = pass
    /\ UNCHANGED <<question, verdict>>

CheckProof ==
    /\ pc = "check"
    /\ IF ~Bounded THEN Return("Inconclusive")
       ELSE IF ~Consistent THEN Return("Invalid")
       ELSE pc' = "parse" /\ UNCHANGED <<question, i, spends, inconclusive, verdict>>

ParseInput ==
    /\ pc = "parse"
    /\ LET spend == Parse(to_sign, prevouts, i) IN
           IF spend = Malformed THEN Return("Invalid")
           ELSE /\ spends' = Append(spends, spend)
                /\ Advance(IF proof.format = "pof" THEN "backing"
                           ELSE "codeseparator")
                /\ UNCHANGED inconclusive

CheckBacking ==
    /\ pc = "backing"
    /\ IF ~Backed(proof.psbt, i, spends[i]) THEN Return("Invalid")
       ELSE Advance("codeseparator") /\ UNCHANGED <<spends, inconclusive>>

ScanCodeseparator ==
    /\ pc = "codeseparator"
    /\ IF SpendsCodeseparator(to_sign, prevouts, i, spends[i]) THEN Return("Invalid")
       ELSE Advance("verify") /\ UNCHANGED <<spends, inconclusive>>

(* Mutant: the first inconclusive input decides.                           *)
VerifyNextEarly ==
    /\ pc = "verify"
    /\ LET result == VerifyInput(to_sign, prevouts, i, spends[i]) IN
           IF result = "invalid" THEN Return("Invalid")
           ELSE IF result = "inconclusive" THEN Return("Inconclusive")
           ELSE Advance("return") /\ UNCHANGED <<spends, inconclusive>>

VerifyNext ==
    /\ pc = "verify"
    /\ LET result == VerifyInput(to_sign, prevouts, i, spends[i]) IN
           IF result = "invalid" THEN Return("Invalid")
           ELSE /\ inconclusive' = (inconclusive \/ result = "inconclusive")
                /\ Advance("return") /\ UNCHANGED spends

ReturnVerdict ==
    /\ pc = "return"
    /\ IF inconclusive \/ to_sign.tx.version \notin {0, 2}
          THEN Return("Inconclusive") ELSE Return("Valid")

Next ==
    \/ CheckProof \/ ParseInput \/ CheckBacking
    \/ ScanCodeseparator \/ VerifyNext \/ ReturnVerdict

(* The verifier is one call, which runs until it returns.                  *)
Spec == Init /\ [][Next]_vars /\ WF_vars(Next)

-----------------------------------------------------------------------------

Passes == {"parse", "backing", "codeseparator", "verify"}

(* A pass is at an input that the transaction has and, after the first one,*)
(* at one that was parsed.                                                 *)
TypeOK ==
    /\ pc \in Passes \cup {"check", "return", "done"}
    /\ pc \in Passes => i \in 1 .. Count
    /\ pc \in Passes => Len(spends) = IF pc = "parse" THEN i - 1 ELSE Count
    /\ inconclusive \in BOOLEAN
    /\ verdict \in {"pending", "Valid", "Inconclusive", "Invalid"}
    /\ verdict = "pending" <=> pc # "done"

(* A Valid verdict means that every input's output is authorised by        *)
(* signatures for the whole of this transaction, made for this very input  *)
(* and its value, on every path through templates, tapscripts and the      *)
(* interpreter (verify_input and all it calls).                            *)
ValidIsAuthorised ==
    verdict = "Valid" =>
        \A n \in 1 .. Count :
            OutputAuthorised(prevouts[n].script_pubkey,
                             SignersOf(to_sign, prevouts, n))

(* The verifier gives up on no proof it has a rule for: Inconclusive takes *)
(* a proof beyond the bound, a reserved version, or an input that shows an *)
(* annex, a reserved program or leaf, an OP_SUCCESSx, an unknown key type  *)
(* or a script foreign to the interpreter (Verification::Inconclusive).    *)
InconclusiveIsReserved ==
    verdict = "Inconclusive" =>
        \/ ~Bounded
        \/ to_sign.tx.version \notin {0, 2}
        \/ \E n \in 1 .. Count : ReservedInput(to_sign, prevouts, n)

(* A proof whose inputs are satisfied as their scripts ask, whichever      *)
(* script type and wrapping, is Valid: no template, no limit and no rule of*)
(* another input stands in the way (verify_input and all it calls).        *)
SatisfiedIsValid ==
    /\ pc = "done" /\ Consistent /\ to_sign.tx.version \in {0, 2}
    /\ proof.format = "pof" => Count <= MaxProofInputs
    /\ \A n \in 1 .. Count :
           /\ InputSatisfied(to_sign, prevouts, n)
           /\ proof.format = "pof" =>
                  \/ Algorithm(prevouts[n].script_pubkey) # "legacy"
                  \/ HasNonWitness(proof.psbt, n)
    => verdict = "Valid"

-----------------------------------------------------------------------------

V == INSTANCE Verdict WITH
        bounded <- rules.bounded, broken <- rules.broken, reserved <- rules.reserved

(* The four passes, each of which returns early, come to the verdict that  *)
(* the rules taken together ask for: an upgradeable rule on one input never*)
(* hides a required rule that another input breaks, on either side of it   *)
(* (verify_spends: "Required rules take precedence over upgradeable rules  *)
(* and interpretation").  And every proof gets a verdict.                  *)
MeetsVerdict == V!Spec
=============================================================================
