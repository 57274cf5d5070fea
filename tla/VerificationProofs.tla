------------------------- MODULE VerificationProofs -------------------------
(***************************************************************************)
(* Theorems about module Verification, for any number of inputs: the passes*)
(* stay within the transaction, and the order in which they look at inputs *)
(* and rules has no influence on the verdict, and a Valid verdict means    *)
(* signatures that authorise every input.  What single rules say of an     *)
(* input is used as it stands, but for that last theorem, which takes what *)
(* AuthorisationProofs shows of them.                                      *)
(***************************************************************************)
EXTENDS Verification, AuthorisationProofs

(* The rules at input n.                                                   *)
ParsesAt(n) == ParsedInput(n) # Malformed
BackedAt(n) == proof.format = "pof" => Backed(proof.psbt, n, ParsedInput(n))
ScannedAt(n) == ~SpendsCodeseparator(to_sign, prevouts, n, ParsedInput(n))
ResultAt(n) == VerifyInput(to_sign, prevouts, n, ParsedInput(n))
ReservedVersion == to_sign.tx.version \notin {0, 2}

(* The passes behind the current one, and the inputs behind the current    *)
(* one in this pass, have found nothing that breaks a required rule.       *)
Done(pass) ==
    CASE pc = "parse" -> {}
      [] pc = "backing" -> {"parse"}
      [] pc = "codeseparator" -> {"parse", "backing"}
      [] pc = "verify" -> {"parse", "backing", "codeseparator"}
      [] OTHER -> Passes
Seen(pass) ==
    IF pass \in Done(pass) THEN Inputs
    ELSE IF pass = pc THEN 1 .. (i - 1) ELSE {}

Started == pc \in Passes \cup {"return"}

Control ==
    /\ pc \in Passes \cup {"check", "return", "done"}
    /\ pc \in Passes => i \in Inputs
    /\ inconclusive \in BOOLEAN
    /\ verdict \in {"pending", "Valid", "Inconclusive", "Invalid"}
    /\ verdict = "pending" <=> pc # "done"
    /\ pc = "check" => i = 1 /\ spends = << >> /\ inconclusive = FALSE
    /\ pc = "backing" => proof.format = "pof"

Progress ==
    Started =>
        /\ Bounded /\ Consistent
        /\ spends = [n \in Seen("parse") |-> ParsedInput(n)]
        /\ \A n \in Seen("parse") : ParsesAt(n)
        /\ \A n \in Seen("backing") : BackedAt(n)
        /\ \A n \in Seen("codeseparator") : ScannedAt(n)
        /\ \A n \in Seen("verify") : ResultAt(n) # "invalid"
        /\ inconclusive <=> \E n \in Seen("verify") : ResultAt(n) = "inconclusive"

Formats ==
    /\ proof.format \in {"smp", "ful", "pof"}
    /\ \A n \in Inputs : InputOK(to_sign, n)

IInv ==
    /\ Control /\ Formats
    /\ Count \in Nat \ {0} \/ pc \in {"check", "done"}
    /\ Count \in Nat
    /\ rules = Rules
    /\ Progress
    /\ pc = "done" => verdict = V!Outcome

-----------------------------------------------------------------------------
(* Facts about the rules.                                                  *)

(* A proof that passes the checks of the whole has an input.               *)
LEMMA ConsistentHasInput ==
    ASSUME Consistent, proof.format \in {"smp", "ful", "pof"}, Count \in Nat
    PROVE  Count \in Nat \ {0}
<1>1. CASE proof.format \in {"smp", "ful"}
    <2>1. CheckToSign(address, message, to_sign)
        BY <1>1 DEF Consistent
    <2>2. Len(to_sign.tx.input) = 1
        BY <2>1 DEF CheckToSign
    <2> QED BY <2>2 DEF Count
<1>2. CASE proof.format = "pof"
    <2>1. PofConsistent(address, message, proof.psbt)
        BY <1>2 DEF Consistent
    <2>2. Len(proof.psbt.unsigned_tx.input) >= 2
        BY <2>1 DEF PofConsistent
    <2>3. to_sign.tx = proof.psbt.unsigned_tx
        BY <1>2 DEF to_sign, ProofToSign, ExtractTx
    <2> QED BY <2>2, <2>3 DEF Count
<1> QED BY <1>1, <1>2

(* No required rule is broken when each, at each input, is kept.           *)
LEMMA BrokenByARule ==
    ASSUME Consistent
    PROVE  BrokenRules = {} <=>
               \A n \in Inputs : ParsesAt(n) /\ BackedAt(n) /\ ScannedAt(n)
                                 /\ ResultAt(n) # "invalid"
<1> DEFINE Kept == \A n \in Inputs : ParsesAt(n) /\ BackedAt(n) /\ ScannedAt(n)
                                     /\ ResultAt(n) # "invalid"
<1>1. ASSUME Kept PROVE BrokenRules = {}
    BY <1>1 DEF BrokenRules, ParsesAt, BackedAt, ScannedAt, ResultAt
<1>2. ASSUME NEW n \in Inputs, ~ParsesAt(n) PROVE <<"parse", n>> \in BrokenRules
    BY <1>2 DEF BrokenRules, ParsesAt
<1>3. ASSUME NEW n \in Inputs, ParsesAt(n), ~BackedAt(n)
      PROVE  <<"backing", n>> \in BrokenRules
    BY <1>3 DEF BrokenRules, ParsesAt, BackedAt
<1>4. ASSUME NEW n \in Inputs, ParsesAt(n), ~ScannedAt(n)
      PROVE  <<"codeseparator", n>> \in BrokenRules
    BY <1>4 DEF BrokenRules, ParsesAt, ScannedAt
<1>5. ASSUME NEW n \in Inputs, ParsesAt(n), ResultAt(n) = "invalid"
      PROVE  <<"input", n>> \in BrokenRules
    BY <1>5 DEF BrokenRules, ParsesAt, ResultAt
<1> QED BY <1>1, <1>2, <1>3, <1>4, <1>5

(* An upgradeable rule is met at an input, or is the version's.            *)
LEMMA ReservedByARule ==
    ASSUME Consistent, \A n \in Inputs : ParsesAt(n)
    PROVE  ReservedRules = {} <=>
               /\ \A n \in Inputs : ResultAt(n) # "inconclusive"
               /\ ~ReservedVersion
<1>1. ASSUME \A n \in Inputs : ResultAt(n) # "inconclusive", ~ReservedVersion
      PROVE  ReservedRules = {}
    BY <1>1 DEF ReservedRules, ResultAt, ReservedVersion
<1>2. ASSUME NEW n \in Inputs, ResultAt(n) = "inconclusive"
      PROVE  <<"input", n>> \in ReservedRules
    BY <1>2 DEF ReservedRules, ResultAt, ParsesAt
<1>3. ASSUME ReservedVersion
      PROVE  <<"version", to_sign.tx.version>> \in ReservedRules
    BY <1>3 DEF ReservedRules, ReservedVersion
<1> QED BY <1>1, <1>2, <1>3

(* The question stays as it is, and with it everything it determines.      *)
LEMMA QuestionKept ==
    ASSUME UNCHANGED question
    PROVE  /\ Count' = Count /\ Inputs' = Inputs
           /\ Bounded' = Bounded /\ Consistent' = Consistent
           /\ Rules' = Rules /\ rules' = rules
           /\ proof' = proof /\ address' = address /\ message' = message
           /\ to_sign' = to_sign /\ prevouts' = prevouts
           /\ \A n : ParsedInput(n)' = ParsedInput(n)
           /\ \A n : /\ ParsesAt(n)' = ParsesAt(n)
                     /\ BackedAt(n)' = BackedAt(n)
                     /\ ScannedAt(n)' = ScannedAt(n)
                     /\ ResultAt(n)' = ResultAt(n)
<1>1. proof' = proof /\ address' = address /\ message' = message /\ rules' = rules
    BY DEF question
<1>2. to_sign' = to_sign /\ prevouts' = prevouts
    BY <1>1 DEF to_sign, prevouts
<1>3. Count' = Count /\ Inputs' = Inputs
    BY <1>2 DEF Count, Inputs
<1>4. Bounded' = Bounded /\ Consistent' = Consistent
    BY <1>1, <1>2 DEF Bounded, Consistent
<1>5. \A n : ParsedInput(n)' = ParsedInput(n)
    BY <1>2 DEF ParsedInput
<1>6. \A n : /\ ParsesAt(n)' = ParsesAt(n) /\ BackedAt(n)' = BackedAt(n)
             /\ ScannedAt(n)' = ScannedAt(n) /\ ResultAt(n)' = ResultAt(n)
    BY <1>1, <1>2, <1>5 DEF ParsesAt, BackedAt, ScannedAt, ResultAt
<1>7. Rules' = Rules
    BY <1>1, <1>2, <1>3, <1>4, <1>5 DEF Rules, BrokenRules, ReservedRules
<1> QED BY <1>1, <1>2, <1>3, <1>4, <1>5, <1>6, <1>7

-----------------------------------------------------------------------------
(* The invariant.                                                          *)

LEMMA InvInit == Init => IInv
<1> SUFFICES ASSUME Init PROVE IInv
    OBVIOUS
<1>1. Count \in Nat
    BY ProofAssumption DEF Init, Count, to_sign
<1>4. Formats
    <2>1. proof.format \in {"smp", "ful", "pof"}
        BY ProofAssumption DEF Init
    <2>2. \A n \in 1 .. Len(ProofToSign(address, message, proof).tx.input) :
              InputOK(ProofToSign(address, message, proof), n)
        BY ProofAssumption DEF Init
    <2>3. \A n \in Inputs : InputOK(to_sign, n)
        BY <2>2 DEF Inputs, Count, to_sign
    <2> QED BY <2>1, <2>3 DEF Formats
<1>2. Control
    BY DEF Init, Control, Passes
<1>3. Progress
    BY DEF Init, Progress, Started, Passes
<1> QED BY <1>1, <1>2, <1>3, <1>4 DEF IInv, Init

(* A verdict of Invalid is right once some input breaks a required rule.   *)
LEMMA InvalidIsRight ==
    ASSUME IInv, Started, Return("Invalid"), NEW n \in Inputs,
           ~ParsesAt(n) \/ ~BackedAt(n) \/ ~ScannedAt(n) \/ ResultAt(n) = "invalid"
    PROVE  IInv'
<1>1. Bounded /\ Consistent /\ rules = Rules
    BY DEF IInv, Progress
<1>2. BrokenRules # {}
    BY <1>1, BrokenByARule
<1>3. V!Outcome = "Invalid"
    BY <1>1, <1>2 DEF V!Outcome, Rules
<1>4. V!Outcome' = V!Outcome
    BY DEF Return, question, V!Outcome
<1>5. UNCHANGED question /\ pc' = "done" /\ verdict' = "Invalid" /\ inconclusive' = inconclusive
    BY DEF Return
<1>6. Control'
    BY <1>5 DEF IInv, Control, Passes
<1>7. Progress'
    BY <1>5 DEF Progress, Started, Passes
<1>8. rules' = Rules' /\ Count' = Count /\ Formats' = Formats
    BY <1>1, <1>5, QuestionKept DEF Formats
<1> QED BY <1>3, <1>4, <1>5, <1>6, <1>7, <1>8 DEF IInv

LEMMA CheckProofStep == IInv /\ CheckProof => IInv'
<1> SUFFICES ASSUME IInv, CheckProof PROVE IInv'
    OBVIOUS
<1>1. pc = "check" /\ verdict = "pending" /\ rules = Rules /\ i = 1 /\ spends = << >>
      /\ inconclusive = FALSE /\ UNCHANGED question
    BY DEF CheckProof, IInv, Control, Passes, Return
<1>2. rules' = Rules' /\ Count' = Count /\ Bounded' = Bounded /\ Consistent' = Consistent
      /\ Inputs' = Inputs /\ Formats'
    BY <1>1, QuestionKept DEF IInv, Formats
<1>3. CASE ~Bounded \/ ~Consistent
    <2>1. pc' = "done" /\ verdict' \in {"Inconclusive", "Invalid"} /\ inconclusive' = inconclusive
        BY <1>3, <1>1 DEF CheckProof, Return
    <2>2. Control' /\ Progress'
        BY <2>1, <1>1 DEF Control, Progress, Started, Passes
    <2>3. verdict' = V!Outcome
        BY <1>1, <1>3, <2>1 DEF CheckProof, Return, V!Outcome, Rules, BrokenRules
    <2>4. V!Outcome' = V!Outcome
        BY <1>1 DEF question, V!Outcome
    <2> QED BY <1>2, <2>1, <2>2, <2>3, <2>4 DEF IInv
<1>4. CASE Bounded /\ Consistent
    <2>1. pc' = "parse" /\ i' = 1 /\ spends' = << >> /\ verdict' = "pending"
          /\ inconclusive' = FALSE
        BY <1>4, <1>1 DEF CheckProof, Return
    <2>2. Count \in Nat \ {0}
        BY <1>4, ConsistentHasInput DEF IInv, Formats
    <2>3. Control'
        <3>1. 1 \in Inputs'
            BY <2>2, <1>2 DEF Inputs
        <3> QED BY <2>1, <3>1 DEF Control, Passes
    <2>4. /\ Seen("parse")' = {} /\ Seen("backing")' = {}
          /\ Seen("codeseparator")' = {} /\ Seen("verify")' = {}
        BY <2>1 DEF Seen, Done
    <2>5. [n \in {} |-> ParsedInput(n)'] = << >>
        OBVIOUS
    <2>6. Progress'
        BY <2>1, <2>4, <2>5, <1>2, <1>4 DEF Progress
    <2> QED BY <1>2, <2>1, <2>2, <2>3, <2>6 DEF IInv, Formats
<1> QED BY <1>3, <1>4

(* The pass that looks at input i, which keeps its rule, goes on.          *)
LEMMA AdvanceStep ==
    ASSUME IInv, pc \in Passes, NEW pass \in Passes \cup {"return"}, Advance(pass)
    PROVE  /\ IF i = Count THEN pc' = pass /\ i' = 1 ELSE pc' = pc /\ i' = i + 1
           /\ i' \in Inputs' /\ (1 .. (i' - 1)) = (IF i = Count THEN {} ELSE 1 .. i)
           /\ i = Count => 1 .. i = Inputs
           /\ i \in Inputs /\ 1 .. i = (1 .. (i - 1)) \cup {i}
           /\ rules' = Rules' /\ Count' = Count /\ Inputs' = Inputs /\ Formats'
           /\ Count \in Nat \ {0} /\ verdict' = "pending"
<1>1. i \in Inputs /\ Count \in Nat \ {0} /\ rules = Rules /\ verdict = "pending"
    BY DEF IInv, Control, Passes
<1>2. rules' = Rules' /\ Count' = Count /\ Inputs' = Inputs /\ Formats'
    BY <1>1, QuestionKept DEF Advance, IInv, Formats
<1> QED BY <1>1, <1>2 DEF Advance, Inputs

LEMMA ParseInputStep == IInv /\ ParseInput => IInv'
<1> SUFFICES ASSUME IInv, ParseInput PROVE IInv'
    OBVIOUS
<1> DEFINE pass == IF proof.format = "pof" THEN "backing" ELSE "codeseparator"
<1>1. pc = "parse" /\ Started /\ i \in Inputs /\ Count \in Nat \ {0}
    BY DEF ParseInput, Started, IInv, Control, Passes
<1>2. /\ Seen("parse") = 1 .. (i - 1) /\ Seen("backing") = {}
      /\ Seen("codeseparator") = {} /\ Seen("verify") = {}
    BY <1>1 DEF Seen, Done
<1>3. CASE ~ParsesAt(i)
    <2>1. Return("Invalid")
        BY <1>3 DEF ParseInput, ParsesAt, ParsedInput
    <2> QED BY <1>1, <1>3, <2>1, InvalidIsRight
<1>4. CASE ParsesAt(i)
    <2>1. /\ spends' = Append(spends, ParsedInput(i))
          /\ Advance(pass) /\ inconclusive' = inconclusive
        BY <1>4 DEF ParseInput, ParsesAt, ParsedInput
    <2>2. pass \in Passes \cup {"return"} /\ pc \in Passes
        BY <1>1 DEF Passes
    <2> HIDE DEF pass
    <2>3. /\ IF i = Count THEN pc' = pass /\ i' = 1 ELSE pc' = pc /\ i' = i + 1
          /\ i' \in Inputs' /\ (1 .. (i' - 1)) = (IF i = Count THEN {} ELSE 1 .. i)
          /\ i = Count => 1 .. i = Inputs
          /\ 1 .. i = (1 .. (i - 1)) \cup {i}
          /\ rules' = Rules' /\ Count' = Count /\ Inputs' = Inputs /\ Formats'
          /\ verdict' = "pending"
        BY <2>1, <2>2, AdvanceStep
    <2>4. /\ Bounded' = Bounded /\ Consistent' = Consistent /\ proof' = proof
          /\ \A n : /\ ParsedInput(n)' = ParsedInput(n) /\ ParsesAt(n)' = ParsesAt(n)
                    /\ BackedAt(n)' = BackedAt(n)
        BY <2>1, QuestionKept DEF Advance
    <2>5. /\ Seen("parse")' = 1 .. i
          /\ Seen("backing")' # {} => proof.format # "pof"
          /\ Seen("codeseparator")' = {} /\ Seen("verify")' = {}
        BY <1>1, <2>3 DEF Seen, Done, pass
    <2>6. spends' = [n \in 1 .. i |-> ParsedInput(n)]
        <3>1. spends = [n \in 1 .. (i - 1) |-> ParsedInput(n)]
            BY <1>1, <1>2 DEF IInv, Progress
        <3>2. i \in Nat \ {0}
            BY <1>1 DEF Inputs
        <3> QED BY <2>1, <3>1, <3>2
    <2>7. \A n \in 1 .. i : ParsesAt(n)
        BY <1>1, <1>2, <1>4, <2>3 DEF IInv, Progress
    <2>8. \A n : proof.format # "pof" => BackedAt(n)
        BY DEF BackedAt
    <2>9. inconclusive = FALSE /\ Bounded /\ Consistent
        BY <1>1, <1>2 DEF IInv, Progress, Control
    <2>10. Progress'
        BY <2>1, <2>4, <2>5, <2>6, <2>7, <2>8, <2>9 DEF Progress
    <2>11. Control'
        BY <1>1, <2>1, <2>3, <2>4, <2>9 DEF Control, Passes, pass
    <2>12. pc' \in Passes
        BY <1>1, <2>3 DEF Passes, pass
    <2> QED BY <2>3, <2>10, <2>11, <2>12, <1>1 DEF IInv, Passes
<1> QED BY <1>3, <1>4

(* Between the first pass and the last, spends is all of the inputs parsed.*)
LEMMA SpendsAreParsed ==
    ASSUME IInv, pc \in Passes \ {"parse"}
    PROVE  /\ Started /\ i \in Inputs /\ spends[i] = ParsedInput(i)
           /\ Seen("parse") = Inputs
           /\ Bounded /\ Consistent /\ \A n \in Inputs : ParsesAt(n)
           /\ spends = [n \in Inputs |-> ParsedInput(n)]
           /\ inconclusive \in BOOLEAN
<1>1. Started /\ i \in Inputs
    BY DEF IInv, Control, Started
<1>2. Seen("parse") = Inputs
    BY DEF Seen, Done, Passes
<1> QED BY <1>1, <1>2 DEF IInv, Progress, Control

(* A pass goes on from an input that keeps its rule.                       *)
LEMMA PassStep ==
    ASSUME IInv, NEW pass,
           \/ /\ pc = "backing" /\ pass = "codeseparator" /\ BackedAt(i)
              /\ inconclusive' = inconclusive
           \/ /\ pc = "codeseparator" /\ pass = "verify" /\ ScannedAt(i)
              /\ inconclusive' = inconclusive
           \/ /\ pc = "verify" /\ pass = "return" /\ ResultAt(i) # "invalid"
              /\ inconclusive' = (inconclusive \/ ResultAt(i) = "inconclusive"),
           Advance(pass), UNCHANGED spends
    PROVE  IInv'
<1>1. pc \in Passes \ {"parse"} /\ pass \in Passes \cup {"return"}
    BY DEF Passes
<1>2. /\ i \in Inputs /\ Seen("parse") = Inputs
      /\ Bounded /\ Consistent /\ \A n \in Inputs : ParsesAt(n)
      /\ spends = [n \in Inputs |-> ParsedInput(n)]
      /\ inconclusive \in BOOLEAN /\ Started
    BY <1>1, SpendsAreParsed
<1>3. /\ IF i = Count THEN pc' = pass /\ i' = 1 ELSE pc' = pc /\ i' = i + 1
      /\ i' \in Inputs' /\ (1 .. (i' - 1)) = (IF i = Count THEN {} ELSE 1 .. i)
      /\ i = Count => 1 .. i = Inputs
      /\ 1 .. i = (1 .. (i - 1)) \cup {i}
      /\ rules' = Rules' /\ Count' = Count /\ Inputs' = Inputs /\ Formats'
      /\ Count \in Nat \ {0} /\ verdict' = "pending"
    BY <1>1, AdvanceStep
<1>4. /\ Bounded' = Bounded /\ Consistent' = Consistent /\ proof' = proof
      /\ \A n : /\ ParsedInput(n)' = ParsedInput(n) /\ ParsesAt(n)' = ParsesAt(n)
                /\ BackedAt(n)' = BackedAt(n) /\ ScannedAt(n)' = ScannedAt(n)
                /\ ResultAt(n)' = ResultAt(n)
    BY QuestionKept DEF Advance
<1>5. pc' \in {"backing", "codeseparator", "verify", "return"}
    BY <1>3
<1>6. Seen("parse")' = Inputs
    BY <1>3, <1>5 DEF Seen, Done, Passes
<1>7. \A n \in Seen("backing")' : BackedAt(n)
    <2>1. CASE pc = "backing"
        <3>1. Seen("backing")' = 1 .. i /\ Seen("backing") = 1 .. (i - 1)
            BY <2>1, <1>3 DEF Seen, Done, Passes
        <3> QED BY <2>1, <3>1, <1>2, <1>3 DEF IInv, Progress
    <2>2. CASE pc # "backing"
        <3>1. Seen("backing")' = Inputs /\ Seen("backing") = Inputs
            BY <2>2, <1>1, <1>3 DEF Seen, Done, Passes
        <3> QED BY <3>1, <1>2 DEF IInv, Progress
    <2> QED BY <2>1, <2>2
<1>8. \A n \in Seen("codeseparator")' : ScannedAt(n)
    <2>1. CASE pc = "backing"
        <3>1. Seen("codeseparator")' = {}
            BY <2>1, <1>3 DEF Seen, Done, Passes
        <3> QED BY <3>1
    <2>2. CASE pc = "codeseparator"
        <3>1. /\ Seen("codeseparator")' = 1 .. i
              /\ Seen("codeseparator") = 1 .. (i - 1)
            BY <2>2, <1>3 DEF Seen, Done, Passes
        <3> QED BY <2>2, <3>1, <1>2, <1>3 DEF IInv, Progress
    <2>3. CASE pc = "verify"
        <3>1. Seen("codeseparator")' = Inputs /\ Seen("codeseparator") = Inputs
            BY <2>3, <1>3 DEF Seen, Done, Passes
        <3> QED BY <3>1, <1>2 DEF IInv, Progress
    <2> QED BY <1>1, <2>1, <2>2, <2>3 DEF Passes
<1>9. /\ \A n \in Seen("verify")' : ResultAt(n) # "invalid"
      /\ inconclusive' <=> \E n \in Seen("verify")' : ResultAt(n) = "inconclusive"
    <2>1. CASE pc # "verify"
        <3>1. Seen("verify")' = {} /\ Seen("verify") = {}
            BY <2>1, <1>1, <1>3 DEF Seen, Done, Passes
        <3> QED BY <2>1, <3>1, <1>2 DEF IInv, Progress
    <2>2. CASE pc = "verify"
        <3>1. Seen("verify")' = 1 .. i /\ Seen("verify") = 1 .. (i - 1)
            BY <2>2, <1>3 DEF Seen, Done, Passes
        <3> QED BY <2>2, <3>1, <1>2, <1>3 DEF IInv, Progress
    <2> QED BY <2>1, <2>2
<1>10. Progress'
    <2>1. spends' = [n \in Inputs |-> ParsedInput(n)]
        BY <1>2
    <2> QED BY <1>2, <1>4, <1>6, <1>7, <1>8, <1>9, <2>1 DEF Progress
<1>11. Control'
    <2>1. inconclusive' \in BOOLEAN
        BY <1>2
    <2>2. pc' = "backing" => pc = "backing"
        BY <1>3
    <2> QED BY <1>3, <1>4, <1>5, <2>1, <2>2 DEF Control, Passes, IInv
<1> QED BY <1>3, <1>5, <1>10, <1>11 DEF IInv

LEMMA CheckBackingStep == IInv /\ CheckBacking => IInv'
<1> SUFFICES ASSUME IInv, CheckBacking PROVE IInv'
    OBVIOUS
<1>1. pc = "backing" /\ pc \in Passes \ {"parse"}
    BY DEF CheckBacking, Passes
<1>2. Started /\ i \in Inputs /\ spends[i] = ParsedInput(i) /\ proof.format = "pof"
    BY <1>1, SpendsAreParsed DEF IInv, Control
<1>3. CASE ~BackedAt(i)
    <2>1. Return("Invalid")
        BY <1>2, <1>3 DEF CheckBacking, BackedAt
    <2> QED BY <1>2, <1>3, <2>1, InvalidIsRight
<1>4. CASE BackedAt(i)
    <2>1. Advance("codeseparator") /\ UNCHANGED <<spends, inconclusive>>
        BY <1>2, <1>4 DEF CheckBacking, BackedAt
    <2> QED BY <1>1, <1>4, <2>1, PassStep
<1> QED BY <1>3, <1>4

LEMMA ScanCodeseparatorStep == IInv /\ ScanCodeseparator => IInv'
<1> SUFFICES ASSUME IInv, ScanCodeseparator PROVE IInv'
    OBVIOUS
<1>1. pc = "codeseparator" /\ pc \in Passes \ {"parse"}
    BY DEF ScanCodeseparator, Passes
<1>2. Started /\ i \in Inputs /\ spends[i] = ParsedInput(i)
    BY <1>1, SpendsAreParsed
<1>3. CASE ~ScannedAt(i)
    <2>1. Return("Invalid")
        BY <1>2, <1>3 DEF ScanCodeseparator, ScannedAt
    <2> QED BY <1>2, <1>3, <2>1, InvalidIsRight
<1>4. CASE ScannedAt(i)
    <2>1. Advance("verify") /\ UNCHANGED <<spends, inconclusive>>
        BY <1>2, <1>4 DEF ScanCodeseparator, ScannedAt
    <2> QED BY <1>1, <1>4, <2>1, PassStep
<1> QED BY <1>3, <1>4

LEMMA VerifyNextStep == IInv /\ VerifyNext => IInv'
<1> SUFFICES ASSUME IInv, VerifyNext PROVE IInv'
    OBVIOUS
<1>1. pc = "verify" /\ pc \in Passes \ {"parse"}
    BY DEF VerifyNext, Passes
<1>2. Started /\ i \in Inputs /\ spends[i] = ParsedInput(i)
    BY <1>1, SpendsAreParsed
<1>3. CASE ResultAt(i) = "invalid"
    <2>1. Return("Invalid")
        BY <1>2, <1>3 DEF VerifyNext, ResultAt
    <2> QED BY <1>2, <1>3, <2>1, InvalidIsRight
<1>4. CASE ResultAt(i) # "invalid"
    <2>1. /\ inconclusive' = (inconclusive \/ ResultAt(i) = "inconclusive")
          /\ Advance("return") /\ UNCHANGED spends
        BY <1>2, <1>4 DEF VerifyNext, ResultAt
    <2> QED BY <1>1, <1>4, <2>1, PassStep
<1> QED BY <1>3, <1>4

LEMMA ReturnVerdictStep == IInv /\ ReturnVerdict => IInv'
<1> SUFFICES ASSUME IInv, ReturnVerdict PROVE IInv'
    OBVIOUS
<1>1. pc = "return" /\ Started
    BY DEF ReturnVerdict, Started
<1>2. /\ Seen("parse") = Inputs /\ Seen("backing") = Inputs
      /\ Seen("codeseparator") = Inputs /\ Seen("verify") = Inputs
    BY <1>1 DEF Seen, Done, Passes
<1>3. Bounded /\ Consistent /\ rules = Rules /\ BrokenRules = {}
    BY <1>1, <1>2, BrokenByARule DEF IInv, Progress
<1>4. ReservedRules = {} <=> ~inconclusive /\ ~ReservedVersion
    BY <1>1, <1>2, ReservedByARule DEF IInv, Progress
<1>5. /\ verdict' = IF inconclusive \/ ReservedVersion THEN "Inconclusive" ELSE "Valid"
      /\ pc' = "done" /\ UNCHANGED <<question, inconclusive>>
    BY DEF ReturnVerdict, Return, ReservedVersion
<1>6. verdict' = V!Outcome /\ V!Outcome' = V!Outcome
    BY <1>3, <1>4, <1>5 DEF V!Outcome, Rules, question
<1>7. Control' /\ Progress'
    BY <1>5 DEF Control, Progress, Started, Passes, IInv
<1>8. rules' = Rules' /\ Count' = Count /\ Formats'
    BY <1>3, <1>5, QuestionKept DEF IInv, Formats
<1> QED BY <1>5, <1>6, <1>7, <1>8 DEF IInv

LEMMA Invariant == Spec => []IInv
<1>1. Init => IInv
    BY InvInit
<1>2. IInv /\ [Next]_vars => IInv'
    <2> SUFFICES ASSUME IInv, [Next]_vars PROVE IInv'
        OBVIOUS
    <2>1. CASE Next
        BY <2>1, CheckProofStep, ParseInputStep, CheckBackingStep,
           ScanCodeseparatorStep, VerifyNextStep, ReturnVerdictStep DEF Next
    <2>2. CASE UNCHANGED vars
        <3>1. UNCHANGED <<question, pc, i, spends, inconclusive, verdict>>
            BY <2>2 DEF vars
        <3>2. /\ Rules' = Rules /\ Count' = Count /\ Inputs' = Inputs /\ rules' = rules
              /\ Bounded' = Bounded /\ Consistent' = Consistent /\ proof' = proof
              /\ to_sign' = to_sign
              /\ \A n : /\ ParsedInput(n)' = ParsedInput(n) /\ ParsesAt(n)' = ParsesAt(n)
                        /\ BackedAt(n)' = BackedAt(n) /\ ScannedAt(n)' = ScannedAt(n)
                        /\ ResultAt(n)' = ResultAt(n)
            BY <3>1, QuestionKept
        <3>3. /\ Seen("parse")' = Seen("parse") /\ Seen("backing")' = Seen("backing")
              /\ Seen("codeseparator")' = Seen("codeseparator")
              /\ Seen("verify")' = Seen("verify")
            BY <3>1, <3>2 DEF Seen, Done
        <3>4. Progress'
            BY <3>1, <3>2, <3>3 DEF IInv, Progress, Started
        <3>5. Control' /\ Formats'
            BY <3>1, <3>2 DEF IInv, Control, Formats
        <3>6. V!Outcome' = V!Outcome
            BY <3>2 DEF V!Outcome
        <3> QED BY <3>1, <3>2, <3>4, <3>5, <3>6 DEF IInv
    <2> QED BY <2>1, <2>2
<1> QED BY <1>1, <1>2, PTL DEF Spec

-----------------------------------------------------------------------------

(* The passes stay within the inputs, and those behind the first one have  *)
(* every input's spend at hand (parse_spends and the zips of verify_spends).*)
THEOREM TypeCorrect == Spec => []TypeOK
<1>1. IInv => TypeOK
    <2> SUFFICES ASSUME IInv PROVE TypeOK
        OBVIOUS
    <2>1. pc \in Passes => i \in 1 .. Count
        BY DEF IInv, Control, Inputs
    <2>2. Count \in Nat
        BY DEF IInv
    <2>3. CASE pc = "parse"
        <3>1. Seen("parse") = 1 .. (i - 1) /\ i \in 1 .. Count
            BY <2>1, <2>3 DEF Seen, Done, Passes
        <3>2. spends = [n \in 1 .. (i - 1) |-> ParsedInput(n)]
            BY <2>3, <3>1 DEF IInv, Progress, Started, Passes
        <3>3. Len(spends) = i - 1
            BY <2>2, <3>1, <3>2
        <3> QED BY <2>1, <2>3, <3>3 DEF TypeOK, IInv, Control
    <2>4. CASE pc \in Passes \ {"parse"}
        <3>1. spends = [n \in 1 .. Count |-> ParsedInput(n)]
            BY <2>4, SpendsAreParsed DEF Inputs
        <3>2. Len(spends) = Count
            BY <2>2, <3>1
        <3> QED BY <2>1, <2>4, <3>2 DEF TypeOK, IInv, Control
    <2>5. CASE pc \notin Passes
        BY <2>5 DEF TypeOK, IInv, Control
    <2> QED BY <2>3, <2>4, <2>5
<1> QED BY <1>1, Invariant, PTL

(* Whatever inputs, formats and rules, the four passes decide as the rules *)
(* taken together do, once, and for good (verify_spends: required rules    *)
(* take precedence over upgradeable ones).  That a verdict comes is left to*)
(* the runs, which check all of MeetsVerdict.                              *)
THEOREM VerdictIsTheRules == Spec => V!Safety
<1>1. Init => V!Init
    BY DEF Init, V!Init
<1>2. IInv /\ IInv' /\ [Next]_vars => [V!Next]_V!vars
    <2> SUFFICES ASSUME IInv, IInv', [Next]_vars PROVE [V!Next]_V!vars
        OBVIOUS
    <2>1. rules' = rules
        BY DEF Next, vars, question, CheckProof, ParseInput, CheckBacking,
               ScanCodeseparator, VerifyNext, ReturnVerdict, Return, Advance
    <2>2. V!Outcome' = V!Outcome
        BY <2>1 DEF V!Outcome
    <2>3. CASE pc # "done" /\ pc' = "done"
        <3>1. verdict = "pending" /\ verdict' = V!Outcome
            BY <2>2, <2>3 DEF IInv, Control
        <3> QED BY <2>1, <3>1 DEF V!Next, V!Decide, V!proof
    <2>4. CASE pc = "done" \/ pc' # "done"
        <3>1. verdict' = verdict
            BY <2>4 DEF Next, vars, CheckProof, ParseInput, CheckBacking,
                        ScanCodeseparator, VerifyNext, ReturnVerdict, Return, Advance
        <3> QED BY <2>1, <3>1 DEF V!vars, V!proof
    <2> QED BY <2>3, <2>4
<1> QED BY <1>1, <1>2, Invariant, PTL DEF Spec, V!Safety

(* A Valid verdict is owed to signatures which authorise every input's     *)
(* output, whatever the proof, the scripts and the number of inputs        *)
(* (verify_input and all it calls, under verify_spends' passes).           *)
THEOREM ValidAuthorised == Spec => []ValidIsAuthorised
<1>1. IInv => ValidIsAuthorised
    <2> SUFFICES ASSUME IInv, verdict = "Valid", NEW n \in Inputs
                 PROVE  OutputAuthorised(prevouts[n].script_pubkey,
                                         SignersOf(to_sign, prevouts, n))
        BY DEF ValidIsAuthorised, Inputs
    <2>1. V!Outcome = "Valid" /\ rules = Rules
        BY DEF IInv, Control
    <2>2. Bounded /\ BrokenRules = {} /\ ReservedRules = {}
        BY <2>1 DEF V!Outcome, Rules
    <2>3. Consistent
        BY <2>2 DEF BrokenRules
    <2>4. \A m \in Inputs : ParsesAt(m) /\ ResultAt(m) # "invalid"
        BY <2>2, <2>3, BrokenByARule
    <2>5. ResultAt(n) # "inconclusive"
        BY <2>2, <2>3, <2>4, ReservedByARule
    <2>6. InputOK(to_sign, n) /\ Parse(to_sign, prevouts, n) # Malformed
        BY <2>4 DEF IInv, Formats, ParsesAt, ParsedInput
    <2>7. VerifyInput(to_sign, prevouts, n, Parse(to_sign, prevouts, n)) = "valid"
        BY <2>4, <2>5, <2>6, ThreeOutcomes DEF ResultAt, ParsedInput
    <2> QED BY <2>6, <2>7, ValidInputIsAuthorised
<1> QED BY <1>1, Invariant, PTL

(* The verifier gives up on no proof that it has a rule for: Inconclusive  *)
(* takes a proof beyond the bound, a reserved version, or an input that    *)
(* shows something reserved, for every proof (Verification::Inconclusive). *)
THEOREM InconclusiveReserved == Spec => []InconclusiveIsReserved
<1>1. IInv => InconclusiveIsReserved
    <2> SUFFICES ASSUME IInv, verdict = "Inconclusive", Bounded,
                        to_sign.tx.version \in {0, 2}
                 PROVE  \E n \in Inputs : ReservedInput(to_sign, prevouts, n)
        BY DEF InconclusiveIsReserved, Inputs
    <2>1. V!Outcome = "Inconclusive" /\ rules = Rules
        BY DEF IInv, Control
    <2>2. BrokenRules = {} /\ ReservedRules # {}
        BY <2>1 DEF V!Outcome, Rules
    <2>3. Consistent
        BY <2>2 DEF BrokenRules
    <2>4. \A m \in Inputs : ParsesAt(m)
        BY <2>2, <2>3, BrokenByARule
    <2>5. PICK n \in Inputs : ResultAt(n) = "inconclusive"
        BY <2>2, <2>3, <2>4, ReservedByARule DEF ReservedVersion
    <2>6. InputOK(to_sign, n) /\ Parse(to_sign, prevouts, n) # Malformed
        BY <2>4 DEF IInv, Formats, ParsesAt, ParsedInput
    <2>7. VerifyInput(to_sign, prevouts, n, Parse(to_sign, prevouts, n)) = "inconclusive"
        BY <2>5 DEF ResultAt, ParsedInput
    <2> QED BY <2>6, <2>7, InconclusiveInputIsReserved
<1> QED BY <1>1, Invariant, PTL

(* A proof whose inputs are satisfied as their scripts ask is Valid, for   *)
(* scripts of any length and any number of inputs (verify_spends and all it*)
(* calls): with ValidAuthorised, the rules are neither too lax nor too     *)
(* strict.                                                                 *)
THEOREM SatisfiedValid == Spec => []SatisfiedIsValid
<1>1. IInv => SatisfiedIsValid
    <2> SUFFICES ASSUME IInv, pc = "done", Consistent, to_sign.tx.version \in {0, 2},
                        proof.format = "pof" => Count <= MaxProofInputs,
                        \A n \in Inputs :
                            /\ InputSatisfied(to_sign, prevouts, n)
                            /\ proof.format = "pof" =>
                                   \/ Algorithm(prevouts[n].script_pubkey) # "legacy"
                                   \/ HasNonWitness(proof.psbt, n)
                 PROVE  verdict = "Valid"
        BY DEF SatisfiedIsValid, Inputs
    <2>1. Bounded
        <3>1. proof.format = "pof" =>
                  to_sign.tx = proof.psbt.unsigned_tx /\ Count <= MaxProofInputs
            BY DEF to_sign, ProofToSign, ExtractTx
        <3>2. Count \in Nat
            BY DEF IInv
        <3> QED BY <3>1, <3>2, LimitAssumption DEF Bounded, TooManyInputs, Count
    <2>2. \A n \in Inputs : Accepted(to_sign, prevouts, n, ParsedInput(n))
        BY SatisfiedInputIsValid DEF IInv, Formats, ParsedInput
    <2>3. \A n \in Inputs : ParsesAt(n) /\ ScannedAt(n) /\ ResultAt(n) = "valid"
        BY <2>2 DEF Accepted, ParsesAt, ScannedAt, ResultAt
    <2>4. \A n \in Inputs : BackedAt(n)
        BY <2>2 DEF Accepted, BackedAt, Backed
    <2>5. BrokenRules = {}
        BY <2>3, <2>4, BrokenByARule
    <2>6. ReservedRules = {}
        BY <2>3, ReservedByARule DEF ReservedVersion
    <2>7. V!Outcome = "Valid"
        BY <2>1, <2>5, <2>6 DEF IInv, Rules, V!Outcome
    <2> QED BY <2>7 DEF IInv
<1> QED BY <1>1, Invariant, PTL
=============================================================================
