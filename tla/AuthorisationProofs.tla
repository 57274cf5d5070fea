------------------------- MODULE AuthorisationProofs -------------------------
(***************************************************************************)
(* What the evaluation of one input establishes, for scripts, stacks and   *)
(* proofs of any size: whichever template, tapscript or chain of the       *)
(* interpreter takes a spend, an input comes out valid only if its output  *)
(* is authorised by signatures that the input shows, inconclusive only if  *)
(* it shows something reserved, and valid whenever it is satisfied as its  *)
(* scripts ask.  At the end, what a created PSBT gains when the signer adds*)
(* to it, which the session and direct signing are both compared with.     *)
(***************************************************************************)
EXTENDS Authorisation, FiniteSetTheorems, SequenceTheorems, WellFoundedInduction, TLAPS

-----------------------------------------------------------------------------
(* Numbers, and how long a scriptSig is.                                   *)

(* Some numbers have a least one.                                          *)
LEMMA LeastOf ==
    ASSUME NEW T, T \subseteq Nat, T # {}
    PROVE  \E j \in T : \A h \in T : j <= h
<1>1. PICK x \in T : \A y \in T : ~ (<<y, x>> \in OpToRel(<, Nat))
    BY WFMin, NatLessThanWellFounded, Zenon
<1>2. \A y \in T : ~(y < x)
    BY <1>1, Zenon DEF OpToRel
<1> QED BY <1>2

(* What holds at the start, and of the next whenever of the one before.    *)
LEMMA ReachesUpTo ==
    ASSUME NEW T, NEW size \in Nat, 0 \in T,
           \A m \in 0 .. size : m # size /\ m \in T => m + 1 \in T
    PROVE  0 .. size \subseteq T
<1> DEFINE missing == (0 .. size) \ T
<1>1. SUFFICES ASSUME missing # {} PROVE FALSE
    OBVIOUS
<1>2. missing \subseteq Nat
    OBVIOUS
<1>3. PICK least \in missing : \A h \in missing : least <= h
    BY <1>1, <1>2, LeastOf
<1>4. /\ least - 1 \in 0 .. size /\ least - 1 # size /\ ~(least <= least - 1)
      /\ least - 1 + 1 = least
    BY <1>3
<1>5. least - 1 \in T
    BY <1>3, <1>4
<1> QED BY <1>3, <1>4, <1>5

ScriptSigPrefix(f, script_sig, m) ==
    f = [j \in 0 .. m |-> IF j = 0 THEN 0 ELSE f[j - 1] + PushLen(script_sig[j])]

(* The recursive definition has the values that it describes.              *)
LEMMA ScriptSigOneMore ==
    ASSUME NEW script_sig, NEW m \in Nat, NEW f, ScriptSigPrefix(f, script_sig, m)
    PROVE  \E g : ScriptSigPrefix(g, script_sig, m + 1)
<1> DEFINE new == f[m] + PushLen(script_sig[m + 1])
           g == [j \in 0 .. m + 1 |-> IF j = m + 1 THEN new ELSE f[j]]
<1> HIDE DEF new
<1>1. f = [j \in 0 .. m |-> IF j = 0 THEN 0 ELSE f[j - 1] + PushLen(script_sig[j])]
    BY DEF ScriptSigPrefix
<1>2. \A j \in 0 .. m + 1 : j # 0 => g[j - 1] = f[j - 1]
    OBVIOUS
<1>3. ASSUME NEW j \in 0 .. m + 1
      PROVE  g[j] = IF j = 0 THEN 0 ELSE g[j - 1] + PushLen(script_sig[j])
    <2>1. CASE j = m + 1
        <3>1. g[j] = new /\ j # 0 /\ j - 1 = m
            BY <2>1
        <3>2. new = f[m] + PushLen(script_sig[j]) /\ g[j - 1] = f[m]
            BY <1>2, <2>1, <3>1 DEF new
        <3> QED BY <3>1, <3>2
    <2>2. CASE j # m + 1
        <3>1. j \in 0 .. m /\ g[j] = f[j]
            BY <2>2
        <3> HIDE DEF g
        <3>2. f[j] = IF j = 0 THEN 0 ELSE f[j - 1] + PushLen(script_sig[j])
            BY <1>1, <3>1
        <3> QED BY <1>2, <3>1, <3>2
    <2> QED BY <2>1, <2>2
<1>4. g = [j \in 0 .. m + 1 |-> g[j]]
    OBVIOUS
<1> HIDE DEF g
<1>5. ScriptSigPrefix(g, script_sig, m + 1)
    BY <1>3, <1>4 DEF ScriptSigPrefix
<1> QED BY <1>5

LEMMA ScriptSigValues ==
    ASSUME NEW script_sig, Len(script_sig) \in Nat
    PROVE  \E f : /\ ScriptSigLen(script_sig) = f[Len(script_sig)]
                  /\ f[0] = 0
                  /\ \A j \in 1 .. Len(script_sig) : f[j] = f[j - 1] + PushLen(script_sig[j])
<1> DEFINE size == Len(script_sig)
           T == { m \in 0 .. size : \E f : ScriptSigPrefix(f, script_sig, m) }
<1>1. 0 \in T
    <2> DEFINE f == [j \in 0 .. 0 |-> 0]
    <2>1. ScriptSigPrefix(f, script_sig, 0)
        BY DEF ScriptSigPrefix
    <2> QED BY <2>1
<1>2. ASSUME NEW m \in 0 .. size, m # size, m \in T PROVE m + 1 \in T
    <2>1. m \in Nat /\ m + 1 \in 0 .. size
        BY <1>2
    <2>2. \E g : ScriptSigPrefix(g, script_sig, m + 1)
        BY <1>2, <2>1, ScriptSigOneMore
    <2> QED BY <2>1, <2>2
<1>3. size \in T
    <2> HIDE DEF T
    <2>1. size \in 0 .. size /\ 0 .. size \subseteq T
        BY <1>1, <1>2, ReachesUpTo
    <2> QED BY <2>1
<1>4. \E f : ScriptSigPrefix(f, script_sig, size)
    BY <1>3
<1> DEFINE upto == CHOOSE f : f = [j \in 0 .. Len(script_sig) |->
                       IF j = 0 THEN 0 ELSE f[j - 1] + PushLen(script_sig[j])]
<1>5. upto = [j \in 0 .. size |-> IF j = 0 THEN 0 ELSE upto[j - 1] + PushLen(script_sig[j])]
    <2>1. PICK g : g = [j \in 0 .. Len(script_sig) |->
                       IF j = 0 THEN 0 ELSE g[j - 1] + PushLen(script_sig[j])]
        BY <1>4 DEF ScriptSigPrefix
    <2> QED BY <2>1
<1>6. ScriptSigLen(script_sig) = upto[size]
    BY DEF ScriptSigLen
<1> HIDE DEF upto
<1>7. 0 \in 0 .. size /\ \A j \in 1 .. size : j \in 0 .. size /\ j # 0
    OBVIOUS
<1> HIDE DEF size
<1>8. upto[0] = 0
    BY <1>5, <1>7
<1>9. \A j \in 1 .. size : upto[j] = upto[j - 1] + PushLen(script_sig[j])
    BY <1>5, <1>7
<1> QED BY <1>6, <1>8, <1>9 DEF size

LEMMA EmptyScriptSig ==
    ASSUME NEW script_sig, script_sig = << >>
    PROVE  ScriptSigLen(script_sig) = 0
<1>1. Len(script_sig) = 0
    OBVIOUS
<1> QED BY <1>1, ScriptSigValues

(* Signatures, keys and OP_0 are within every limit.                       *)
LEMMA ShortItem ==
    ASSUME NEW item, item.kind \in {"signature", "key", "empty"}
    PROVE  ItemLen(item) \in 0 .. 72 /\ ItemLen(item) <= MaxElementSize
<1>1. ItemLen(item) \in 0 .. 72
    BY LimitAssumption DEF ItemLen
<1> QED BY <1>1, LimitAssumption

(* The push of one of them, and of a script.                               *)
LEMMA PushedLen ==
    ASSUME NEW item
    PROVE  /\ item.kind \in {"signature", "key", "empty"} => PushLen(item) \in 0 .. 73
           /\ item.kind = "script" /\ ScriptLen(item.data) \in Nat =>
                  PushLen(item) \in Nat /\ PushLen(item) <= ScriptLen(item.data) + 5
<1>1. CASE item.kind \in {"signature", "key", "empty"}
    <2>1. ItemLen(item) \in 0 .. 72
        BY <1>1, ShortItem
    <2> QED BY <1>1, <2>1 DEF PushLen
<1>2. CASE item.kind = "script" /\ ScriptLen(item.data) \in Nat
    <2>1. ItemLen(item) = ScriptLen(item.data)
        BY <1>2 DEF ItemLen
    <2> QED BY <1>2, <2>1 DEF PushLen
<1> QED BY <1>1, <1>2

(* How long a scriptSig is whose last item may be a long one.              *)
LEMMA ScriptSigBound ==
    ASSUME NEW script_sig, NEW size \in Nat, Len(script_sig) = size + 1,
           \A j \in 1 .. size : PushLen(script_sig[j]) \in 0 .. 73,
           PushLen(script_sig[size + 1]) \in Nat
    PROVE  /\ ScriptSigLen(script_sig) \in Nat
           /\ ScriptSigLen(script_sig) <= 73 * size + PushLen(script_sig[size + 1])
<1>1. PICK f : /\ ScriptSigLen(script_sig) = f[Len(script_sig)]
               /\ f[0] = 0
               /\ \A j \in 1 .. Len(script_sig) : f[j] = f[j - 1] + PushLen(script_sig[j])
    BY ScriptSigValues
<1> DEFINE T == { m \in 0 .. size : f[m] \in 0 .. 73 * m }
<1>2. 0 \in T
    BY <1>1
<1>3. ASSUME NEW m \in 0 .. size, m # size, m \in T PROVE m + 1 \in T
    <2>1. /\ m \in Nat /\ m + 1 \in 0 .. size
          /\ m + 1 \in 1 .. size /\ m + 1 \in 1 .. Len(script_sig) /\ m + 1 - 1 = m
        BY <1>3
    <2>2. f[m + 1] = f[m] + PushLen(script_sig[m + 1])
        BY <1>1, <2>1
    <2>3. f[m] \in 0 .. 73 * m /\ PushLen(script_sig[m + 1]) \in 0 .. 73
        BY <1>3, <2>1
    <2>4. f[m + 1] \in 0 .. 73 * (m + 1)
        <3>1. \A h \in Nat : \A x \in 0 .. 73 * h, y \in 0 .. 73 : x + y \in 0 .. 73 * (h + 1)
            OBVIOUS
        <3> QED BY <2>1, <2>2, <2>3, <3>1, Zenon
    <2> QED BY <2>1, <2>4
<1>4. f[size] \in 0 .. 73 * size
    <2>1. \A m \in 0 .. size : m # size /\ m \in T => m + 1 \in T
        BY <1>3
    <2> HIDE DEF T
    <2>2. 0 .. size \subseteq T
        BY <1>2, <2>1, ReachesUpTo, Zenon
    <2>3. size \in T
        BY <2>2
    <2> QED BY <2>3 DEF T
<1>5. f[size + 1] = f[size] + PushLen(script_sig[size + 1])
    <2>1. size + 1 \in 1 .. Len(script_sig) /\ size + 1 - 1 = size
        OBVIOUS
    <2> QED BY <1>1, <2>1
<1> QED BY <1>1, <1>4, <1>5

-----------------------------------------------------------------------------
(* Items and signers.                                                      *)

LEMMA SequenceOf ==
    ASSUME NEW s, Sequential(s)
    PROVE  /\ s \in Seq(Range(s))
           /\ Len(s) \in Nat /\ DOMAIN s = 1 .. Len(s)
           /\ \A j \in DOMAIN s : s[j] \in Range(s)
<1>1. s \in Seq(Range(s))
    BY DEF Sequential, Range
<1> QED BY <1>1, LenProperties, ElementOfSeq

LEMMA FrontOf ==
    ASSUME NEW S, NEW s \in Seq(S), s # << >>
    PROVE  /\ Front(s) \in Seq(S) /\ Len(Front(s)) = Len(s) - 1
           /\ \A j \in 1 .. Len(s) - 1 : Front(s)[j] = s[j]
<1>1. Len(s) \in Nat /\ Len(s) # 0
    BY EmptySeq, LenProperties
<1>2. \A j \in 1 .. Len(s) - 1 : s[j] \in S
    BY <1>1, ElementOfSeq
<1> DEFINE last == Len(s) - 1
<1>3. last \in Int
    BY <1>1
<1>4. /\ SubSeq(s, 1, last) \in Seq(S)
      /\ Len(SubSeq(s, 1, last)) = IF 1 <= last THEN last - 1 + 1 ELSE 0
      /\ \A j \in 1 .. last - 1 + 1 : SubSeq(s, 1, last)[j] = s[1 + j - 1]
    <2> HIDE DEF last
    <2> QED BY <1>2, <1>3, SubSeqProperties DEF last
<1>5. \A j \in 1 .. Len(s) - 1 : j \in 1 .. last - 1 + 1 /\ 1 + j - 1 = j
    BY <1>1
<1>6. (IF 1 <= last THEN last - 1 + 1 ELSE 0) = Len(s) - 1
    <2>1. \A k \in Nat : k # 0 =>
              (IF 1 <= k - 1 THEN k - 1 - 1 + 1 ELSE 0) = k - 1
        OBVIOUS
    <2> QED BY ONLY <1>1, <2>1 DEF last
<1> QED BY <1>4, <1>5, <1>6 DEF Front

LEMMA Shown ==
    ASSUME NEW to_sign, NEW prevouts, NEW n, NEW item \in ItemsOf(to_sign, n),
           item.kind = "signature", CommitsToAll(item.data, to_sign, prevouts, n)
    PROVE  item.data.point \in SignersOf(to_sign, prevouts, n)
BY DEF SignersOf

LEMMA LegacySigner ==
    ASSUME NEW to_sign, NEW prevouts, NEW n, NEW item \in ItemsOf(to_sign, n),
           NEW point, NEW script,
           Algorithm(prevouts[n].script_pubkey) = "legacy",
           EcdsaVerifies(item, point, LegacySighash(to_sign.tx, n, script))
    PROVE  point \in SignersOf(to_sign, prevouts, n)
<1>1. CommitsToAll(item.data, to_sign, prevouts, n)
    BY DEF CommitsToAll, EcdsaVerifies, LegacySighash, Sighash
<1> QED BY <1>1, Shown DEF EcdsaVerifies

LEMMA SegwitSigner ==
    ASSUME NEW to_sign, NEW prevouts, NEW n, NEW item \in ItemsOf(to_sign, n),
           NEW point, NEW script,
           Algorithm(prevouts[n].script_pubkey) = "v0",
           EcdsaVerifies(item, point,
                         SegwitSighash(to_sign.tx, n, script, prevouts[n].value))
    PROVE  point \in SignersOf(to_sign, prevouts, n)
<1>1. CommitsToAll(item.data, to_sign, prevouts, n)
    BY DEF CommitsToAll, EcdsaVerifies, SegwitSighash, Sighash
<1> QED BY <1>1, Shown DEF EcdsaVerifies

LEMMA TaprootSigner ==
    ASSUME NEW to_sign, NEW prevouts, NEW n, NEW item \in ItemsOf(to_sign, n),
           NEW key, NEW spend,
           prevouts[n].script_pubkey.type = "p2tr",
           SchnorrVerifies(item, key, to_sign, prevouts, n, spend)
    PROVE  key \in SignersOf(to_sign, prevouts, n)
<1>1. CommitsToAll(item.data, to_sign, prevouts, n)
    BY DEF CommitsToAll, SchnorrVerifies, SpendSighash, Sighash, Algorithm
<1> QED BY <1>1, Shown DEF SchnorrVerifies

-----------------------------------------------------------------------------
(* What a spend that parses looks like.                                    *)

Kinds == {"p2pkh", "p2wpkh", "p2wsh", "p2sh", "p2tr", "unknown", "bare"}

(* The script of a spend is the one that its output commits to, and what a *)
(* taproot spend says of itself it shows in its witness.                   *)
SpendOK(spend, spk, items) ==
    /\ spend.kind \in Kinds
    /\ spend.kind # "unknown" => spend.stack \in Seq(items)
    /\ spend.kind \in {"p2pkh", "bare"} =>
           spend.script = spk /\ ~IsWitnessProgram(spk) /\ spk.type # "p2sh"
    /\ spend.kind = "p2pkh" => spk.type = "p2pkh"
    /\ spend.kind = "bare" => spk.type # "p2pkh"
    /\ spend.kind = "p2wpkh" =>
           /\ Unwrapped(spk) = spend.script /\ IsWitnessProgram(spend.script)
           /\ spend.script.type = "p2wpkh" /\ spk.type # "p2tr"
           /\ Len(spend.stack) = 2
    /\ spend.kind = "p2wsh" =>
           /\ Unwrapped(spk) = P2wsh(spend.script) /\ IsWitnessProgram(Unwrapped(spk))
           /\ spk.type # "p2tr"
           /\ spk = P2wsh(spend.script) \/ spk = P2sh(P2wsh(spend.script))
    /\ spend.kind = "p2sh" =>
           spk.type = "p2sh" /\ spk.script = spend.script /\ ~IsWitnessProgram(spend.script)
    /\ spend.kind = "p2tr" =>
           /\ spk.type = "p2tr" /\ (spend.control = None => Len(spend.stack) = 1)
           /\ spend.annex => \E item \in items : item.kind = "annex"
           /\ spend.control # None =>
                  /\ \E item \in items : item.kind = "control" /\ item.data = spend.control
                  /\ \E item \in items : spend.script = ScriptOf(item)
    /\ spend.kind \in {"p2wsh", "p2sh", "bare"} => Minimal(spend.script)
    /\ spend.kind = "unknown" =>
           \/ spk.type = "p2sh" /\ spk.script.type = "p2tr"
           \/ Unwrapped(spk).type = "program"

LEMMA TaprootParsed ==
    ASSUME NEW witness, NEW S, witness \in Seq(S), NEW spk, spk.type = "p2tr",
           \A j \in DOMAIN witness : witness[j].kind = "control" => witness[j].data # None,
           TaprootKind(witness) # Malformed
    PROVE  SpendOK(TaprootKind(witness), spk, S)
<1> DEFINE annex == Len(witness) >= 2 /\ Last(witness).kind = "annex"
           items == IF annex THEN Front(witness) ELSE witness
           top == Len(items)
<1>1. /\ items \in Seq(S) /\ top \in Nat
      /\ \A j \in 1 .. top : items[j].kind = "control" => items[j].data # None
      /\ annex => \E item \in S : item.kind = "annex"
    <2>1. CASE annex
        <3>1. witness # << >> /\ Len(witness) \in Nat /\ DOMAIN witness = 1 .. Len(witness)
            BY <2>1, EmptySeq, LenProperties
        <3>2. /\ Front(witness) \in Seq(S) /\ Len(Front(witness)) = Len(witness) - 1
              /\ \A j \in 1 .. Len(witness) - 1 : Front(witness)[j] = witness[j]
            BY <3>1, FrontOf
        <3>3. Last(witness) \in S
            BY <3>1, ElementOfSeq DEF Last
        <3> QED BY <2>1, <3>1, <3>2, <3>3
    <2>2. CASE ~annex
        BY <2>2, LenProperties
    <2> QED BY <2>1, <2>2
<1>2. CASE top = 1
    <2>1. TaprootKind(witness) = [SpendOf("p2tr", None, items) EXCEPT !.annex = annex]
        BY <1>2 DEF TaprootKind
    <2>2. /\ TaprootKind(witness).kind = "p2tr"
          /\ TaprootKind(witness).stack = items
          /\ TaprootKind(witness).annex = annex
          /\ TaprootKind(witness).control = None
        BY <2>1 DEF SpendOf
    <2> HIDE DEF items, annex
    <2> QED BY <1>1, <1>2, <2>2 DEF SpendOK, Kinds
<1>3. CASE top # 1
    <2>1. top >= 2 /\ items[top].kind = "control"
        <3>1. ~(top = 0 \/ (top >= 2 /\ items[top].kind # "control"))
            BY DEF TaprootKind
        <3> HIDE DEF top
        <3> QED BY <1>1, <1>3, <3>1
    <2>2. TaprootKind(witness) =
              [SpendOf("p2tr", ScriptOf(items[top - 1]), SubSeq(items, 1, top - 2))
                  EXCEPT !.annex = annex, !.control = items[top].data]
        BY <1>1, <1>3, <2>1 DEF TaprootKind
    <2>3. /\ TaprootKind(witness).kind = "p2tr"
          /\ TaprootKind(witness).stack = SubSeq(items, 1, top - 2)
          /\ TaprootKind(witness).control = items[top].data
          /\ TaprootKind(witness).annex = annex
          /\ TaprootKind(witness).script = ScriptOf(items[top - 1])
        BY <2>2 DEF SpendOf
    <2>4. SubSeq(items, 1, top - 2) \in Seq(S)
        <3>1. \A j \in 1 .. top - 2 : items[j] \in S
            BY <1>1, <2>1, ElementOfSeq
        <3> QED BY <1>1, <2>1, <3>1, SubSeqProperties
    <2>5. /\ items[top].data # None
          /\ items[top] \in S /\ items[top - 1] \in S
        BY <1>1, <2>1, ElementOfSeq
    <2> HIDE DEF items, annex, top
    <2> QED BY <1>1, <2>1, <2>3, <2>4, <2>5 DEF SpendOK, Kinds
<1> QED BY <1>2, <1>3

LEMMA WitnessParsed ==
    ASSUME NEW witness, NEW S, witness \in Seq(S), NEW spk, NEW nested \in BOOLEAN,
           IF nested THEN spk.type = "p2sh" /\ spk = P2sh(Unwrapped(spk))
           ELSE spk.type # "p2sh",
           IsWitnessProgram(Unwrapped(spk)),
           \A j \in DOMAIN witness : witness[j].kind = "control" => witness[j].data # None,
           WitnessKind(witness, Unwrapped(spk), nested) # Malformed
    PROVE  SpendOK(WitnessKind(witness, Unwrapped(spk), nested), spk, S)
<1> DEFINE program == Unwrapped(spk)
           spend == WitnessKind(witness, program, nested)
<1>0. ~nested => program = spk
    BY DEF Unwrapped
<1>1. CASE program.type = "p2wpkh"
    <2>1. spend = SpendOf("p2wpkh", program, witness) /\ Len(witness) = 2
        BY <1>1 DEF WitnessKind
    <2>2. spend.kind = "p2wpkh" /\ spend.script = program /\ spend.stack = witness
        BY <2>1 DEF SpendOf
    <2>3. spk.type # "p2tr"
        BY <1>0, <1>1
    <2> QED BY <1>1, <2>1, <2>2, <2>3 DEF SpendOK, Kinds
<1>2. CASE program.type = "p2wsh"
    <2>1. /\ spend = SpendOf("p2wsh", ScriptOf(Last(witness)), Front(witness))
          /\ witness # << >> /\ program = P2wsh(ScriptOf(Last(witness)))
          /\ Minimal(ScriptOf(Last(witness)))
        BY <1>2 DEF WitnessKind, CheckScript
    <2>2. /\ spend.kind = "p2wsh" /\ program = P2wsh(spend.script)
          /\ spend.stack = Front(witness) /\ Minimal(spend.script)
        BY <2>1 DEF SpendOf
    <2>3. spk.type # "p2tr"
        BY <1>0, <1>2
    <2>4. Front(witness) \in Seq(S)
        BY <2>1, FrontOf
    <2>5. spk = P2wsh(spend.script) \/ spk = P2sh(P2wsh(spend.script))
        BY <1>0, <2>2
    <2> QED BY <1>2, <2>2, <2>3, <2>4, <2>5 DEF SpendOK, Kinds
<1>3. CASE program.type \notin {"p2wpkh", "p2wsh"}
    <2>1. CASE program.type = "p2tr" /\ ~nested
        <3>1. spend = TaprootKind(witness)
            BY <1>3, <2>1 DEF WitnessKind
        <3> QED BY <1>0, <2>1, <3>1, TaprootParsed
    <2>2. CASE ~(program.type = "p2tr" /\ ~nested)
        <3>1. spend = SpendOf("unknown", None, << >>)
            BY <1>3, <2>2 DEF WitnessKind
        <3>2. spend.kind = "unknown"
            BY <3>1 DEF SpendOf
        <3>3. \/ nested /\ program.type = "p2tr"
              \/ program.type = "program"
            BY <1>3, <2>2 DEF IsWitnessProgram
        <3>4. nested => program = spk.script
            BY DEF Unwrapped
        <3> QED BY <3>2, <3>3, <3>4 DEF SpendOK, Kinds
    <2> QED BY <2>1, <2>2
<1> QED BY <1>1, <1>2, <1>3

LEMMA P2shParsed ==
    ASSUME NEW script_sig, NEW witness, NEW S,
           script_sig \in Seq(S), witness \in Seq(S),
           NEW spk, spk.type = "p2sh",
           \A j \in DOMAIN witness : witness[j].kind = "control" => witness[j].data # None,
           P2shKind(script_sig, witness, spk) # Malformed
    PROVE  SpendOK(P2shKind(script_sig, witness, spk), spk, S)
<1> DEFINE redeem == ScriptOf(Last(script_sig))
           spend == P2shKind(script_sig, witness, spk)
<1>1. script_sig # << >> /\ spk = P2sh(redeem)
    BY DEF P2shKind
<1>2. spk.script = redeem /\ Unwrapped(spk) = redeem
    BY <1>1 DEF P2sh, Unwrapped
<1>3. CASE IsWitnessProgram(redeem)
    <2>1. spend = WitnessKind(witness, redeem, TRUE)
        BY <1>3 DEF P2shKind
    <2> QED BY <1>1, <1>2, <1>3, <2>1, WitnessParsed
<1>4. CASE ~IsWitnessProgram(redeem)
    <2>1. spend = SpendOf("p2sh", redeem, Front(script_sig)) /\ Minimal(redeem)
        BY <1>4 DEF P2shKind, CheckScript
    <2>2. spend.kind = "p2sh" /\ spend.script = redeem /\ spend.stack = Front(script_sig)
        BY <2>1 DEF SpendOf
    <2>3. Front(script_sig) \in Seq(S)
        BY <1>1, FrontOf
    <2> QED BY <1>2, <1>4, <2>1, <2>2, <2>3 DEF SpendOK, Kinds
<1> QED BY <1>3, <1>4

LEMMA Parsed ==
    ASSUME NEW to_sign, NEW prevouts, NEW n, InputOK(to_sign, n),
           Parse(to_sign, prevouts, n) # Malformed
    PROVE  SpendOK(Parse(to_sign, prevouts, n), prevouts[n].script_pubkey,
                   ItemsOf(to_sign, n))
<1> DEFINE spk == prevouts[n].script_pubkey
           script_sig == to_sign.script_sig[n]
           witness == to_sign.witness[n]
           spend == Parse(to_sign, prevouts, n)
           S == ItemsOf(to_sign, n)
<1>1. /\ script_sig \in Seq(S) /\ witness \in Seq(S)
      /\ \A j \in DOMAIN witness : witness[j].kind = "control" => witness[j].data # None
    <2>1. script_sig \in Seq(Range(script_sig)) /\ witness \in Seq(Range(witness))
        BY SequenceOf DEF InputOK
    <2>2. Range(script_sig) \subseteq S /\ Range(witness) \subseteq S
        BY DEF ItemsOf
    <2>3. script_sig \in Seq(S) /\ witness \in Seq(S)
        BY <2>1, <2>2, SeqMonotonic
    <2> QED BY <2>3 DEF InputOK
<1>2. CASE IsWitnessProgram(spk)
    <2>1. spend = WitnessKind(witness, spk, FALSE)
        BY <1>2 DEF Parse
    <2>2. spk.type # "p2sh" /\ Unwrapped(spk) = spk
        BY <1>2 DEF IsWitnessProgram, Unwrapped
    <2> QED BY <1>1, <1>2, <2>1, <2>2, WitnessParsed
<1>3. CASE ~IsWitnessProgram(spk) /\ spk.type = "p2sh"
    <2>1. spend = P2shKind(script_sig, witness, spk)
        BY <1>3 DEF Parse
    <2> QED BY <1>1, <1>3, <2>1, P2shParsed
<1>4. CASE ~IsWitnessProgram(spk) /\ spk.type # "p2sh"
    <2>1. spend = SpendOf(IF spk.type = "p2pkh" THEN "p2pkh" ELSE "bare", spk, script_sig)
        BY <1>4 DEF Parse
    <2>2. /\ spend.kind = IF spk.type = "p2pkh" THEN "p2pkh" ELSE "bare"
          /\ spend.script = spk /\ spend.stack = script_sig
        BY <2>1 DEF SpendOf
    <2>3. Minimal(spk)
        BY DEF Parse, CheckScript
    <2> QED BY <1>1, <1>4, <2>2, <2>3 DEF SpendOK, Kinds
<1> QED BY <1>2, <1>3, <1>4

-----------------------------------------------------------------------------
(* The evaluators.                                                         *)

LEMMA LastOfThreshold ==
    ASSUME NEW S, NEW m \in Nat, NEW k \in Nat, S \subseteq 1 .. k,
           NEW f \in [1 .. m -> S],
           \A h, j \in 1 .. m : h < j => f[h] < f[j]
    PROVE  Cardinality(S) >= m
<1>1. IsFiniteSet(S)
    <2>1. IsFiniteSet(1 .. k)
        BY FS_Interval
    <2> QED BY <2>1, FS_Subset
<1>2. f \in Injection(1 .. m, S)
    <2>1. \A h, j \in 1 .. m : f[h] = f[j] => h = j
        <3> SUFFICES ASSUME NEW h \in 1 .. m, NEW j \in 1 .. m, f[h] = f[j] PROVE h = j
            OBVIOUS
        <3>1. f[h] \in 1 .. k /\ f[j] \in 1 .. k
            OBVIOUS
        <3>2. h < j => f[h] < f[j]
            OBVIOUS
        <3>3. j < h => f[j] < f[h]
            OBVIOUS
        <3> QED BY <3>1, <3>2, <3>3
    <2> QED BY <2>1 DEF Injection, IsInjective
<1>3. Cardinality(1 .. m) <= Cardinality(S)
    BY <1>1, <1>2, FS_Injection
<1>4. Cardinality(1 .. m) = m
    BY FS_Interval
<1>5. Cardinality(S) \in Nat
    BY <1>1, FS_CardinalityType
<1> QED BY <1>3, <1>4, <1>5

(* Multisig, whatever sighash its signatures are verified against.         *)
LEMMA Multisigned ==
    ASSUME NEW stack, NEW items, stack \in Seq(items), NEW script, NEW sighash,
           NEW signers, ParsesMultisig(script), Checkmultisig(stack, script, sighash),
           \A point : \A item \in items :
               EcdsaVerifies(item, point, sighash) => point \in signers
    PROVE  ScriptAuthorised(script, signers)
<1> DEFINE S == { j \in DOMAIN script.keys : Point[script.keys[j]] \in signers }
           m == script.required
           k == Len(script.keys)
<1>1. k \in Nat /\ DOMAIN script.keys = 1 .. k /\ m \in Nat
    BY LenProperties DEF ParsesMultisig
<1>2. PICK f \in [1 .. m -> DOMAIN script.keys] :
          /\ \A j \in DOMAIN f :
                 EcdsaVerifies(stack[j + 1], Point[script.keys[f[j]]], sighash)
          /\ \A h, j \in DOMAIN f : h < j => f[h] < f[j]
    BY DEF Checkmultisig
<1>3. \A j \in 1 .. m : stack[j + 1] \in items
    BY <1>1, LenProperties, ElementOfSeq DEF Checkmultisig
<1>4. f \in [1 .. m -> S]
    BY <1>2, <1>3
<1>5. S \subseteq 1 .. k
    BY <1>1
<1>6. \A h, j \in 1 .. m : h < j => f[h] < f[j]
    BY <1>2
<1>7. Cardinality(S) >= m
    <2> HIDE DEF S, m, k
    <2> QED BY <1>1, <1>4, <1>5, <1>6, LastOfThreshold
<1> QED BY <1>7 DEF ScriptAuthorised

(* The chains of CHECKSIG that the interpreter takes.                      *)
LEMMA Chained ==
    ASSUME NEW script, NEW keys, ChecksKeys(script, keys), NEW signers,
           keys \subseteq Key \cup Points,
           \A j \in DOMAIN CheckedKeys(script) :
               CheckedKeys(script)[j] \in keys =>
                   PointOf(CheckedKeys(script)[j]) \in signers
    PROVE  ScriptAuthorised(script, signers)
<1> DEFINE ops == Ops(script)
<1>1. /\ ops \in Seq(Key \cup Points \cup {"checksig", "checksigverify"})
      /\ Len(ops) \in Nat /\ DOMAIN ops = 1 .. Len(ops)
    <2>1. keys \cup {"checksig", "checksigverify"}
              \subseteq Key \cup Points \cup {"checksig", "checksigverify"}
        OBVIOUS
    <2> QED BY <2>1, SeqMonotonic, LenProperties DEF ChecksKeys
<1>2. ChecksKeys(script, Key \cup Points)
    BY <1>1 DEF ChecksKeys
<1>3. \A j \in DOMAIN CheckedKeys(script) : CheckedKeys(script)[j] \in keys
    <2> SUFFICES ASSUME NEW j \in 1 .. Len(ops) \div 2 PROVE ops[2 * j - 1] \in keys
        BY DEF CheckedKeys
    <2>1. 2 * j - 1 \in 1 .. Len(ops) /\ (2 * j - 1) % 2 = 1
        BY <1>1
    <2> QED BY <1>1, <2>1 DEF ChecksKeys
<1> QED BY <1>2, <1>3 DEF ScriptAuthorised

(* Every item that the interpreter is handed is one that it checked, and is*)
(* of a type that BIP 322 allows.                                          *)
LEMMA Interpreted ==
    ASSUME NEW to_sign, NEW prevouts, NEW n, NEW spend, NEW items,
           spend.stack \in Seq(items),
           VerifyWithInterpreter(to_sign, prevouts, n, spend) = "valid"
    PROVE  /\ ChecksKeys(spend.script, ContextKeys(spend))
           /\ \A j \in DOMAIN CheckedKeys(spend.script) :
                  \E item \in items :
                      /\ InterpreterVerifies(item, CheckedKeys(spend.script)[j],
                                             to_sign, prevouts, n, spend)
                      /\ \E h \in DOMAIN spend.stack : item = spend.stack[h]
                      /\ RequiredSignature(item, spend)
<1> DEFINE keys == CheckedKeys(spend.script)
           size == Len(spend.stack)
<1>1. /\ ChecksKeys(spend.script, ContextKeys(spend))
      /\ InterpreterAccepts(to_sign, prevouts, n, spend)
      /\ \A j \in DOMAIN spend.stack : RequiredSignature(spend.stack[j], spend)
    BY DEF VerifyWithInterpreter, InterpreterParses
<1>2. size \in Nat /\ DOMAIN spend.stack = 1 .. size
    BY LenProperties
<1>3. size = Len(keys) /\ DOMAIN keys = 1 .. size
    <2>1. size = Len(keys)
        BY <1>1 DEF InterpreterAccepts
    <2>2. Len(Ops(spend.script)) \in Nat
        BY <1>1, LenProperties DEF ChecksKeys
    <2>3. keys = [j \in 1 .. Len(Ops(spend.script)) \div 2 |-> Ops(spend.script)[2 * j - 1]]
        BY DEF CheckedKeys
    <2>4. Len(keys) = Len(Ops(spend.script)) \div 2
        BY <2>2, <2>3
    <2> QED BY <2>1, <2>3, <2>4
<1>4. ASSUME NEW j \in 1 .. size
      PROVE  \E item \in items :
                 /\ InterpreterVerifies(item, keys[j], to_sign, prevouts, n, spend)
                 /\ \E h \in DOMAIN spend.stack : item = spend.stack[h]
                 /\ RequiredSignature(item, spend)
    <2>1. size + 1 - j \in 1 .. size
        BY <1>2
    <2>2. InterpreterVerifies(spend.stack[size + 1 - j], keys[j], to_sign, prevouts, n, spend)
        BY <1>1, <1>3 DEF InterpreterAccepts, ItemFor
    <2>3. spend.stack[size + 1 - j] \in items
        BY <2>1, ElementOfSeq
    <2> QED BY <1>1, <1>2, <2>1, <2>2, <2>3
<1> QED BY <1>1, <1>3, <1>4

(* Outside taproot the interpreter's signatures are as the templates' are. *)
LEMMA InterpretedEcdsa ==
    ASSUME NEW to_sign, NEW prevouts, NEW n, NEW spend, NEW item, NEW key,
           spend.kind # "p2tr",
           InterpreterVerifies(item, key, to_sign, prevouts, n, spend),
           RequiredSignature(item, spend)
    PROVE  EcdsaVerifies(item, Point[key], ScriptSighash(to_sign, prevouts, n, spend))
<1>1. /\ item.kind = "signature" /\ item.data.scheme = "ecdsa"
      /\ item.data.point = Point[key] /\ item.data.sighash_type = "ALL"
      /\ item.data.sighash = [ScriptSighash(to_sign, prevouts, n, spend)
                                 EXCEPT !.sighash_type = "ALL"]
    BY DEF InterpreterVerifies, RequiredSignature
<1>2. [ScriptSighash(to_sign, prevouts, n, spend) EXCEPT !.sighash_type = "ALL"]
          = ScriptSighash(to_sign, prevouts, n, spend)
    BY DEF ScriptSighash, LegacySighash, SegwitSighash, Sighash
<1> QED BY <1>1, <1>2 DEF EcdsaVerifies

LEMMA InterpretedSchnorr ==
    ASSUME NEW to_sign, NEW prevouts, NEW n, NEW spend, NEW item, NEW key,
           spend.kind = "p2tr",
           InterpreterVerifies(item, key, to_sign, prevouts, n, spend),
           RequiredSignature(item, spend),
           \E h \in DOMAIN spend.stack : item = spend.stack[h]
    PROVE  SchnorrVerifies(item, key, to_sign, prevouts, n, spend)
<1> DEFINE type == item.data.sighash_type
<1>1. /\ item.kind = "signature" /\ item.data.scheme = "schnorr"
      /\ item.data.point = key
      /\ item.data.sighash = SpendSighash(to_sign, prevouts, n, spend, SighashType(type))
    BY DEF InterpreterVerifies
<1>2. /\ SighashType(type) \in {"ALL", "DEFAULT"}
      /\ SighashType(type) = "DEFAULT" => ~HasExplicitDefault(item.data, spend)
    BY <1>1 DEF RequiredSignature
<1>3. type # "EXPLICIT_DEFAULT"
    BY <1>1, <1>2 DEF SighashType, HasExplicitDefault
<1> QED BY <1>1, <1>2, <1>3 DEF SighashType, SchnorrVerifies

-----------------------------------------------------------------------------
(* Kind by kind.                                                           *)

LEMMA P2pkhAuthorised ==
    ASSUME NEW to_sign, NEW prevouts, NEW n, NEW spend, spend.kind = "p2pkh",
           SpendOK(spend, prevouts[n].script_pubkey, ItemsOf(to_sign, n)),
           VerifyP2pkh(to_sign, n, spend) = "valid"
    PROVE  OutputAuthorised(prevouts[n].script_pubkey, SignersOf(to_sign, prevouts, n))
<1> DEFINE spk == prevouts[n].script_pubkey
<1>1. /\ Len(spend.stack) = 2 /\ P2pkh(spend.stack[2].data) = spend.script
      /\ EcdsaVerifies(spend.stack[1], Point[spend.stack[2].data],
                       LegacySighash(to_sign.tx, n, spend.script))
    BY DEF VerifyP2pkh, ValidIf
<1>2. /\ spk.type = "p2pkh" /\ ~IsWitnessProgram(spk) /\ spend.script = spk
      /\ spend.stack \in Seq(ItemsOf(to_sign, n))
    BY DEF SpendOK
<1>3. spend.stack[1] \in ItemsOf(to_sign, n)
    BY <1>1, <1>2, ElementOfSeq
<1>4. Algorithm(spk) = "legacy"
    BY <1>2 DEF Algorithm, Unwrapped
<1>5. Point[spend.stack[2].data] \in SignersOf(to_sign, prevouts, n)
    BY <1>1, <1>3, <1>4, LegacySigner
<1>6. spk.key = spend.stack[2].data /\ Core(spk) = spk
    BY <1>1, <1>2 DEF P2pkh, Core, Unwrapped
<1> QED BY <1>2, <1>5, <1>6 DEF OutputAuthorised, ScriptAuthorised

LEMMA P2wpkhAuthorised ==
    ASSUME NEW to_sign, NEW prevouts, NEW n, NEW spend, spend.kind = "p2wpkh",
           SpendOK(spend, prevouts[n].script_pubkey, ItemsOf(to_sign, n)),
           VerifyP2wpkh(to_sign, prevouts, n, spend) = "valid"
    PROVE  OutputAuthorised(prevouts[n].script_pubkey, SignersOf(to_sign, prevouts, n))
<1> DEFINE spk == prevouts[n].script_pubkey
<1>1. /\ P2wpkh(spend.stack[2].data) = spend.script
      /\ EcdsaVerifies(spend.stack[1], Point[spend.stack[2].data],
                       SegwitSighash(to_sign.tx, n, spend.script, prevouts[n].value))
    BY DEF VerifyP2wpkh, ValidIf
<1>2. /\ Unwrapped(spk) = spend.script /\ IsWitnessProgram(spend.script)
      /\ spend.script.type = "p2wpkh" /\ spk.type # "p2tr"
      /\ Len(spend.stack) = 2 /\ spend.stack \in Seq(ItemsOf(to_sign, n))
    BY DEF SpendOK
<1>3. spend.stack[1] \in ItemsOf(to_sign, n)
    BY <1>2, ElementOfSeq
<1>4. Algorithm(spk) = "v0"
    BY <1>2 DEF Algorithm
<1>5. Point[spend.stack[2].data] \in SignersOf(to_sign, prevouts, n)
    BY <1>1, <1>3, <1>4, SegwitSigner
<1>6. Core(spk) = spend.script /\ spend.script.key = spend.stack[2].data
    BY <1>1, <1>2 DEF P2wpkh, Core
<1> QED BY <1>2, <1>5, <1>6 DEF OutputAuthorised, ScriptAuthorised

(* P2WSH, P2SH and bare scripts: whoever checks a signature, it is against *)
(* the sighash of the script that the output commits to.                   *)
LEMMA ScriptSigner ==
    ASSUME NEW to_sign, NEW prevouts, NEW n, NEW spend, NEW item \in ItemsOf(to_sign, n),
           NEW point,
           Algorithm(prevouts[n].script_pubkey) =
               IF spend.kind = "p2wsh" THEN "v0" ELSE "legacy",
           EcdsaVerifies(item, point, ScriptSighash(to_sign, prevouts, n, spend))
    PROVE  point \in SignersOf(to_sign, prevouts, n)
BY LegacySigner, SegwitSigner DEF ScriptSighash

LEMMA ChainAuthorised ==
    ASSUME NEW to_sign, NEW prevouts, NEW n, NEW spend,
           spend.kind \in {"p2wsh", "p2sh", "bare"},
           spend.stack \in Seq(ItemsOf(to_sign, n)),
           Algorithm(prevouts[n].script_pubkey) =
               IF spend.kind = "p2wsh" THEN "v0" ELSE "legacy",
           VerifyWithInterpreter(to_sign, prevouts, n, spend) = "valid"
    PROVE  ScriptAuthorised(spend.script, SignersOf(to_sign, prevouts, n))
<1> DEFINE keys == CheckedKeys(spend.script)
           signers == SignersOf(to_sign, prevouts, n)
<1>1. ContextKeys(spend) \subseteq Key
    BY DataAssumption DEF ContextKeys
<1>2. ASSUME NEW j \in DOMAIN keys, keys[j] \in ContextKeys(spend)
      PROVE  PointOf(keys[j]) \in signers
    <2>1. PICK item \in ItemsOf(to_sign, n) :
              /\ InterpreterVerifies(item, keys[j], to_sign, prevouts, n, spend)
              /\ RequiredSignature(item, spend)
        BY Interpreted
    <2>2. EcdsaVerifies(item, Point[keys[j]], ScriptSighash(to_sign, prevouts, n, spend))
        BY <2>1, InterpretedEcdsa
    <2>3. Point[keys[j]] \in signers
        BY <2>2, ScriptSigner
    <2> QED BY <1>1, <1>2, <2>3 DEF PointOf
<1>3. ChecksKeys(spend.script, ContextKeys(spend))
    BY Interpreted
<1>4. ContextKeys(spend) \subseteq Key \cup Points
    BY <1>1
<1> QED BY <1>2, <1>3, <1>4, Chained

LEMMA VerifiedScriptAuthorised ==
    ASSUME NEW to_sign, NEW prevouts, NEW n, NEW spend,
           spend.kind \in {"p2wsh", "p2sh"},
           spend.stack \in Seq(ItemsOf(to_sign, n)),
           Algorithm(prevouts[n].script_pubkey) =
               IF spend.kind = "p2wsh" THEN "v0" ELSE "legacy",
           VerifyScript(to_sign, prevouts, n, spend) = "valid"
    PROVE  ScriptAuthorised(spend.script, SignersOf(to_sign, prevouts, n))
<1>1. CASE ParsesMultisig(spend.script)
    <2>1. Checkmultisig(spend.stack, spend.script,
                        ScriptSighash(to_sign, prevouts, n, spend))
        BY <1>1 DEF VerifyScript, ValidIf
    <2>2. \A point : \A item \in ItemsOf(to_sign, n) :
              EcdsaVerifies(item, point, ScriptSighash(to_sign, prevouts, n, spend))
              => point \in SignersOf(to_sign, prevouts, n)
        BY ScriptSigner
    <2> QED BY <1>1, <2>1, <2>2, Multisigned
<1>2. CASE ~ParsesMultisig(spend.script)
    BY <1>2, ChainAuthorised DEF VerifyScript
<1> QED BY <1>1, <1>2

(* A script that somebody can authorise is not itself a wrapping.          *)
LEMMA NotWrapped ==
    ASSUME NEW script, NEW signers, ScriptAuthorised(script, signers)
    PROVE  script.type \notin {"p2wsh", "p2sh", "p2tr"}
BY DEF ScriptAuthorised, ChecksKeys, Ops, ParsesMultisig

LEMMA P2shAuthorised ==
    ASSUME NEW to_sign, NEW prevouts, NEW n, NEW spend, spend.kind = "p2sh",
           SpendOK(spend, prevouts[n].script_pubkey, ItemsOf(to_sign, n)),
           VerifyScript(to_sign, prevouts, n, spend) = "valid"
    PROVE  OutputAuthorised(prevouts[n].script_pubkey, SignersOf(to_sign, prevouts, n))
<1> DEFINE spk == prevouts[n].script_pubkey
<1>1. /\ spk.type = "p2sh" /\ spk.script = spend.script /\ ~IsWitnessProgram(spend.script)
      /\ spend.stack \in Seq(ItemsOf(to_sign, n))
    BY DEF SpendOK
<1>2. Unwrapped(spk) = spend.script /\ Algorithm(spk) = "legacy"
    BY <1>1 DEF Unwrapped, Algorithm
<1>3. ScriptAuthorised(spend.script, SignersOf(to_sign, prevouts, n))
    BY <1>1, <1>2, VerifiedScriptAuthorised
<1>4. Core(spk) = spend.script
    BY <1>2, <1>3, NotWrapped DEF Core
<1> QED BY <1>1, <1>3, <1>4 DEF OutputAuthorised

LEMMA P2wshAuthorised ==
    ASSUME NEW to_sign, NEW prevouts, NEW n, NEW spend, spend.kind = "p2wsh",
           SpendOK(spend, prevouts[n].script_pubkey, ItemsOf(to_sign, n)),
           VerifyScript(to_sign, prevouts, n, spend) = "valid"
    PROVE  OutputAuthorised(prevouts[n].script_pubkey, SignersOf(to_sign, prevouts, n))
<1> DEFINE spk == prevouts[n].script_pubkey
<1>1. /\ Unwrapped(spk) = P2wsh(spend.script) /\ IsWitnessProgram(Unwrapped(spk))
      /\ spk.type # "p2tr" /\ spend.stack \in Seq(ItemsOf(to_sign, n))
    BY DEF SpendOK
<1>2. Core(spk) = spend.script /\ Algorithm(spk) = "v0"
    BY <1>1 DEF Core, P2wsh, Algorithm
<1>3. ScriptAuthorised(spend.script, SignersOf(to_sign, prevouts, n))
    BY <1>1, <1>2, VerifiedScriptAuthorised
<1> QED BY <1>1, <1>2, <1>3 DEF OutputAuthorised

LEMMA BareAuthorised ==
    ASSUME NEW to_sign, NEW prevouts, NEW n, NEW spend, spend.kind = "bare",
           SpendOK(spend, prevouts[n].script_pubkey, ItemsOf(to_sign, n)),
           VerifyWithInterpreter(to_sign, prevouts, n, spend) = "valid"
    PROVE  OutputAuthorised(prevouts[n].script_pubkey, SignersOf(to_sign, prevouts, n))
<1> DEFINE spk == prevouts[n].script_pubkey
<1>1. /\ spend.script = spk /\ ~IsWitnessProgram(spk)
      /\ spend.stack \in Seq(ItemsOf(to_sign, n))
    BY DEF SpendOK
<1>2. spk.type = "script"
    <2>1. ChecksKeys(spend.script, ContextKeys(spend))
        BY <1>1, Interpreted
    <2>2. Ops(spend.script) # << >>
        BY <2>1 DEF ChecksKeys
    <2> QED BY <1>1, <2>2 DEF Ops
<1>3. Core(spk) = spk /\ Algorithm(spk) = "legacy"
    BY <1>1, <1>2 DEF Core, Unwrapped, Algorithm
<1>4. ScriptAuthorised(spk, SignersOf(to_sign, prevouts, n))
    BY <1>1, <1>3, ChainAuthorised
<1> QED BY <1>2, <1>3, <1>4 DEF OutputAuthorised

(* Taproot: the output key, or a committed tapscript.                      *)
LEMMA TapscriptAuthorised ==
    ASSUME NEW to_sign, NEW prevouts, NEW n, NEW spend, spend.kind = "p2tr",
           SpendOK(spend, prevouts[n].script_pubkey, ItemsOf(to_sign, n)),
           Sequential(Ops(spend.script)),
           NEW satisfied,
           VerifyTapscript(to_sign, prevouts, n, spend, satisfied) = "valid"
    PROVE  \/ Ops(spend.script) = << >> /\ ScriptLen(spend.script) = 0
           \/ ScriptAuthorised(spend.script, SignersOf(to_sign, prevouts, n))
<1> DEFINE signers == SignersOf(to_sign, prevouts, n)
           ops == Ops(spend.script)
<1>1. /\ prevouts[n].script_pubkey.type = "p2tr"
      /\ spend.stack \in Seq(ItemsOf(to_sign, n))
    BY DEF SpendOK
<1>2. SUFFICES ASSUME ~(ops = << >> /\ ScriptLen(spend.script) = 0)
               PROVE  ScriptAuthorised(spend.script, signers)
    OBVIOUS
<1>3. CASE IsSimpleTapscript(spend.script)
    <2>1. VerifySimpleTapscript(to_sign, prevouts, n, spend, satisfied) = "valid"
        BY <1>2, <1>3 DEF VerifyTapscript
    <2>2. /\ Len(spend.stack) = 1 /\ ops[1] \in Points
          /\ SchnorrVerifies(spend.stack[1], ops[1], to_sign, prevouts, n, spend)
        BY <2>1 DEF VerifySimpleTapscript
    <2>3. spend.stack[1] \in ItemsOf(to_sign, n)
        BY <1>1, <2>2, ElementOfSeq
    <2>4. ops[1] \in signers
        BY <1>1, <2>2, <2>3, TaprootSigner
    <2>5. /\ ops \in Seq(Range(ops)) /\ Len(ops) = 2 /\ DOMAIN ops = 1 .. 2
          /\ ops[2] = "checksig"
        BY <1>3, SequenceOf DEF IsSimpleTapscript
    <2>6. ops \in Seq(Points \cup {"checksig", "checksigverify"})
        <3>1. Range(ops) \subseteq Points \cup {"checksig", "checksigverify"}
            BY <2>2, <2>5 DEF Range
        <3> QED BY <2>5, <3>1, SeqMonotonic
    <2>7. ChecksKeys(spend.script, Points)
        BY <2>2, <2>5, <2>6 DEF ChecksKeys
    <2>8. DOMAIN CheckedKeys(spend.script) = 1 .. 1 /\ CheckedKeys(spend.script)[1] = ops[1]
        BY <2>5 DEF CheckedKeys
    <2>9. PointOf(ops[1]) = ops[1]
        BY <2>2, PointAssumption DEF PointOf, Points
    <2> QED BY <2>4, <2>7, <2>8, <2>9, Chained
<1>4. CASE ~IsSimpleTapscript(spend.script)
    <2>1. VerifyWithInterpreter(to_sign, prevouts, n, spend) = "valid"
        BY <1>2, <1>4 DEF VerifyTapscript
    <2>2. ChecksKeys(spend.script, Points)
        BY <1>1, <2>1, Interpreted DEF ContextKeys
    <2>3. ASSUME NEW j \in DOMAIN CheckedKeys(spend.script),
                 CheckedKeys(spend.script)[j] \in Points
          PROVE  PointOf(CheckedKeys(spend.script)[j]) \in signers
        <3> DEFINE key == CheckedKeys(spend.script)[j]
        <3>1. PICK item \in ItemsOf(to_sign, n) :
                  /\ InterpreterVerifies(item, key, to_sign, prevouts, n, spend)
                  /\ \E h \in DOMAIN spend.stack : item = spend.stack[h]
                  /\ RequiredSignature(item, spend)
            BY <1>1, <2>1, Interpreted
        <3>2. SchnorrVerifies(item, key, to_sign, prevouts, n, spend)
            BY <3>1, InterpretedSchnorr
        <3>3. key \in signers
            BY <1>1, <3>2, TaprootSigner
        <3>4. PointOf(key) = key
            BY <2>3, PointAssumption DEF PointOf, Points
        <3> QED BY <3>3, <3>4
    <2> QED BY <2>2, <2>3, Chained
<1> QED BY <1>3, <1>4

LEMMA P2trAuthorised ==
    ASSUME NEW to_sign, NEW prevouts, NEW n, NEW spend, spend.kind = "p2tr",
           SpendOK(spend, prevouts[n].script_pubkey, ItemsOf(to_sign, n)),
           VerifyP2tr(to_sign, prevouts, n, spend) = "valid"
    PROVE  OutputAuthorised(prevouts[n].script_pubkey, SignersOf(to_sign, prevouts, n))
<1> DEFINE spk == prevouts[n].script_pubkey
           signers == SignersOf(to_sign, prevouts, n)
<1>1. /\ spk.type = "p2tr" /\ spend.stack \in Seq(ItemsOf(to_sign, n))
      /\ spend.control = None => Len(spend.stack) = 1
    BY DEF SpendOK
<1>2. CASE spend.control = None
    <2>1. SchnorrVerifies(spend.stack[1], spk, to_sign, prevouts, n, spend)
        BY <1>2 DEF VerifyP2tr
    <2>2. spend.stack[1] \in ItemsOf(to_sign, n)
        BY <1>1, <1>2, ElementOfSeq
    <2>3. spk \in signers
        BY <1>1, <2>1, <2>2, TaprootSigner
    <2> QED BY <1>1, <2>3 DEF OutputAuthorised, TaprootAuthorised
<1>3. CASE spend.control # None
    <2> DEFINE root == spend.control.root
    <2>1. /\ LeafCommitted(spend, spk) /\ spend.control.version = "tapscript"
          /\ \E satisfied :
                 VerifyTapscript(to_sign, prevouts, n, spend, satisfied) = "valid"
        BY <1>3 DEF VerifyP2tr
    <2>2. /\ spk.root = root /\ root \in DOMAIN Leaves
          /\ [version |-> "tapscript", script |-> spend.script] \in Leaves[root]
        BY <2>1 DEF LeafCommitted, P2tr
    <2>3. Sequential(Ops(spend.script))
        BY <2>2, LeafAssumption
    <2>4. \/ Ops(spend.script) = << >> /\ ScriptLen(spend.script) = 0
          \/ ScriptAuthorised(spend.script, signers)
        BY <2>1, <2>3, TapscriptAuthorised
    <2>5. TaprootAuthorised(spk, signers)
        BY <2>2, <2>4 DEF TaprootAuthorised
    <2> QED BY <1>1, <2>5 DEF OutputAuthorised
<1> QED BY <1>2, <1>3

-----------------------------------------------------------------------------

(* The evaluation of an input (verify_input and all it calls) says valid   *)
(* only if signatures that the input shows, each over all of this          *)
(* transaction, this input and its value, authorise the output: for every  *)
(* output script, wrapping, leaf, stack and number of keys.                *)
THEOREM ValidInputIsAuthorised ==
    ASSUME NEW to_sign, NEW prevouts, NEW n, InputOK(to_sign, n),
           Parse(to_sign, prevouts, n) # Malformed,
           VerifyInput(to_sign, prevouts, n, Parse(to_sign, prevouts, n)) = "valid"
    PROVE  OutputAuthorised(prevouts[n].script_pubkey, SignersOf(to_sign, prevouts, n))
<1> DEFINE spend == Parse(to_sign, prevouts, n)
<1>1. SpendOK(spend, prevouts[n].script_pubkey, ItemsOf(to_sign, n))
    BY Parsed
<1>2. spend.kind \in Kinds
    BY <1>1 DEF SpendOK
<1> HIDE DEF spend
<1>3. CASE spend.kind = "p2pkh"
    BY <1>1, <1>3, P2pkhAuthorised DEF VerifyInput, spend
<1>4. CASE spend.kind = "p2wpkh"
    BY <1>1, <1>4, P2wpkhAuthorised DEF VerifyInput, spend
<1>5. CASE spend.kind = "p2sh"
    BY <1>1, <1>5, P2shAuthorised DEF VerifyInput, spend
<1>6. CASE spend.kind = "p2wsh"
    BY <1>1, <1>6, P2wshAuthorised DEF VerifyInput, spend
<1>7. CASE spend.kind = "p2tr"
    BY <1>1, <1>7, P2trAuthorised DEF VerifyInput, spend
<1>8. CASE spend.kind = "unknown"
    BY <1>8 DEF VerifyInput, spend
<1>9. CASE spend.kind = "bare"
    BY <1>1, <1>9, BareAuthorised DEF VerifyInput, spend
<1> QED BY <1>2, <1>3, <1>4, <1>5, <1>6, <1>7, <1>8, <1>9 DEF Kinds

(* The evaluation has three outcomes.                                      *)
LEMMA ThreeOutcomes ==
    ASSUME NEW to_sign, NEW prevouts, NEW n, InputOK(to_sign, n),
           Parse(to_sign, prevouts, n) # Malformed
    PROVE  VerifyInput(to_sign, prevouts, n, Parse(to_sign, prevouts, n))
               \in {"valid", "inconclusive", "invalid"}
<1> DEFINE spend == Parse(to_sign, prevouts, n)
<1>1. spend.kind \in Kinds
    BY Parsed DEF SpendOK
<1> HIDE DEF spend
<1>2. VerifyWithInterpreter(to_sign, prevouts, n, spend) \in {"valid", "inconclusive", "invalid"}
    BY DEF VerifyWithInterpreter
<1>3. VerifyScript(to_sign, prevouts, n, spend) \in {"valid", "inconclusive", "invalid"}
    BY <1>2 DEF VerifyScript, ValidIf
<1>4. VerifyP2tr(to_sign, prevouts, n, spend) \in {"valid", "inconclusive", "invalid"}
    BY <1>2 DEF VerifyP2tr, VerifyTapscript, VerifySimpleTapscript
<1>5. /\ VerifyP2pkh(to_sign, n, spend) \in {"valid", "invalid"}
      /\ VerifyP2wpkh(to_sign, prevouts, n, spend) \in {"valid", "invalid"}
    BY DEF VerifyP2pkh, VerifyP2wpkh, ValidIf
<1>6. VerifyInput(to_sign, prevouts, n, spend) \in {"valid", "inconclusive", "invalid"}
    BY <1>1, <1>2, <1>3, <1>4, <1>5 DEF VerifyInput, Kinds
<1> QED BY <1>6 DEF spend

-----------------------------------------------------------------------------
(* What the verifier gives up on.                                          *)

LEMMA InterpreterGaveUp ==
    ASSUME NEW to_sign, NEW prevouts, NEW n, NEW spend, NEW items,
           spend.stack \in Seq(items),
           VerifyWithInterpreter(to_sign, prevouts, n, spend) = "inconclusive"
    PROVE  \/ \E item \in items : IsOp(item) \/ item.kind = "number"
           \/ ~ChecksKeys(spend.script, ContextKeys(spend))
<1>1. ~InterpreterParses(spend)
    BY DEF VerifyWithInterpreter
<1>2. \A j \in DOMAIN spend.stack : spend.stack[j] \in items
    BY LenProperties, ElementOfSeq
<1> QED BY <1>1, <1>2 DEF InterpreterParses

LEMMA SuccessIsNoKey ==
    ASSUME NEW script, NEW j \in DOMAIN Ops(script), Ops(script)[j] = "success"
    PROVE  ~ChecksKeys(script, Points)
<1>1. "success" \notin Points \cup {"checksig", "checksigverify"}
    BY WordAssumption DEF Points, Words, OpCodes
<1> QED BY <1>1, ElementOfSeq, LenProperties DEF ChecksKeys

LEMMA LeafGaveUp ==
    ASSUME NEW to_sign, NEW prevouts, NEW n, NEW spend, spend.kind = "p2tr",
           NEW items, spend.stack \in Seq(items),
           NEW leaf, spend.script = ScriptOf(leaf), ~spend.annex,
           VerifyTapscript(to_sign, prevouts, n, spend, "valid") = "inconclusive"
    PROVE  \/ \E item \in items : IsOp(item) \/ item.kind = "number"
           \/ leaf.kind = "script" /\ ReservedLeaf(leaf.data)
<1> DEFINE script == spend.script
           ops == Ops(script)
<1>1. ContextKeys(spend) = Points
    BY DEF ContextKeys
<1>2. CASE ContainsOpSuccess(script)
    <2>1. script.type = "script" /\ script.ops = ops
        BY <1>2 DEF ContainsOpSuccess, Ops
    <2>2. leaf.kind = "script" /\ script = leaf.data
        BY <1>2, <2>1 DEF ScriptOf, Script, ContainsOpSuccess
    <2>3. ~ChecksKeys(script, Points)
        BY <1>2, SuccessIsNoKey DEF ContainsOpSuccess
    <2>4. ReservedScript(script, Points)
        BY <1>2, <2>1, <2>3 DEF ContainsOpSuccess, ReservedScript
    <2> QED BY <2>2, <2>4 DEF ReservedLeaf
<1>3. CASE ~ContainsOpSuccess(script)
    <2>1. Minimal(script) /\ ~(ops = << >> /\ ScriptLen(script) = 0)
        BY <1>3 DEF VerifyTapscript
    <2>2. leaf.kind = "script" /\ script = leaf.data
        BY <2>1 DEF ScriptOf, Script, Minimal, Ops, BadPushes, ScriptLen
    <2>3. SUFFICES ASSUME script.type = "script",
                          ~\E item \in items : IsOp(item) \/ item.kind = "number"
                   PROVE  ReservedScript(script, Points)
        BY <2>2 DEF ReservedLeaf
    <2>4. ops = script.ops
        BY <2>3 DEF Ops
    <2>5. CASE IsSimpleTapscript(script)
        <3>1. VerifySimpleTapscript(to_sign, prevouts, n, spend, "valid") = "inconclusive"
            BY <1>3, <2>1, <2>5 DEF VerifyTapscript
        <3>2. ops[1] \notin Points /\ ops[1] \notin {"zero", "long", "off_curve"}
            BY <3>1 DEF VerifySimpleTapscript
        <3>3. ops \notin UnusableKeyOps
            BY <3>2 DEF UnusableKeyOps
        <3>4. ~ChecksKeys(script, Points)
            BY <2>5, <3>2, LenProperties DEF ChecksKeys, IsSimpleTapscript
        <3> QED BY <2>1, <2>3, <2>4, <3>3, <3>4 DEF ReservedScript
    <2>6. CASE ~IsSimpleTapscript(script)
        <3>1. VerifyWithInterpreter(to_sign, prevouts, n, spend) = "inconclusive"
            BY <1>3, <2>1, <2>6 DEF VerifyTapscript
        <3>2. ~ChecksKeys(script, Points)
            BY <1>1, <2>3, <3>1, InterpreterGaveUp
        <3>3. ops \notin UnusableKeyOps
            BY <2>6 DEF UnusableKeyOps, IsSimpleTapscript, OpCodes
        <3> QED BY <2>1, <2>3, <2>4, <3>2, <3>3 DEF ReservedScript
    <2> QED BY <2>5, <2>6
<1> QED BY <1>2, <1>3

LEMMA P2trGaveUp ==
    ASSUME NEW to_sign, NEW prevouts, NEW n, NEW spend, spend.kind = "p2tr",
           SpendOK(spend, prevouts[n].script_pubkey, ItemsOf(to_sign, n)),
           VerifyP2tr(to_sign, prevouts, n, spend) = "inconclusive"
    PROVE  ReservedInput(to_sign, prevouts, n)
<1>1. /\ prevouts[n].script_pubkey.type = "p2tr"
      /\ spend.stack \in Seq(ItemsOf(to_sign, n))
      /\ spend.annex => \E item \in ItemsOf(to_sign, n) : item.kind = "annex"
      /\ spend.control # None =>
             /\ \E item \in ItemsOf(to_sign, n) :
                    item.kind = "control" /\ item.data = spend.control
             /\ \E item \in ItemsOf(to_sign, n) : spend.script = ScriptOf(item)
    BY DEF SpendOK
<1>2. CASE spend.annex
    BY <1>1, <1>2 DEF ReservedInput
<1>3. CASE ~spend.annex /\ spend.control = None
    BY <1>3 DEF VerifyP2tr
<1>4. CASE ~spend.annex /\ spend.control # None
    <2>1. CASE spend.control.version # "tapscript"
        BY <1>1, <1>4, <2>1 DEF ReservedInput
    <2>2. CASE spend.control.version = "tapscript"
        <3>1. VerifyTapscript(to_sign, prevouts, n, spend, "valid") = "inconclusive"
            BY <1>4, <2>2 DEF VerifyP2tr
        <3>2. PICK leaf \in ItemsOf(to_sign, n) : spend.script = ScriptOf(leaf)
            BY <1>1, <1>4
        <3>3. \/ \E item \in ItemsOf(to_sign, n) : IsOp(item) \/ item.kind = "number"
              \/ leaf.kind = "script" /\ ReservedLeaf(leaf.data)
            BY <1>1, <1>4, <3>1, <3>2, LeafGaveUp
        <3> QED BY <1>1, <3>2, <3>3 DEF ReservedInput
    <2> QED BY <2>1, <2>2
<1> QED BY <1>2, <1>3, <1>4

(* The scripts of P2WSH, P2SH and bare outputs.                            *)
LEMMA ScriptGaveUp ==
    ASSUME NEW to_sign, NEW prevouts, NEW n, NEW spend,
           spend.kind \in {"p2wsh", "p2sh", "bare"},
           SpendOK(spend, prevouts[n].script_pubkey, ItemsOf(to_sign, n)),
           VerifyWithInterpreter(to_sign, prevouts, n, spend) = "inconclusive",
           spend.kind # "bare" => ~ParsesMultisig(spend.script)
    PROVE  ReservedInput(to_sign, prevouts, n)
<1> DEFINE spk == prevouts[n].script_pubkey
           script == spend.script
           keys == IF spk = P2wsh(Core(spk)) \/ spk = P2sh(P2wsh(Core(spk)))
                      THEN Compressed ELSE Key
<1>1. SUFFICES ASSUME ~ForeignForm(spk),
                      ~\E item \in ItemsOf(to_sign, n) : IsOp(item) \/ item.kind = "number"
               PROVE  ReservedInput(to_sign, prevouts, n)
    BY DEF ReservedInput
<1>2. spend.stack \in Seq(ItemsOf(to_sign, n)) /\ Minimal(script)
    BY DEF SpendOK
<1>3. ~ChecksKeys(script, ContextKeys(spend))
    BY <1>1, <1>2, InterpreterGaveUp
<1>4. Compressed # Points /\ Key # Points
    <2>1. PICK key \in Key : Point[key] \notin Key
        BY PointAssumption, WordAssumption
    <2> QED BY <2>1, DataAssumption DEF Points
<1>5. CASE spend.kind = "p2wsh"
    <2>1. Unwrapped(spk) = P2wsh(script) /\ Core(spk) = script
        BY <1>5 DEF SpendOK, Core, P2wsh
    <2>2. keys = Compressed /\ ContextKeys(spend) = Compressed
        BY <1>5, <2>1 DEF SpendOK, ContextKeys
    <2>3. script.type = "multisig" \/ script.type = "script"
        BY <1>1, <2>1 DEF ForeignForm, P2wsh
    <2>4. ReservedScript(script, keys)
        BY <1>2, <1>3, <1>4, <1>5, <2>2, <2>3 DEF ReservedScript
    <2> QED BY <2>1, <2>4 DEF ReservedInput
<1>6. CASE spend.kind = "p2sh"
    <2>1. spk.type = "p2sh" /\ spk.script = script /\ ~IsWitnessProgram(script)
        BY <1>6 DEF SpendOK
    <2>2. script.type \in {"p2wpkh", "p2wsh", "multisig", "script"}
        BY <1>1, <2>1 DEF ForeignForm
    <2>3. script.type \in {"multisig", "script"}
        BY <1>1, <2>1, <2>2 DEF ForeignForm, Unwrapped, IsWitnessProgram
    <2>4. Core(spk) = script
        BY <2>1, <2>3 DEF Core, Unwrapped
    <2>5. keys = Key /\ ContextKeys(spend) = Key
        BY <1>6, <2>1, <2>3, <2>4 DEF ContextKeys, P2sh, P2wsh
    <2>6. ReservedScript(script, keys)
        BY <1>2, <1>3, <1>4, <1>6, <2>3, <2>5 DEF ReservedScript
    <2> QED BY <2>4, <2>6 DEF ReservedInput
<1>7. CASE spend.kind = "bare"
    <2>1. /\ script = spk /\ ~IsWitnessProgram(spk)
          /\ spk.type \notin {"p2sh", "p2pkh"}
        BY <1>7 DEF SpendOK
    <2>2. spk.type = "script" /\ spk # None
        BY <1>1, <2>1 DEF ForeignForm, IsWitnessProgram
    <2>3. Core(spk) = spk
        BY <2>2 DEF Core, Unwrapped
    <2>4. keys = Key /\ ContextKeys(spend) = Key
        BY <1>7, <2>2, <2>3 DEF ContextKeys, P2sh, P2wsh
    <2>5. ReservedScript(script, keys)
        BY <1>2, <1>3, <1>4, <2>1, <2>2, <2>4 DEF ReservedScript
    <2> QED BY <2>1, <2>3, <2>5 DEF ReservedInput
<1> QED BY <1>5, <1>6, <1>7

(* An input is given up on only where something reserved shows: the        *)
(* evaluation (verify_input and all it calls) answers inconclusive for no  *)
(* other output, script, leaf or stack.                                    *)
THEOREM InconclusiveInputIsReserved ==
    ASSUME NEW to_sign, NEW prevouts, NEW n, InputOK(to_sign, n),
           Parse(to_sign, prevouts, n) # Malformed,
           VerifyInput(to_sign, prevouts, n, Parse(to_sign, prevouts, n)) = "inconclusive"
    PROVE  ReservedInput(to_sign, prevouts, n)
<1> DEFINE spend == Parse(to_sign, prevouts, n)
           spk == prevouts[n].script_pubkey
<1>1. SpendOK(spend, spk, ItemsOf(to_sign, n)) /\ spend.kind \in Kinds
    BY Parsed DEF SpendOK
<1> HIDE DEF spend
<1>2. CASE spend.kind \in {"p2pkh", "p2wpkh"}
    BY <1>2 DEF VerifyInput, VerifyP2pkh, VerifyP2wpkh, ValidIf, spend
<1>3. CASE spend.kind \in {"p2sh", "p2wsh"}
    <2>1. VerifyScript(to_sign, prevouts, n, spend) = "inconclusive"
        BY <1>3 DEF VerifyInput, spend
    <2>2. /\ ~ParsesMultisig(spend.script)
          /\ VerifyWithInterpreter(to_sign, prevouts, n, spend) = "inconclusive"
        BY <2>1 DEF VerifyScript, ValidIf
    <2> QED BY <1>1, <1>3, <2>2, ScriptGaveUp
<1>4. CASE spend.kind = "bare"
    <2>1. VerifyWithInterpreter(to_sign, prevouts, n, spend) = "inconclusive"
        BY <1>4 DEF VerifyInput, spend
    <2> QED BY <1>1, <1>4, <2>1, ScriptGaveUp
<1>5. CASE spend.kind = "p2tr"
    <2>1. VerifyP2tr(to_sign, prevouts, n, spend) = "inconclusive"
        BY <1>5 DEF VerifyInput, spend
    <2> QED BY <1>1, <1>5, <2>1, P2trGaveUp
<1>6. CASE spend.kind = "unknown"
    <2>1. \/ spk.type = "p2sh" /\ spk.script.type = "p2tr"
          \/ Unwrapped(spk).type = "program"
        BY <1>1, <1>6 DEF SpendOK
    <2>2. ForeignForm(spk)
        BY <2>1 DEF ForeignForm, Unwrapped
    <2> QED BY <2>2 DEF ReservedInput
<1> QED BY <1>1, <1>2, <1>3, <1>4, <1>5, <1>6 DEF Kinds

-----------------------------------------------------------------------------
(* What satisfied inputs are made of.                                      *)

(* Signatures, keys, scripts and OP_0 are no opcodes.                      *)
LEMMA PlainItems ==
    ASSUME NEW script_sig, ScriptSigLen(script_sig) <= MaxScriptSize,
           \A j \in DOMAIN script_sig :
               script_sig[j].kind \in {"signature", "key", "empty", "script"}
    PROVE  CheckScriptSig(script_sig) /\ PushOnly(script_sig)
<1>1. \A j \in DOMAIN script_sig : ~IsOp(script_sig[j]) /\ script_sig[j].kind # "nonminimal"
    BY DEF IsOp
<1>2. { j \in DOMAIN script_sig : IsOp(script_sig[j]) } = {}
    BY <1>1
<1>3. Cardinality({ j \in DOMAIN script_sig : IsOp(script_sig[j]) }) = 0
    BY <1>2, FS_EmptySet
<1> QED BY <1>1, <1>3, LimitAssumption DEF CheckScriptSig, PushOnly

(* A signature that is made as asked verifies.                             *)
LEMMA EcdsaMade ==
    ASSUME NEW key, NEW sighash
    PROVE  LET item == EcdsaBy(key, sighash) IN
               /\ EcdsaVerifies(item, Point[key], sighash)
               /\ item.kind = "signature" /\ item.data.scheme = "ecdsa"
               /\ item.data.sighash_type = "ALL" /\ item # EmptyItem
BY DEF EcdsaBy, SigItem, Signature, EcdsaVerifies, EmptyItem

LEMMA SchnorrMade ==
    ASSUME NEW item, NEW point, NEW to_sign, NEW prevouts, NEW n, NEW spend,
           spend.annex = FALSE,
           SchnorrBy(item, point, to_sign.tx, n,
                     IF spend.control = None THEN None
                     ELSE [annex |-> FALSE, script |-> spend.script], prevouts)
    PROVE  /\ SchnorrVerifies(item, point, to_sign, prevouts, n, spend)
           /\ item.kind = "signature" /\ item.data.scheme = "schnorr"
           /\ item.data.sighash_type \in {"ALL", "DEFAULT"} /\ item # EmptyItem
<1> DEFINE covers == IF spend.control = None THEN None
                     ELSE [annex |-> FALSE, script |-> spend.script]
<1>1. PICK type \in {"ALL", "DEFAULT"} :
          item = SigItem(Signature("schnorr", point,
                             Sighash("taproot", to_sign.tx, n, covers, prevouts, type), type))
    BY DEF SchnorrBy
<1>2. /\ item.kind = "signature" /\ item.data.scheme = "schnorr"
      /\ item.data.sighash_type = type /\ item.data.point = point
      /\ item.data.sighash = Sighash("taproot", to_sign.tx, n, covers, prevouts, type)
    BY <1>1 DEF SigItem, Signature
<1>3. SpendSighash(to_sign, prevouts, n, spend, type)
          = Sighash("taproot", to_sign.tx, n, covers, prevouts, type)
    BY DEF SpendSighash
<1>4. item # EmptyItem
    BY <1>2 DEF EmptyItem
<1> QED BY <1>2, <1>3, <1>4 DEF SchnorrVerifies

(* A multisig script and a chain of CHECKSIG have nothing in them that a   *)
(* rule of the verifier is about.                                          *)
PlainScript(s) ==
    /\ ~ContainsCodeseparator(s) /\ ~ContainsOpSuccess(s)
    /\ ~IsNakedZeroTimelock(s) /\ Minimal(s)

LEMMA NoInstructions ==
    ASSUME NEW s, Ops(s) = << >>
    PROVE  PlainScript(s)
BY DEF PlainScript, ContainsCodeseparator, ContainsOpSuccess, IsNakedZeroTimelock, Minimal

LEMMA ChainIsPlain ==
    ASSUME NEW s, NEW keys, keys \subseteq Key \cup Points, ChecksKeys(s, keys)
    PROVE  /\ PlainScript(s) /\ s.type = "script"
           /\ Ops(s)[1] \in keys
           /\ Len(Ops(s)) \in Nat /\ Len(Ops(s)) >= 2 /\ Len(Ops(s)) % 2 = 0
           /\ CheckedKeys(s)[1] = Ops(s)[1]
           /\ DOMAIN CheckedKeys(s) = 1 .. (Len(Ops(s)) \div 2)
           /\ Len(CheckedKeys(s)) = Len(Ops(s)) \div 2
<1> DEFINE ops == Ops(s) size == Len(ops)
<1>1. \A key \in keys : key \notin Words
    BY WordAssumption DEF Points
<1>2. /\ ops \in Seq(keys \cup {"checksig", "checksigverify"}) /\ ops # << >>
      /\ size % 2 = 0
      /\ \A j \in DOMAIN ops :
             IF j % 2 = 1 THEN ops[j] \in keys
             ELSE ops[j] = IF j = size THEN "checksig" ELSE "checksigverify"
    BY DEF ChecksKeys
<1>3. size \in Nat /\ size # 0 /\ DOMAIN ops = 1 .. size
    BY <1>2, EmptySeq, LenProperties
<1>4. size >= 2
    <2> HIDE DEF size
    <2> QED BY <1>2, <1>3
<1>5. s.type = "script"
    BY <1>2 DEF Ops
<1>6. ops[1] \in keys
    BY <1>2, <1>3, <1>4
<1>7. \A j \in DOMAIN ops :
          ops[j] \notin BadPushes \cup {"codeseparator", "success", "zero"}
    BY <1>1, <1>2 DEF Words, OpCodes, BadPushes
<1>8. ops # <<"zero", "timelock">>
    BY <1>3, <1>4, <1>7
<1>9. PlainScript(s)
    BY <1>7, <1>8 DEF PlainScript, ContainsCodeseparator, ContainsOpSuccess,
                      IsNakedZeroTimelock, Minimal
<1>10. CheckedKeys(s) = [j \in 1 .. size \div 2 |-> ops[2 * j - 1]]
    BY DEF CheckedKeys
<1>11. size \div 2 \in Nat /\ size \div 2 >= 1
    <2> HIDE DEF size
    <2> QED BY <1>3, <1>4
<1>12. Len(CheckedKeys(s)) = size \div 2 /\ DOMAIN CheckedKeys(s) = 1 .. size \div 2
    <2> HIDE DEF size
    <2> QED BY <1>10, <1>11
<1>13. CheckedKeys(s)[1] = ops[1]
    <2>1. 1 \in 1 .. size \div 2 /\ 2 * 1 - 1 = 1
        BY <1>11
    <2> QED BY <1>10, <2>1
<1> QED BY <1>3, <1>4, <1>2, <1>5, <1>6, <1>9, <1>12, <1>13

LEMMA MultisigIsPlain ==
    ASSUME NEW s, ParsesMultisig(s)
    PROVE  PlainScript(s)
BY NoInstructions DEF ParsesMultisig, Ops

-----------------------------------------------------------------------------
(* The stacks, under the scripts that they are for.                        *)

Signatures(stack) == \A j \in DOMAIN stack : stack[j].kind \in {"signature", "empty"}

LEMMA MultisigVerifies ==
    ASSUME NEW S, NEW stack \in Seq(S), NEW s, NEW sighash, MultisigStack(s, stack, sighash)
    PROVE  Checkmultisig(stack, s, sighash) /\ Signatures(stack)
<1> DEFINE m == s.required
<1>1. /\ ParsesMultisig(s) /\ Len(stack) = m + 1 /\ stack[1] = EmptyItem
      /\ \E f \in [1 .. m -> DOMAIN s.keys] :
             /\ \A h, j \in DOMAIN f : h < j => f[h] < f[j]
             /\ \A j \in DOMAIN f : stack[j + 1] = EcdsaBy(s.keys[f[j]], sighash)
    BY DEF MultisigStack
<1>2. PICK f \in [1 .. m -> DOMAIN s.keys] :
          /\ \A h, j \in DOMAIN f : h < j => f[h] < f[j]
          /\ \A j \in DOMAIN f : stack[j + 1] = EcdsaBy(s.keys[f[j]], sighash)
    BY <1>1
<1>3. \A j \in DOMAIN f : EcdsaVerifies(stack[j + 1], Point[s.keys[f[j]]], sighash)
    BY <1>2, EcdsaMade
<1>4. Checkmultisig(stack, s, sighash)
    BY <1>1, <1>2, <1>3 DEF Checkmultisig
<1>5. m \in Nat /\ DOMAIN stack = 1 .. m + 1
    BY <1>1, LenProperties DEF ParsesMultisig
<1>6. ASSUME NEW j \in DOMAIN stack, j # 1
      PROVE  stack[j].kind = "signature"
    <2>1. j - 1 \in 1 .. m /\ (j - 1) + 1 = j
        BY <1>5, <1>6
    <2>2. stack[j] = EcdsaBy(s.keys[f[j - 1]], sighash)
        BY <1>2, <2>1
    <2> QED BY <2>2, EcdsaMade
<1> QED BY <1>1, <1>4, <1>6 DEF Signatures, EmptyItem

LEMMA ChainVerifies ==
    ASSUME NEW to_sign, NEW prevouts, NEW n, NEW spend, NEW S, spend.stack \in Seq(S),
           spend.kind \in {"p2wsh", "p2sh", "bare"},
           ChecksKeys(spend.script, ContextKeys(spend)),
           Len(spend.stack) = Len(CheckedKeys(spend.script)),
           \A j \in DOMAIN spend.stack :
               spend.stack[j] = EcdsaBy(CheckedKeys(spend.script)[Len(spend.stack) + 1 - j],
                                        ScriptSighash(to_sign, prevouts, n, spend))
    PROVE  /\ VerifyWithInterpreter(to_sign, prevouts, n, spend) = "valid"
           /\ Signatures(spend.stack)
<1> DEFINE stack == spend.stack
           keys == CheckedKeys(spend.script)
           size == Len(stack)
           sighash == ScriptSighash(to_sign, prevouts, n, spend)
<1>1. size \in Nat /\ DOMAIN stack = 1 .. size
    BY LenProperties
<1>2. ContextKeys(spend) \subseteq Key \cup Points
    BY DataAssumption DEF ContextKeys
<1>3. DOMAIN keys = 1 .. size
    BY <1>2, ChainIsPlain
<1>4. \A j \in DOMAIN stack :
          /\ stack[j].kind = "signature" /\ stack[j].data.scheme = "ecdsa"
          /\ stack[j].data.sighash_type = "ALL"
    BY EcdsaMade
<1>5. InterpreterParses(spend)
    BY <1>4 DEF InterpreterParses, IsOp
<1>6. ASSUME NEW j \in DOMAIN keys
      PROVE  InterpreterVerifies(ItemFor(spend, j), keys[j], to_sign, prevouts, n, spend)
    <2>1. size + 1 - j \in DOMAIN stack /\ size + 1 - (size + 1 - j) = j
        BY <1>1, <1>3
    <2>2. ItemFor(spend, j) = EcdsaBy(keys[j], sighash)
        BY <2>1 DEF ItemFor
    <2>3. [ScriptSighash(to_sign, prevouts, n, spend) EXCEPT !.sighash_type = "ALL"]
              = ScriptSighash(to_sign, prevouts, n, spend)
        BY DEF ScriptSighash, SegwitSighash, LegacySighash, Sighash
    <2> HIDE DEF sighash
    <2>4. /\ ItemFor(spend, j).kind = "signature"
          /\ ItemFor(spend, j).data.scheme = "ecdsa"
          /\ ItemFor(spend, j).data.point = Point[keys[j]]
          /\ ItemFor(spend, j).data.sighash_type = "ALL"
          /\ ItemFor(spend, j).data.sighash = sighash
        BY <2>2 DEF EcdsaBy, SigItem, Signature
    <2> QED BY <2>3, <2>4 DEF InterpreterVerifies, sighash
<1>7. InterpreterAccepts(to_sign, prevouts, n, spend)
    BY <1>6 DEF InterpreterAccepts
<1>8. \A j \in DOMAIN stack : RequiredSignature(stack[j], spend)
    BY <1>4 DEF RequiredSignature
<1> QED BY <1>4, <1>5, <1>7, <1>8 DEF VerifyWithInterpreter, Signatures

LEMMA StackVerifies ==
    ASSUME NEW to_sign, NEW prevouts, NEW n, NEW spend, NEW S, spend.stack \in Seq(S),
           spend.kind \in {"p2wsh", "p2sh", "bare"},
           ScriptStack(spend.script, ContextKeys(spend), spend.stack,
                       ScriptSighash(to_sign, prevouts, n, spend))
    PROVE  /\ CheckScript(spend.script) /\ PlainScript(spend.script)
           /\ spend.script.type \in {"multisig", "script"}
           /\ Signatures(spend.stack)
           /\ VerifyScript(to_sign, prevouts, n, spend) = "valid"
           /\ ~ParsesMultisig(spend.script) =>
                  VerifyWithInterpreter(to_sign, prevouts, n, spend) = "valid"
<1> DEFINE s == spend.script
           sighash == ScriptSighash(to_sign, prevouts, n, spend)
           stack == spend.stack
<1>1. /\ CheckScript(s)
      /\ \/ MultisigStack(s, stack, sighash)
         \/ /\ ChecksKeys(s, ContextKeys(spend))
            /\ Len(stack) = Len(CheckedKeys(s))
            /\ \A j \in DOMAIN stack :
                   stack[j] = EcdsaBy(CheckedKeys(s)[Len(stack) + 1 - j], sighash)
    BY DEF ScriptStack, ChainStack
<1>2. CASE MultisigStack(s, stack, sighash)
    <2>1. ParsesMultisig(s) /\ s.type = "multisig"
        BY <1>2 DEF MultisigStack, ParsesMultisig
    <2>2. Checkmultisig(stack, s, sighash) /\ Signatures(stack)
        BY <1>2, MultisigVerifies
    <2> QED BY <1>1, <2>1, <2>2, MultisigIsPlain DEF VerifyScript, ValidIf
<1>3. CASE ~MultisigStack(s, stack, sighash)
    <2>1. /\ VerifyWithInterpreter(to_sign, prevouts, n, spend) = "valid"
          /\ Signatures(stack)
        BY <1>1, <1>3, ChainVerifies
    <2>2. ContextKeys(spend) \subseteq Key \cup Points
        BY DataAssumption DEF ContextKeys
    <2>3. PlainScript(s) /\ s.type = "script"
        BY <1>1, <1>3, <2>2, ChainIsPlain
    <2>4. ~ParsesMultisig(s)
        BY <2>3 DEF ParsesMultisig
    <2> QED BY <1>1, <2>1, <2>3, <2>4 DEF VerifyScript
<1> QED BY <1>2, <1>3

-----------------------------------------------------------------------------
(* The spends.                                                             *)

Evaluated(to_sign, prevouts, n, spend) ==
    \/ spend.kind = "p2pkh" /\ VerifyP2pkh(to_sign, n, spend) = "valid"
    \/ spend.kind = "p2wpkh" /\ VerifyP2wpkh(to_sign, prevouts, n, spend) = "valid"
    \/ /\ spend.kind \in {"p2sh", "p2wsh"} /\ PlainScript(spend.script)
       /\ VerifyScript(to_sign, prevouts, n, spend) = "valid"
    \/ spend.kind = "bare" /\ VerifyWithInterpreter(to_sign, prevouts, n, spend) = "valid"
    \/ /\ spend.kind = "p2tr" /\ VerifyP2tr(to_sign, prevouts, n, spend) = "valid"
       /\ spend.control # None => PlainScript(spend.script)

(* What the verifier asks of an input, of its parsing and of its scripts.  *)
Accepted(to_sign, prevouts, n, spend) ==
    /\ spend # Malformed
    /\ VerifyInput(to_sign, prevouts, n, spend) = "valid"
    /\ ~SpendsCodeseparator(to_sign, prevouts, n, spend)
    /\ IsWitnessSpend(spend) \/ Algorithm(prevouts[n].script_pubkey) = "legacy"

LEMMA EvaluatedAccepted ==
    ASSUME NEW to_sign, NEW prevouts, NEW n, NEW spend,
           Evaluated(to_sign, prevouts, n, spend),
           PlainScript(prevouts[n].script_pubkey),
           PushOnly(to_sign.script_sig[n]),
           IsWitnessSpend(spend) \/ Algorithm(prevouts[n].script_pubkey) = "legacy"
    PROVE  Accepted(to_sign, prevouts, n, spend)
<1>1. \A s \in {prevouts[n].script_pubkey} \cup InnerScripts(spend) : PlainScript(s)
    BY DEF InnerScripts, Evaluated
<1>2. ~HasNakedZeroTimelock(prevouts, n, spend)
    BY <1>1 DEF HasNakedZeroTimelock, PlainScript
<1>3. ~SpendsCodeseparator(to_sign, prevouts, n, spend)
    <2>1. \A j \in DOMAIN to_sign.script_sig[n] : to_sign.script_sig[n][j] # CodeseparatorItem
        BY DEF PushOnly, IsOp, CodeseparatorItem, Item
    <2> QED BY <1>1, <2>1 DEF SpendsCodeseparator, PlainScript
<1>4. VerifyInput(to_sign, prevouts, n, spend) = "valid"
    BY <1>2 DEF VerifyInput, Evaluated
<1>5. spend # Malformed
    BY DEF Evaluated, Malformed
<1> QED BY <1>3, <1>4, <1>5 DEF Accepted

LEMMA ScriptRead ==
    ASSUME NEW item, NEW script, item = ScriptItem(script)
    PROVE  ScriptOf(item) = script /\ item.kind = "script" /\ item.data = script
<1>1. item.kind = "script" /\ item.data = script
    BY DEF ScriptItem
<1>2. item # EmptyItem
    BY <1>1 DEF EmptyItem
<1> QED BY <1>1, <1>2, Zenon DEF ScriptOf

LEMMA WitnessEvaluated ==
    ASSUME NEW to_sign, NEW prevouts, NEW n, NEW S, NEW witness \in Seq(S),
           NEW program, program # None, NEW nested \in BOOLEAN,
           WitnessSatisfied(program, witness, to_sign.tx, n, prevouts[n].value)
    PROVE  /\ IsWitnessProgram(program) /\ program.type # "p2sh" /\ Ops(program) = << >>
           /\ IsWitnessSpend(WitnessKind(witness, program, nested))
           /\ Evaluated(to_sign, prevouts, n, WitnessKind(witness, program, nested))
<1> DEFINE spend == WitnessKind(witness, program, nested)
           value == prevouts[n].value
<1>1. CASE \E key \in Compressed :
               /\ program = P2wpkh(key)
               /\ witness = KeyStack(key, SegwitSighash(to_sign.tx, n, program, value))
    <2>1. PICK key \in Compressed :
               /\ program = P2wpkh(key)
               /\ witness = KeyStack(key, SegwitSighash(to_sign.tx, n, program, value))
        BY <1>1
    <2> DEFINE sighash == SegwitSighash(to_sign.tx, n, program, value)
               signature == EcdsaBy(key, sighash)
    <2>2. witness = <<signature, KeyItem(key)>>
        BY <2>1 DEF KeyStack
    <2>3. program.type = "p2wpkh"
        BY <2>1 DEF P2wpkh
    <2>4. EcdsaVerifies(signature, Point[key], sighash) /\ signature.kind = "signature"
        BY EcdsaMade
    <2> HIDE DEF signature, sighash
    <2>5. Len(witness) = 2 /\ witness[1] = signature /\ witness[2] = KeyItem(key)
        BY <2>2
    <2>6. CheckWitnessStack(witness)
        <3>1. \A j \in DOMAIN witness : witness[j].kind \in {"signature", "key"}
            BY <2>2, <2>4 DEF KeyItem
        <3>2. Len(witness) <= MaxStackSize
            BY <2>5, LimitAssumption
        <3>3. \A j \in DOMAIN witness : ItemLen(witness[j]) <= MaxElementSize
            BY <3>1, ShortItem
        <3> QED BY <3>2, <3>3 DEF CheckWitnessStack
    <2>7. spend = SpendOf("p2wpkh", program, witness)
        BY <2>3, <2>5, <2>6 DEF WitnessKind
    <2>8. spend.kind = "p2wpkh" /\ spend.script = program /\ spend.stack = witness
        BY <2>7 DEF SpendOf
    <2>9. VerifyP2wpkh(to_sign, prevouts, n, spend) = "valid"
        BY <2>1, <2>4, <2>5, <2>8 DEF VerifyP2wpkh, ValidIf, KeyItem, sighash
    <2> QED BY <2>3, <2>8, <2>9 DEF IsWitnessProgram, IsWitnessSpend, Evaluated, Ops
<1>2. CASE LET script == Last(witness).data IN
           /\ witness # << >> /\ Last(witness) = ScriptItem(script)
           /\ program = P2wsh(script)
           /\ CheckWitnessStack(Front(witness))
           /\ ScriptStack(script, Compressed, Front(witness),
                          SegwitSighash(to_sign.tx, n, script, value))
    <2> DEFINE script == Last(witness).data
    <2>1. ScriptOf(Last(witness)) = script
        BY <1>2, ScriptRead
    <2>2. program.type = "p2wsh"
        BY <1>2 DEF P2wsh
    <2>3. CheckScript(script)
        BY <1>2 DEF ScriptStack
    <2>4. spend = SpendOf("p2wsh", script, Front(witness))
        BY <1>2, <2>1, <2>2, <2>3 DEF WitnessKind
    <2>5. spend.kind = "p2wsh" /\ spend.script = script /\ spend.stack = Front(witness)
        BY <2>4 DEF SpendOf
    <2>6. spend.stack \in Seq(S)
        BY <1>2, <2>5, FrontOf
    <2>7. /\ ContextKeys(spend) = Compressed
          /\ ScriptSighash(to_sign, prevouts, n, spend)
                = SegwitSighash(to_sign.tx, n, script, value)
        BY <2>5 DEF ContextKeys, ScriptSighash
    <2> HIDE DEF spend
    <2>8. /\ VerifyScript(to_sign, prevouts, n, spend) = "valid"
          /\ PlainScript(spend.script)
        BY <1>2, <2>5, <2>6, <2>7, StackVerifies
    <2>9. IsWitnessProgram(program) /\ IsWitnessSpend(spend) /\ Ops(program) = << >>
        BY <2>2, <2>5 DEF IsWitnessProgram, IsWitnessSpend, Ops
    <2> QED BY <2>2, <2>5, <2>8, <2>9 DEF Evaluated, spend
<1> QED BY <1>1, <1>2 DEF WitnessSatisfied

LEMMA LeafVerifies ==
    ASSUME NEW to_sign, NEW prevouts, NEW n, NEW spend, NEW S, spend.stack \in Seq(S),
           spend.kind = "p2tr", spend.annex = FALSE, spend.control # None,
           CheckWitnessStack(spend.stack),
           LeafStack(spend.script, spend.stack, to_sign.tx, n, prevouts)
    PROVE  /\ VerifyTapscript(to_sign, prevouts, n, spend, "valid") = "valid"
           /\ PlainScript(spend.script)
<1> DEFINE s == spend.script
           stack == spend.stack
           size == Len(stack)
           keys == CheckedKeys(s)
           covers == [annex |-> FALSE, script |-> s]
<1>1. CASE s = Script(<< >>, 0) /\ Len(stack) = 1 /\ stack[1] # EmptyItem
    <2>1. Ops(s) = << >> /\ ScriptLen(s) = 0
        BY <1>1 DEF Script, Ops, ScriptLen
    <2>2. PlainScript(s)
        BY <2>1, NoInstructions
    <2> QED BY <1>1, <2>1, <2>2 DEF VerifyTapscript, PlainScript
<1>2. CASE /\ ChecksKeys(s, Points) /\ size = Len(keys)
           /\ \A j \in DOMAIN stack :
                  SchnorrBy(stack[j], keys[size + 1 - j], to_sign.tx, n, covers, prevouts)
    <2>1. /\ PlainScript(s) /\ s.type = "script" /\ Ops(s)[1] \in Points
          /\ Len(Ops(s)) \in Nat /\ Len(Ops(s)) >= 2 /\ Len(Ops(s)) % 2 = 0
          /\ keys[1] = Ops(s)[1]
          /\ DOMAIN keys = 1 .. (Len(Ops(s)) \div 2) /\ Len(keys) = Len(Ops(s)) \div 2
        BY <1>2, ChainIsPlain
    <2>2. size \in Nat /\ DOMAIN stack = 1 .. size /\ DOMAIN keys = 1 .. size
        BY <1>2, <2>1, LenProperties
    <2>3. ASSUME NEW j \in DOMAIN stack
          PROVE  /\ SchnorrVerifies(stack[j], keys[size + 1 - j], to_sign, prevouts, n, spend)
                 /\ stack[j].kind = "signature" /\ stack[j].data.scheme = "schnorr"
                 /\ stack[j].data.sighash_type \in {"ALL", "DEFAULT"}
                 /\ stack[j] # EmptyItem
        <3> DEFINE item == stack[j] point == keys[size + 1 - j]
        <3>1. SchnorrBy(item, point, to_sign.tx, n,
                        IF spend.control = None THEN None
                        ELSE [annex |-> FALSE, script |-> spend.script], prevouts)
            BY <1>2, <2>3
        <3> HIDE DEF item, point
        <3>2. /\ SchnorrVerifies(item, point, to_sign, prevouts, n, spend)
              /\ item.kind = "signature" /\ item.data.scheme = "schnorr"
              /\ item.data.sighash_type \in {"ALL", "DEFAULT"} /\ item # EmptyItem
            BY <3>1, SchnorrMade
        <3> QED BY <3>2 DEF item, point
    <2>4. Ops(s) # << >>
        BY <2>1
    <2>5. CASE IsSimpleTapscript(s)
        <3>1. size = 1
            <4>1. Len(Ops(s)) = 2
                BY <2>5 DEF IsSimpleTapscript
            <4> QED BY <1>2, <2>1, <4>1
        <3>2. SchnorrVerifies(stack[1], Ops(s)[1], to_sign, prevouts, n, spend)
            <4>1. 1 \in DOMAIN stack /\ size + 1 - 1 = 1
                BY <2>2, <3>1
            <4> QED BY <2>1, <2>3, <4>1
        <3>3. Ops(s)[1] \notin {"zero", "long", "off_curve"} /\ stack[1] # EmptyItem
            BY <2>1, <2>2, <2>3, <3>1, WordAssumption DEF Points, Words
        <3>4. VerifySimpleTapscript(to_sign, prevouts, n, spend, "valid") = "valid"
            BY <2>1, <3>1, <3>2, <3>3 DEF VerifySimpleTapscript
        <3> QED BY <2>1, <2>4, <2>5, <3>4 DEF VerifyTapscript, PlainScript
    <2>6. CASE ~IsSimpleTapscript(s)
        <3>1. InterpreterParses(spend)
            BY <1>2, <2>3 DEF InterpreterParses, ContextKeys, IsOp
        <3>2. ASSUME NEW j \in DOMAIN keys
              PROVE  InterpreterVerifies(ItemFor(spend, j), keys[j], to_sign, prevouts, n, spend)
            <4>1. size + 1 - j \in DOMAIN stack /\ size + 1 - (size + 1 - j) = j
                BY <2>2
            <4>2. /\ SchnorrVerifies(ItemFor(spend, j), keys[j], to_sign, prevouts, n, spend)
                  /\ ItemFor(spend, j).data.sighash_type \in {"ALL", "DEFAULT"}
                BY <2>3, <4>1 DEF ItemFor
            <4> QED BY <4>2 DEF InterpreterVerifies, SchnorrVerifies, SighashType
        <3>3. InterpreterAccepts(to_sign, prevouts, n, spend)
            BY <1>2, <3>2 DEF InterpreterAccepts
        <3>4. \A j \in DOMAIN stack : RequiredSignature(stack[j], spend)
            <4>1. \A j \in DOMAIN stack : ~HasExplicitDefault(stack[j].data, spend)
                BY <2>3 DEF HasExplicitDefault
            <4> QED BY <2>3, <4>1 DEF RequiredSignature, SighashType
        <3> QED BY <2>1, <2>4, <2>6, <3>1, <3>3, <3>4
                DEF VerifyTapscript, VerifyWithInterpreter, PlainScript
    <2> QED BY <2>1, <2>5, <2>6
<1> QED BY <1>1, <1>2 DEF LeafStack, ChainStack

LEMMA P2trEvaluated ==
    ASSUME NEW to_sign, NEW prevouts, NEW n, NEW S, NEW witness \in Seq(S), NEW spk,
           spk = prevouts[n].script_pubkey,
           \A j \in DOMAIN witness : witness[j].kind = "control" => witness[j].data # None,
           spk.type = "p2tr", spk = P2tr(spk.point, spk.root),
           TaprootSatisfied(spk, witness, to_sign.tx, n, prevouts)
    PROVE  LET spend == WitnessKind(witness, spk, FALSE) IN
               IsWitnessSpend(spend) /\ Evaluated(to_sign, prevouts, n, spend)
<1> DEFINE spend == WitnessKind(witness, spk, FALSE)
           top == Len(witness)
<1>1. spend = TaprootKind(witness)
    BY DEF WitnessKind
<1>2. top \in Nat /\ DOMAIN witness = 1 .. top
    BY LenProperties
<1>3. CASE top = 1 /\ SchnorrBy(witness[1], spk, to_sign.tx, n, None, prevouts)
    <2>1. spend = [SpendOf("p2tr", None, witness) EXCEPT !.annex = FALSE]
        <3>1. ~(top >= 2 /\ Last(witness).kind = "annex") /\ ~(top = 0 \/ top >= 2)
            BY <1>3
        <3> HIDE DEF spend
        <3> QED BY <1>1, <1>3, <3>1 DEF TaprootKind
    <2>2. /\ spend.kind = "p2tr" /\ spend.stack = witness
          /\ spend.annex = FALSE /\ spend.control = None
        BY <2>1 DEF SpendOf
    <2> DEFINE item == witness[1]
    <2> HIDE DEF item, spend
    <2>3. SchnorrVerifies(item, spk, to_sign, prevouts, n, spend)
        <3>1. SchnorrBy(item, spk, to_sign.tx, n,
                        IF spend.control = None THEN None
                        ELSE [annex |-> FALSE, script |-> spend.script], prevouts)
            BY <1>3, <2>2 DEF item
        <3> QED BY <2>2, <3>1, SchnorrMade
    <2>4. VerifyP2tr(to_sign, prevouts, n, spend) = "valid"
        BY <2>2, <2>3 DEF VerifyP2tr, item
    <2> QED BY <2>2, <2>4 DEF Evaluated, IsWitnessSpend, spend
<1>4. CASE ~(top = 1 /\ SchnorrBy(witness[1], spk, to_sign.tx, n, None, prevouts))
    <2> DEFINE stack == SubSeq(witness, 1, top - 2)
    <2>1. /\ top >= 2 /\ spk.root \in DOMAIN Leaves
          /\ witness[top] = ControlItem("tapscript", spk.point, spk.root)
          /\ CheckWitnessStack(stack)
        BY <1>4 DEF TaprootSatisfied
    <2>2. PICK leaf \in Leaves[spk.root] :
              /\ leaf = [version |-> "tapscript", script |-> leaf.script]
              /\ witness[top - 1] = PushOf(leaf.script)
              /\ LeafStack(leaf.script, stack, to_sign.tx, n, prevouts)
        BY <1>4 DEF TaprootSatisfied
    <2> DEFINE control == witness[top].data
               script == ScriptOf(witness[top - 1])
    <2>3. /\ witness[top].kind = "control" /\ control.version = "tapscript"
          /\ control.point = spk.point /\ control.root = spk.root
        BY <2>1 DEF ControlItem, Item
    <2>4. control # None
        BY <1>2, <2>1, <2>3
    <2>5. script = leaf.script
        <3>1. CASE leaf.script = Script(<< >>, 0)
            <4>1. witness[top - 1] = EmptyItem /\ EmptyItem.kind # "script"
                BY <2>2, <3>1 DEF PushOf, EmptyItem
            <4> QED BY <3>1, <4>1 DEF ScriptOf
        <3>2. CASE leaf.script # Script(<< >>, 0)
            BY <2>2, <3>2, ScriptRead DEF PushOf
        <3> QED BY <3>1, <3>2
    <2>6. spend = [SpendOf("p2tr", script, stack) EXCEPT !.annex = FALSE, !.control = control]
        <3>1. Last(witness) = witness[top]
            BY DEF Last
        <3>2. ~(top >= 2 /\ Last(witness).kind = "annex")
            BY <2>3, <3>1
        <3>3. ~(top = 0 \/ (top >= 2 /\ witness[top].kind # "control")) /\ top # 1
            BY <2>1, <2>3
        <3> HIDE DEF spend, stack, script
        <3> QED BY <1>1, <3>2, <3>3 DEF TaprootKind, stack, script
    <2>7. /\ spend.kind = "p2tr" /\ spend.stack = stack /\ spend.script = leaf.script
          /\ spend.annex = FALSE /\ spend.control = control
        BY <2>5, <2>6 DEF SpendOf
    <2>8. stack \in Seq(S)
        <3>1. 1 \in Nat /\ top - 2 \in Nat /\ top - 2 <= top
            BY <1>2, <2>1
        <3> QED BY <1>2, <3>1, SubSeqProperties
    <2> HIDE DEF spend, stack, control
    <2>9. /\ VerifyTapscript(to_sign, prevouts, n, spend, "valid") = "valid"
          /\ PlainScript(spend.script)
        BY <2>1, <2>2, <2>4, <2>7, <2>8, LeafVerifies
    <2>10. LeafCommitted(spend, spk)
        BY <2>1, <2>2, <2>3, <2>7 DEF LeafCommitted, control
    <2>11. VerifyP2tr(to_sign, prevouts, n, spend) = "valid"
        BY <2>3, <2>4, <2>7, <2>9, <2>10 DEF VerifyP2tr, control
    <2> QED BY <2>7, <2>9, <2>11 DEF Evaluated, IsWitnessSpend, spend
<1> QED BY <1>3, <1>4

LEMMA RedeemEvaluated ==
    ASSUME NEW to_sign, NEW prevouts, NEW n, NEW S, NEW script_sig \in Seq(S), NEW spk,
           RedeemSatisfied(spk, script_sig, to_sign.tx, n),
           ScriptSigLen(script_sig) <= MaxScriptSize
    PROVE  LET spend == P2shKind(script_sig, << >>, spk) IN
               /\ spk.type = "p2sh" /\ spk.script.type \in {"multisig", "script"}
               /\ CheckScriptSig(script_sig) /\ PushOnly(script_sig)
               /\ Evaluated(to_sign, prevouts, n, spend)
<1> DEFINE last == Last(script_sig)
           script == last.data
           stack == Front(script_sig)
           parsed == SpendOf("p2sh", script, stack)
<1>1. /\ script_sig # << >> /\ last = ScriptItem(script) /\ spk = P2sh(script)
      /\ CheckWitnessStack(script_sig)
      /\ ScriptStack(script, Key, stack, LegacySighash(to_sign.tx, n, script))
    BY DEF RedeemSatisfied
<1>2. ScriptOf(last) = script /\ last.kind = "script"
    BY <1>1, ScriptRead
<1>3. stack \in Seq(S) /\ Len(stack) = Len(script_sig) - 1
      /\ \A j \in 1 .. Len(script_sig) - 1 : stack[j] = script_sig[j]
    BY <1>1, FrontOf
<1>4. parsed.kind = "p2sh" /\ parsed.script = script /\ parsed.stack = stack
    BY DEF SpendOf
<1>5. /\ ContextKeys(parsed) = Key
      /\ ScriptSighash(to_sign, prevouts, n, parsed) = LegacySighash(to_sign.tx, n, script)
    BY <1>4 DEF ContextKeys, ScriptSighash
<1> HIDE DEF parsed
<1>6. /\ CheckScript(script) /\ PlainScript(script)
      /\ script.type \in {"multisig", "script"} /\ Signatures(stack)
      /\ VerifyScript(to_sign, prevouts, n, parsed) = "valid"
    <2>1. parsed.stack \in Seq(S) /\ parsed.kind \in {"p2wsh", "p2sh", "bare"}
        BY <1>3, <1>4
    <2>2. ScriptStack(parsed.script, ContextKeys(parsed), parsed.stack,
                      ScriptSighash(to_sign, prevouts, n, parsed))
        BY <1>1, <1>4, <1>5
    <2> HIDE DEF script, stack
    <2> QED BY <1>4, <2>1, <2>2, StackVerifies
<1>7. ASSUME NEW j \in DOMAIN script_sig
      PROVE  script_sig[j].kind \in {"signature", "key", "empty", "script"}
    <2>1. Len(script_sig) \in Nat /\ DOMAIN script_sig = 1 .. Len(script_sig)
          /\ DOMAIN stack = 1 .. Len(script_sig) - 1
        BY <1>3, LenProperties
    <2>2. CASE j = Len(script_sig)
        <3>1. script_sig[j] = last
            BY <2>2 DEF Last
        <3> QED BY <1>2, <3>1
    <2>3. CASE j # Len(script_sig)
        <3>1. j \in DOMAIN stack /\ stack[j] = script_sig[j]
            BY <1>3, <2>1, <2>3
        <3> QED BY <1>6, <3>1 DEF Signatures
    <2> QED BY <2>2, <2>3
<1>8. CheckScriptSig(script_sig) /\ PushOnly(script_sig)
    BY <1>7, PlainItems
<1>9. ~IsWitnessProgram(script)
    BY <1>6 DEF IsWitnessProgram
<1>10. ~(PushCount(script_sig) > MaxStackSize)
    <2>1. Len(script_sig) \in Nat /\ DOMAIN script_sig = 1 .. Len(script_sig)
        BY LenProperties
    <2>2. { j \in DOMAIN script_sig : ~IsOp(script_sig[j]) } = 1 .. Len(script_sig)
        BY <1>8, <2>1 DEF PushOnly
    <2>3. Cardinality(1 .. Len(script_sig)) = Len(script_sig)
        <3>1. \A k \in Nat : Cardinality(1 .. k) = k
            BY FS_Interval
        <3> QED BY <2>1, <3>1
    <2>4. PushCount(script_sig) = Len(script_sig)
        BY <2>2, <2>3 DEF PushCount
    <2> QED BY <1>1, <2>1, <2>4, LimitAssumption DEF CheckWitnessStack
<1>11. P2shKind(script_sig, << >>, spk) = parsed
    <2>1. ~IsOp(last) /\ last.kind # "number"
        BY <1>2 DEF IsOp
    <2> QED BY <1>1, <1>2, <1>6, <1>8, <1>9, <1>10, <2>1
            DEF P2shKind, CheckWitnessStack, parsed
<1> QED BY <1>1, <1>4, <1>6, <1>8, <1>11 DEF P2sh, Evaluated

LEMMA P2pkhEvaluated ==
    ASSUME NEW to_sign, NEW prevouts, NEW n, NEW key, NEW script_sig,
           script_sig = KeyStack(key, LegacySighash(to_sign.tx, n, P2pkh(key))),
           ScriptSigLen(script_sig) <= MaxScriptSize
    PROVE  /\ CheckScriptSig(script_sig) /\ PushOnly(script_sig)
           /\ Evaluated(to_sign, prevouts, n, SpendOf("p2pkh", P2pkh(key), script_sig))
<1> DEFINE sighash == LegacySighash(to_sign.tx, n, P2pkh(key))
           signature == EcdsaBy(key, sighash)
           spend == SpendOf("p2pkh", P2pkh(key), script_sig)
<1>1. script_sig = <<signature, KeyItem(key)>>
    BY DEF KeyStack
<1>2. EcdsaVerifies(signature, Point[key], sighash) /\ signature.kind = "signature"
    BY EcdsaMade
<1>3. spend.kind = "p2pkh" /\ spend.script = P2pkh(key) /\ spend.stack = script_sig
    BY DEF SpendOf
<1> HIDE DEF signature, spend
<1>4. \A j \in DOMAIN script_sig : script_sig[j].kind \in {"signature", "key"}
    BY <1>1, <1>2 DEF KeyItem
<1>5. CheckScriptSig(script_sig) /\ PushOnly(script_sig)
    BY <1>4, PlainItems
<1>6. VerifyP2pkh(to_sign, n, spend) = "valid"
    BY <1>1, <1>2, <1>3 DEF VerifyP2pkh, ValidIf, KeyItem
<1> QED BY <1>3, <1>5, <1>6 DEF Evaluated, spend

LEMMA BareEvaluated ==
    ASSUME NEW to_sign, NEW prevouts, NEW n, NEW S, NEW script_sig \in Seq(S),
           NEW spk, spk.type = "script",
           ScriptStack(spk, Key, script_sig, LegacySighash(to_sign.tx, n, spk)),
           ScriptSigLen(script_sig) <= MaxScriptSize
    PROVE  /\ CheckScriptSig(script_sig) /\ PushOnly(script_sig) /\ PlainScript(spk)
           /\ Evaluated(to_sign, prevouts, n, SpendOf("bare", spk, script_sig))
<1> DEFINE spend == SpendOf("bare", spk, script_sig)
<1>1. spend.kind = "bare" /\ spend.script = spk /\ spend.stack = script_sig
    BY DEF SpendOf
<1>2. /\ ContextKeys(spend) = Key
      /\ ScriptSighash(to_sign, prevouts, n, spend) = LegacySighash(to_sign.tx, n, spk)
    BY <1>1 DEF ContextKeys, ScriptSighash
<1> HIDE DEF spend
<1>3. ~ParsesMultisig(spend.script)
    BY <1>1 DEF ParsesMultisig
<1>4. /\ PlainScript(spk) /\ Signatures(script_sig)
      /\ VerifyWithInterpreter(to_sign, prevouts, n, spend) = "valid"
    <2>1. spend.stack \in Seq(S) /\ spend.kind \in {"p2wsh", "p2sh", "bare"}
        BY <1>1
    <2>2. ScriptStack(spend.script, ContextKeys(spend), spend.stack,
                      ScriptSighash(to_sign, prevouts, n, spend))
        BY <1>1, <1>2
    <2> QED BY <1>1, <1>3, <2>1, <2>2, StackVerifies
<1>5. CheckScriptSig(script_sig) /\ PushOnly(script_sig)
    BY <1>4, PlainItems DEF Signatures
<1> QED BY <1>1, <1>4, <1>5 DEF Evaluated, spend

(* An input that is satisfied as its scripts ask is valid, and none of the *)
(* rules of the verifier that are not about its script stops it.           *)
THEOREM SatisfiedInputIsValid ==
    ASSUME NEW to_sign, NEW prevouts, NEW n, InputOK(to_sign, n),
           InputSatisfied(to_sign, prevouts, n)
    PROVE  Accepted(to_sign, prevouts, n, Parse(to_sign, prevouts, n))
<1> DEFINE spk == prevouts[n].script_pubkey
           script_sig == to_sign.script_sig[n]
           witness == to_sign.witness[n]
           tx == to_sign.tx
           spend == Parse(to_sign, prevouts, n)
           S == ItemsOf(to_sign, n)
<1>1. /\ script_sig \in Seq(S) /\ witness \in Seq(S)
      /\ \A j \in DOMAIN witness : witness[j].kind = "control" => witness[j].data # None
    <2>1. script_sig \in Seq(Range(script_sig)) /\ witness \in Seq(Range(witness))
        BY SequenceOf DEF InputOK
    <2>2. Range(script_sig) \subseteq S /\ Range(witness) \subseteq S
        BY DEF ItemsOf
    <2>3. script_sig \in Seq(S) /\ witness \in Seq(S)
        BY <2>1, <2>2, SeqMonotonic
    <2> QED BY <2>3 DEF InputOK
<1>2. /\ spk # None /\ Unwrapped(spk) # None /\ CheckScript(spk)
      /\ ScriptSigLen(script_sig) <= MaxScriptSize
    BY DEF InputSatisfied
<1>3. script_sig = << >> => CheckScriptSig(script_sig) /\ PushOnly(script_sig)
    BY <1>2, PlainItems
<1> HIDE DEF S
<1>4. CASE /\ spk.type = "p2tr" /\ spk = P2tr(spk.point, spk.root) /\ script_sig = << >>
           /\ TaprootSatisfied(spk, witness, tx, n, prevouts)
    <2>1. IsWitnessProgram(spk) /\ PlainScript(spk)
        BY <1>2, <1>4, NoInstructions DEF IsWitnessProgram, Ops
    <2>2. CheckScriptSig(script_sig) /\ PushOnly(script_sig)
        BY <1>3, <1>4
    <2>3. spend = WitnessKind(witness, spk, FALSE)
        BY <1>2, <1>4, <2>1, <2>2 DEF Parse
    <2>4. IsWitnessSpend(spend) /\ Evaluated(to_sign, prevouts, n, spend)
        BY <1>1, <1>4, <2>3, P2trEvaluated
    <2> QED BY <2>1, <2>2, <2>4, EvaluatedAccepted
<1>5. CASE script_sig = << >> /\ WitnessSatisfied(spk, witness, tx, n, prevouts[n].value)
    <2>1. /\ IsWitnessProgram(spk) /\ spk.type # "p2sh" /\ Ops(spk) = << >>
          /\ IsWitnessSpend(WitnessKind(witness, spk, FALSE))
          /\ Evaluated(to_sign, prevouts, n, WitnessKind(witness, spk, FALSE))
        BY <1>1, <1>2, <1>5, WitnessEvaluated
    <2>2. CheckScriptSig(script_sig) /\ PushOnly(script_sig)
        BY <1>3, <1>5
    <2>3. spend = WitnessKind(witness, spk, FALSE)
        BY <1>2, <1>5, <2>1, <2>2 DEF Parse
    <2>4. PlainScript(spk)
        BY <2>1, NoInstructions
    <2> QED BY <2>1, <2>2, <2>3, <2>4, EvaluatedAccepted
<1>6. CASE /\ spk.type = "p2sh" /\ spk = P2sh(spk.script)
           /\ script_sig = <<ScriptItem(spk.script)>>
           /\ WitnessSatisfied(spk.script, witness, tx, n, prevouts[n].value)
    <2> DEFINE program == spk.script
    <2>1. program # None
        BY <1>2, <1>6 DEF Unwrapped
    <2> HIDE DEF program
    <2>2. /\ IsWitnessProgram(program) /\ program.type # "p2sh" /\ Ops(program) = << >>
          /\ IsWitnessSpend(WitnessKind(witness, program, TRUE))
          /\ Evaluated(to_sign, prevouts, n, WitnessKind(witness, program, TRUE))
        BY <1>1, <1>6, <2>1, WitnessEvaluated DEF program
    <2>3. Len(script_sig) = 1 /\ DOMAIN script_sig = {1} /\ script_sig # << >>
          /\ Last(script_sig) = ScriptItem(program) /\ script_sig[1] = ScriptItem(program)
        BY <1>6 DEF Last, program
    <2>4. ScriptOf(Last(script_sig)) = program /\ Last(script_sig).kind = "script"
          /\ Last(script_sig).data = program
        BY <2>3, ScriptRead
    <2>6. CheckScriptSig(script_sig) /\ PushOnly(script_sig)
        BY <1>2, <2>3, <2>4, PlainItems
    <2>7. ~(PushCount(script_sig) > MaxStackSize)
        <3>1. { j \in DOMAIN script_sig : ~IsOp(script_sig[j]) } = {1}
            BY <2>3, <2>6 DEF PushOnly
        <3>2. PushCount(script_sig) = 1
            BY <3>1, FS_Singleton DEF PushCount
        <3> QED BY <3>2, LimitAssumption
    <2>8. P2shKind(script_sig, witness, spk) = WitnessKind(witness, program, TRUE)
        <3>1. ~IsOp(Last(script_sig)) /\ Last(script_sig).kind # "number"
            BY <2>4 DEF IsOp
        <3> QED BY <1>6, <2>2, <2>3, <2>4, <2>7, <3>1 DEF P2shKind, program
    <2>9. spend = WitnessKind(witness, program, TRUE)
        BY <1>2, <1>6, <2>6, <2>8 DEF Parse, IsWitnessProgram
    <2>10. PlainScript(spk)
        BY <1>6, NoInstructions DEF Ops
    <2> QED BY <2>2, <2>6, <2>9, <2>10, EvaluatedAccepted
<1>7. CASE witness = << >> /\ \E key \in Key :
               /\ spk = P2pkh(key) /\ script_sig = KeyStack(key, LegacySighash(tx, n, spk))
    <2>1. PICK key \in Key :
               /\ spk = P2pkh(key) /\ script_sig = KeyStack(key, LegacySighash(tx, n, spk))
        BY <1>7
    <2>2. /\ CheckScriptSig(script_sig) /\ PushOnly(script_sig)
          /\ Evaluated(to_sign, prevouts, n, SpendOf("p2pkh", spk, script_sig))
        BY <1>2, <2>1, P2pkhEvaluated
    <2>3. spk.type = "p2pkh"
        BY <2>1 DEF P2pkh
    <2>4. spend = SpendOf("p2pkh", spk, script_sig)
        BY <1>2, <1>7, <2>2, <2>3 DEF Parse, IsWitnessProgram
    <2>5. PlainScript(spk) /\ Algorithm(spk) = "legacy"
        BY <2>3, NoInstructions DEF Ops, Algorithm, Unwrapped, IsWitnessProgram
    <2> QED BY <2>2, <2>4, <2>5, EvaluatedAccepted
<1>8. CASE witness = << >> /\ RedeemSatisfied(spk, script_sig, tx, n)
    <2>1. /\ spk.type = "p2sh" /\ spk.script.type \in {"multisig", "script"}
          /\ CheckScriptSig(script_sig) /\ PushOnly(script_sig)
          /\ Evaluated(to_sign, prevouts, n, P2shKind(script_sig, << >>, spk))
        BY <1>1, <1>2, <1>8, RedeemEvaluated
    <2>2. spend = P2shKind(script_sig, << >>, spk)
        BY <1>2, <1>8, <2>1 DEF Parse, IsWitnessProgram
    <2>3. PlainScript(spk) /\ Algorithm(spk) = "legacy"
        BY <2>1, NoInstructions DEF Ops, Algorithm, Unwrapped, IsWitnessProgram
    <2> QED BY <2>1, <2>2, <2>3, EvaluatedAccepted
<1>9. CASE /\ witness = << >> /\ spk.type = "script"
           /\ ScriptStack(spk, Key, script_sig, LegacySighash(tx, n, spk))
    <2>1. /\ CheckScriptSig(script_sig) /\ PushOnly(script_sig) /\ PlainScript(spk)
          /\ Evaluated(to_sign, prevouts, n, SpendOf("bare", spk, script_sig))
        BY <1>1, <1>2, <1>9, BareEvaluated
    <2>2. spend = SpendOf("bare", spk, script_sig)
        BY <1>2, <1>9, <2>1 DEF Parse, IsWitnessProgram
    <2>3. Algorithm(spk) = "legacy"
        BY <1>9 DEF Algorithm, Unwrapped, IsWitnessProgram
    <2> QED BY <2>1, <2>2, <2>3, EvaluatedAccepted
<1> QED BY <1>4, <1>5, <1>6, <1>7, <1>8, <1>9 DEF InputSatisfied

-----------------------------------------------------------------------------
(* Fields, and sequences, that are there.                                  *)

(* An absent field is none of the things that a field can hold: records    *)
(* and sequences, which are functions.                                     *)
AbsentIsNoFunction == None # [x \in DOMAIN None |-> None[x]]

LEMMA FunctionsArePresent ==
    ASSUME AbsentIsNoFunction, NEW f, f = [x \in DOMAIN f |-> f[x]]
    PROVE  f # None
BY DEF AbsentIsNoFunction

LEMMA Present ==
    ASSUME AbsentIsNoFunction
    PROVE  /\ \A value, spk : TxOut(value, spk) # None
           /\ \A spk, message : ToSpend(spk, message) # None
           /\ \A key : P2wpkh(key) # None
           /\ \A script : P2sh(script) # None /\ P2wsh(script) # None
           /\ \A point, root : P2tr(point, root) # None
           /\ \A key : P2pkh(key) # None
           /\ \A psbt, key, n : SignatureOf(psbt, key, n) # None
<1>1. ASSUME NEW value, NEW spk PROVE TxOut(value, spk) # None
    <2>1. TxOut(value, spk) = [x \in DOMAIN TxOut(value, spk) |-> TxOut(value, spk)[x]]
        BY DEF TxOut
    <2> QED BY <2>1, FunctionsArePresent
<1>2. ASSUME NEW spk, NEW message PROVE ToSpend(spk, message) # None
    <2>1. ToSpend(spk, message)
              = [x \in DOMAIN ToSpend(spk, message) |-> ToSpend(spk, message)[x]]
        BY DEF ToSpend
    <2> QED BY <2>1, FunctionsArePresent
<1>3. ASSUME NEW key PROVE P2wpkh(key) # None /\ P2pkh(key) # None
    <2>1. /\ P2wpkh(key) = [x \in DOMAIN P2wpkh(key) |-> P2wpkh(key)[x]]
          /\ P2pkh(key) = [x \in DOMAIN P2pkh(key) |-> P2pkh(key)[x]]
        BY DEF P2wpkh, P2pkh
    <2> QED BY <2>1, FunctionsArePresent
<1>4. ASSUME NEW script PROVE P2sh(script) # None /\ P2wsh(script) # None
    <2>1. /\ P2sh(script) = [x \in DOMAIN P2sh(script) |-> P2sh(script)[x]]
          /\ P2wsh(script) = [x \in DOMAIN P2wsh(script) |-> P2wsh(script)[x]]
        BY DEF P2sh, P2wsh
    <2> QED BY <2>1, FunctionsArePresent
<1>5. ASSUME NEW point, NEW root PROVE P2tr(point, root) # None
    <2>1. P2tr(point, root) = [x \in DOMAIN P2tr(point, root) |-> P2tr(point, root)[x]]
        BY DEF P2tr
    <2> QED BY <2>1, FunctionsArePresent
<1>6. ASSUME NEW psbt, NEW key, NEW n PROVE SignatureOf(psbt, key, n) # None
    <2> DEFINE sig == SignatureOf(psbt, key, n)
    <2>1. \E scheme, point, sighash, type : sig = Signature(scheme, point, sighash, type)
        BY DEF SignatureOf
    <2> HIDE DEF sig
    <2>2. sig = [x \in DOMAIN sig |-> sig[x]]
        BY <2>1 DEF Signature
    <2>3. sig # None
        BY <2>2, FunctionsArePresent
    <2> QED BY <2>3 DEF sig
<1> QED BY <1>1, <1>2, <1>3, <1>4, <1>5, <1>6

LEMMA PresentSequences ==
    ASSUME AbsentIsNoFunction, NEW S, NEW s \in Seq(S)
    PROVE  s # None
<1>1. s = [x \in DOMAIN s |-> s[x]]
    OBVIOUS
<1> QED BY <1>1, FunctionsArePresent

(* What the finalizer and the extraction leave of an input: the items, and *)
(* none where the field is absent.                                         *)
ItemsOrNone(x) == IF x = None THEN << >> ELSE x

LEMMA HeadAndRest ==
    ASSUME NEW size \in Nat, NEW h, NEW rest, rest = [n \in 1 .. size |-> rest[n]],
           NEW joined, joined = <<h>> \o rest
    PROVE  /\ Len(joined) = size + 1 /\ DOMAIN joined = 1 .. size + 1
           /\ joined[1] = h /\ \A n \in 2 .. size + 1 : joined[n] = rest[n - 1]
<1> DEFINE S == {h} \cup { rest[n] : n \in 1 .. size }
           one == <<h>>
<1>1. one \in Seq(S) /\ Len(one) = 1 /\ one[1] = h
    OBVIOUS
<1>2. rest \in Seq(S) /\ Len(rest) = size
    <2>1. rest \in [1 .. size -> S]
        OBVIOUS
    <2> HIDE DEF S
    <2> QED BY <2>1
<1>3. joined = one \o rest
    OBVIOUS
<1> HIDE DEF S, one
<1>4. /\ joined \in Seq(S) /\ Len(joined) = 1 + size
      /\ \A i \in 1 .. 1 + size : joined[i] = IF i <= 1 THEN one[i] ELSE rest[i - 1]
    BY <1>1, <1>2, <1>3, ConcatProperties
<1>5. Len(joined) = size + 1 /\ DOMAIN joined = 1 .. size + 1
    BY <1>4
<1>6. joined[1] = h /\ \A n \in 2 .. size + 1 : joined[n] = rest[n - 1]
    BY <1>1, <1>4
<1> QED BY <1>5, <1>6

LEMMA OwnElements ==
    ASSUME NEW S, NEW s \in Seq(S)
    PROVE  Sequential(s)
<1> DEFINE T == { s[j] : j \in DOMAIN s }
<1>1. Len(s) \in Nat /\ DOMAIN s = 1 .. Len(s) /\ s \in [1 .. Len(s) -> S]
    BY LenProperties
<1>2. s \in [1 .. Len(s) -> T]
    BY <1>1
<1> HIDE DEF T
<1>3. s \in Seq(T)
    BY <1>1, <1>2
<1> QED BY <1>3 DEF Sequential, T

Joins(c, a, b) == c = a \o b

LEMMA JoinedSeq ==
    ASSUME NEW S, NEW a \in Seq(S), NEW b \in Seq(S), NEW c, Joins(c, a, b)
    PROVE  /\ c \in Seq(S) /\ Len(c) = Len(a) + Len(b)
           /\ \A i \in 1 .. Len(a) : c[i] = a[i]
           /\ \A i \in 1 .. Len(b) : c[i + Len(a)] = b[i]
<1>1. /\ c \in Seq(S) /\ Len(c) = Len(a) + Len(b)
      /\ \A i \in 1 .. Len(a) + Len(b) : c[i] = IF i <= Len(a) THEN a[i] ELSE b[i - Len(a)]
    BY ConcatProperties DEF Joins
<1>2. Len(a) \in Nat /\ Len(b) \in Nat
    BY LenProperties
<1>3. ASSUME NEW i \in 1 .. Len(a) PROVE c[i] = a[i]
    <2>1. i \in 1 .. Len(a) + Len(b) /\ i <= Len(a)
        BY <1>2
    <2> QED BY <1>1, <2>1
<1>4. ASSUME NEW i \in 1 .. Len(b) PROVE c[i + Len(a)] = b[i]
    <2> DEFINE k == i + Len(a)
    <2>1. k \in 1 .. Len(a) + Len(b) /\ ~(k <= Len(a)) /\ k - Len(a) = i
        BY <1>2
    <2> HIDE DEF k
    <2>2. c[k] = b[k - Len(a)]
        BY <1>1, <2>1
    <2> QED BY <2>1, <2>2 DEF k
<1> QED BY <1>1, <1>3, <1>4

LEMMA JoinedAtEnd ==
    ASSUME NEW S, NEW b \in Seq(S), NEW last \in Seq(S),
           NEW items, Joins(items, b, last)
    PROVE  \A k \in Nat : Len(last) = 1 /\ Len(b) = k =>
               /\ items \in Seq(S) /\ Len(items) = k + 1 /\ items[k + 1] = last[1]
               /\ \A i \in 1 .. k : items[i] = b[i]
<1>1. /\ items \in Seq(S) /\ Len(items) = Len(b) + Len(last)
      /\ \A i \in 1 .. Len(b) : items[i] = b[i]
      /\ \A i \in 1 .. Len(last) : items[i + Len(b)] = last[i]
    BY JoinedSeq
<1>2. ASSUME NEW k \in Nat, Len(last) = 1, Len(b) = k PROVE items[k + 1] = last[1]
    <2>1. 1 \in 1 .. Len(last) /\ 1 + k = k + 1
        BY <1>2
    <2> QED BY <1>1, <1>2, <2>1
<1> QED BY <1>1, <1>2

LEMMA JoinedAtStart ==
    ASSUME NEW S, NEW one \in Seq(S), NEW rest \in Seq(S),
           NEW both, Joins(both, one, rest)
    PROVE  \A k \in Nat : Len(one) = 1 /\ Len(rest) = k =>
               /\ both \in Seq(S) /\ Len(both) = k + 1 /\ both[1] = one[1]
               /\ \A i \in 1 .. k : both[i + 1] = rest[i]
<1>1. /\ both \in Seq(S) /\ Len(both) = Len(one) + Len(rest)
      /\ \A i \in 1 .. Len(one) : both[i] = one[i]
      /\ \A i \in 1 .. Len(rest) : both[i + Len(one)] = rest[i]
    BY JoinedSeq
<1> QED BY <1>1

Listed(s, size) == s = [m \in 1 .. size |-> s[m]]

LEMMA ListedSize ==
    ASSUME NEW s, NEW size \in Nat, Listed(s, size)
    PROVE  Len(s) = size /\ DOMAIN s = 1 .. size
<1>1. s = [m \in 1 .. size |-> s[m]]
    BY DEF Listed
<1>2. Len([m \in 1 .. size |-> s[m]]) = size /\ DOMAIN [m \in 1 .. size |-> s[m]] = 1 .. size
    OBVIOUS
<1> QED BY <1>1, <1>2

-----------------------------------------------------------------------------
(* Outputs of a key or of a hash are within every limit, and the limits    *)
(* leave room for multisig scripts.                                        *)
LEMMA ShortScript ==
    ASSUME RoomForMultisig, NEW s, s.type \notin {"script", "multisig"}
    PROVE  CheckScript(s)
<1>1. ScriptLen(s) = 34 /\ Ops(s) = << >>
    BY DEF ScriptLen, Ops
<1>2. { j \in DOMAIN Ops(s) : Ops(s)[j] \in OpCodes } = {}
    BY <1>1
<1>3. Cardinality({}) = 0
    BY FS_EmptySet
<1>4. Cardinality({ j \in DOMAIN Ops(s) : Ops(s)[j] \in OpCodes }) <= MaxOpsPerScript
    <2> DEFINE codes == { j \in DOMAIN Ops(s) : Ops(s)[j] \in OpCodes }
    <2>1. codes = {} /\ MaxOpsPerScript \in Nat
        BY <1>2, LimitAssumption
    <2> HIDE DEF codes
    <2>2. Cardinality(codes) <= MaxOpsPerScript
        BY <1>3, <2>1
    <2> QED BY <2>2 DEF codes
<1>5. Minimal(s)
    BY <1>1 DEF Minimal
<1> QED BY <1>1, <1>4, <1>5, LimitAssumption DEF CheckScript, RoomForMultisig

LEMMA MultisigFits ==
    ASSUME RoomForMultisig, NEW s, ParsesMultisig(s)
    PROVE  CheckScript(s) /\ ScriptLen(s) \in Nat
<1> DEFINE short == { j \in DOMAIN s.keys : s.keys[j] \in Compressed }
           long == DOMAIN s.keys \ short
           size == Len(s.keys)
<1>1. /\ s.type = "multisig" /\ Ops(s) = << >>
      /\ size \in Nat /\ size <= 16 /\ DOMAIN s.keys = 1 .. size
    BY LenProperties DEF ParsesMultisig, Ops
<1>2. IsFiniteSet(1 .. size) /\ Cardinality(1 .. size) = size
    BY <1>1, FS_Interval
<1>3. short \in SUBSET (1 .. size)
    BY <1>1
<1>4. ScriptLen(s) = 3 + 34 * Cardinality(short) + 66 * Cardinality(long)
    BY <1>1 DEF ScriptLen
<1> HIDE DEF short, size
<1>5. IsFiniteSet(short) /\ Cardinality(short) \in Nat
    BY <1>2, <1>3, FS_Subset, FS_CardinalityType
<1>6. Cardinality(long) = size - Cardinality(short) /\ Cardinality(long) \in Nat
    <2>1. (1 .. size) \cap short = short
        BY <1>3
    <2>2. /\ IsFiniteSet((1 .. size) \ short)
          /\ Cardinality((1 .. size) \ short)
                 = Cardinality(1 .. size) - Cardinality((1 .. size) \cap short)
        BY <1>2, FS_Difference
    <2> QED BY <1>1, <1>2, <2>1, <2>2, FS_CardinalityType
<1>7. ScriptLen(s) <= 1059
    <2> HIDE DEF long
    <2> QED BY <1>1, <1>4, <1>5, <1>6
<1>8. Cardinality({ j \in DOMAIN Ops(s) : Ops(s)[j] \in OpCodes }) <= MaxOpsPerScript
    <2>1. { j \in DOMAIN Ops(s) : Ops(s)[j] \in OpCodes } = {}
        BY <1>1
    <2>2. Cardinality({}) = 0
        BY FS_EmptySet
    <2> QED BY <2>1, <2>2, LimitAssumption
<1>9. Minimal(s)
    BY <1>1 DEF Minimal
<1>10. ScriptLen(s) \in Nat
    BY <1>4, <1>5, <1>6
<1> QED BY <1>7, <1>8, <1>9, <1>10, LimitAssumption
        DEF CheckScript, RoomForMultisig

(* Nothing, a signature and a key, and the push of a witness program are   *)
(* no longer than a scriptSig may be.                                      *)
LEMMA ScriptSigsFit ==
    ASSUME RoomForMultisig, NEW script_sig,
           \/ script_sig = << >>
           \/ \E key, sighash : script_sig = KeyStack(key, sighash)
           \/ \E program : /\ script_sig = <<ScriptItem(program)>>
                           /\ program.type \notin {"script", "multisig"}
    PROVE  ScriptSigLen(script_sig) <= MaxScriptSize
<1>1. MaxScriptSize \in Nat /\ MaxScriptSize >= 1246
    BY LimitAssumption DEF RoomForMultisig
<1>2. CASE script_sig = << >>
    BY <1>1, <1>2, EmptyScriptSig
<1>3. CASE \E key, sighash : script_sig = KeyStack(key, sighash)
    <2>1. PICK key, sighash : script_sig = <<EcdsaBy(key, sighash), KeyItem(key)>>
        BY <1>3 DEF KeyStack
    <2>2. EcdsaBy(key, sighash).kind = "signature" /\ KeyItem(key).kind = "key"
        BY DEF EcdsaBy, SigItem, KeyItem
    <2>3. /\ Len(script_sig) = 2 /\ script_sig[1].kind = "signature"
          /\ script_sig[2].kind = "key"
        BY <2>1, <2>2
    <2>4. PushLen(script_sig[1]) \in 0 .. 73 /\ PushLen(script_sig[2]) \in 0 .. 73
        BY <2>3, PushedLen
    <2>5. /\ ScriptSigLen(script_sig) \in Nat
          /\ ScriptSigLen(script_sig) <= 73 * 1 + PushLen(script_sig[1 + 1])
        <3>1. 1 + 1 = 2 /\ 1 \in Nat /\ \A j \in 1 .. 1 : j = 1
            OBVIOUS
        <3>2. PushLen(script_sig[2]) \in Nat
            <4>1. \A size \in 0 .. 73 : size \in Nat
                OBVIOUS
            <4> QED BY <2>4, <4>1, Zenon
        <3>3. Len(script_sig) = 1 + 1 /\ PushLen(script_sig[1 + 1]) \in Nat
              /\ \A j \in 1 .. 1 : PushLen(script_sig[j]) \in 0 .. 73
            BY <2>3, <2>4, <3>1, <3>2, Zenon
        <3> QED BY <3>1, <3>3, ScriptSigBound
    <2>6. 1 + 1 = 2
        OBVIOUS
    <2>7. \A size \in 0 .. 73 : \A total \in Nat :
              total <= 73 * 1 + size => total <= 146
        OBVIOUS
    <2>8. ScriptSigLen(script_sig) <= 146
        BY <2>4, <2>5, <2>6, <2>7, Zenon
    <2>9. \A total \in Nat : \A limit \in Nat :
              total <= 146 /\ limit >= 1246 => total <= limit
        OBVIOUS
    <2> QED BY <1>1, <2>5, <2>8, <2>9, Zenon
<1>4. CASE \E program : /\ script_sig = <<ScriptItem(program)>>
                        /\ program.type \notin {"script", "multisig"}
    <2>1. PICK program : /\ script_sig = <<ScriptItem(program)>>
                         /\ program.type \notin {"script", "multisig"}
        BY <1>4
    <2>2. ScriptItem(program).kind = "script" /\ ScriptLen(ScriptItem(program).data) = 34
        BY <2>1 DEF ScriptItem, ScriptLen
    <2>3. PushLen(script_sig[1]) \in Nat /\ PushLen(script_sig[1]) <= 39
        BY <2>1, <2>2, PushedLen
    <2>4. /\ ScriptSigLen(script_sig) \in Nat
          /\ ScriptSigLen(script_sig) <= 73 * 0 + PushLen(script_sig[0 + 1])
        <3>1. Len(script_sig) = 0 + 1 /\ 0 \in Nat /\ PushLen(script_sig[0 + 1]) \in Nat
              /\ \A j \in 1 .. 0 : PushLen(script_sig[j]) \in 0 .. 73
            BY <2>1, <2>3
        <3> QED BY <3>1, ScriptSigBound
    <2> QED BY <1>1, <2>3, <2>4
<1> QED BY <1>2, <1>3, <1>4

(* OP_0, some signatures and a script.                                     *)
LEMMA StackShape ==
    ASSUME AbsentIsNoFunction, NEW size \in Nat, NEW sigs, Listed(sigs, size),
           NEW script, NEW both, Joins(both, <<EmptyItem>>, sigs),
           NEW items, Joins(items, both, <<ScriptItem(script)>>)
    PROVE  /\ items # << >> /\ items # None /\ Sequential(items)
           /\ Len(items) = size + 2 /\ Last(items) = ScriptItem(script)
           /\ Len(Front(items)) = size + 1 /\ Front(items)[1] = EmptyItem
           /\ \A m \in 1 .. size : Front(items)[m + 1] = sigs[m]
           /\ DOMAIN Front(items) = 1 .. size + 1 /\ DOMAIN items = 1 .. size + 2
           /\ \A j \in DOMAIN items : \/ items[j] \in {EmptyItem, ScriptItem(script)}
                                      \/ \E m \in 1 .. size : items[j] = sigs[m]
           /\ \A j \in DOMAIN Front(items) : \/ Front(items)[j] = EmptyItem
                                             \/ \E m \in 1 .. size : Front(items)[j] = sigs[m]
<1> DEFINE S == {EmptyItem, ScriptItem(script)} \cup { sigs[m] : m \in 1 .. size }
           one == <<EmptyItem>>
           last == <<ScriptItem(script)>>
<1>1. /\ one \in Seq(S) /\ Len(one) = 1 /\ one[1] = EmptyItem
      /\ last \in Seq(S) /\ Len(last) = 1 /\ last[1] = ScriptItem(script)
    OBVIOUS
<1>2. sigs \in Seq(S) /\ Len(sigs) = size
    <2>1. sigs \in [1 .. size -> S]
        BY DEF Listed
    <2> HIDE DEF S
    <2> QED BY <2>1
<1>3. Joins(both, one, sigs) /\ Joins(items, both, last)
    OBVIOUS
<1> HIDE DEF one, last, S
<1>5. /\ items \in Seq(S) /\ Len(items) = size + 2
      /\ items[1] = EmptyItem /\ items[size + 2] = ScriptItem(script)
      /\ \A m \in 1 .. size : items[m + 1] = sigs[m]
    <2>1. /\ both \in Seq(S) /\ Len(both) = size + 1 /\ both[1] = one[1]
          /\ \A i \in 1 .. size : both[i + 1] = sigs[i]
        BY <1>1, <1>2, <1>3, JoinedAtStart
    <2>2. both \in Seq(S) /\ Len(both) = size + 1
        BY <2>1
    <2>3. both \in Seq(S)
        BY <2>2
    <2>4. last \in Seq(S) /\ Len(last) = 1
        BY <1>1
    <2>5. last \in Seq(S)
        BY <2>4
    <2>6. \A k \in Nat : Len(last) = 1 /\ Len(both) = k =>
              /\ items \in Seq(S) /\ Len(items) = k + 1 /\ items[k + 1] = last[1]
              /\ \A i \in 1 .. k : items[i] = both[i]
        BY <1>3, <2>3, <2>5, JoinedAtEnd
    <2>7. size + 1 \in Nat /\ size + 1 + 1 = size + 2
        OBVIOUS
    <2>8. /\ items \in Seq(S) /\ Len(items) = size + 1 + 1 /\ items[size + 1 + 1] = last[1]
          /\ \A i \in 1 .. size + 1 : items[i] = both[i]
        BY <2>2, <2>4, <2>6, <2>7
    <2>9. items[1] = EmptyItem /\ items[size + 2] = ScriptItem(script) /\ Len(items) = size + 2
        <3>1. 1 \in 1 .. size + 1
            OBVIOUS
        <3> QED BY <1>1, <2>1, <2>7, <2>8, <3>1
    <2>10. \A m \in 1 .. size : items[m + 1] = sigs[m]
        <3>1. \A m \in 1 .. size : m + 1 \in 1 .. size + 1
            OBVIOUS
        <3> QED BY <2>1, <2>8, <3>1
    <2> QED BY <2>8, <2>9, <2>10
<1>6. /\ Len(items) = size + 2 /\ DOMAIN items = 1 .. size + 2
      /\ items[1] = EmptyItem /\ items[size + 2] = ScriptItem(script)
      /\ \A m \in 1 .. size : items[m + 1] = sigs[m]
    BY <1>5
<1>7. items # << >> /\ items # None
    <2>1. items # << >>
        BY <1>6
    <2> QED BY <1>5, <2>1, PresentSequences
<1>8. /\ Front(items) \in Seq(S) /\ Len(Front(items)) = size + 1
      /\ \A j \in 1 .. size + 1 : Front(items)[j] = items[j]
    <2>1. Len(items) - 1 = size + 1
        BY <1>6
    <2> QED BY <1>5, <1>7, <2>1, FrontOf
<1>9. /\ DOMAIN Front(items) = 1 .. size + 1 /\ Front(items)[1] = EmptyItem
      /\ \A m \in 1 .. size : Front(items)[m + 1] = sigs[m]
    BY <1>6, <1>8
<1>10. \A j \in 1 .. size + 2 : j = 1 \/ j = size + 2 \/ \E m \in 1 .. size : j = m + 1
    <2>1. ASSUME NEW j \in 1 .. size + 2, j # 1, j # size + 2
          PROVE  j - 1 \in 1 .. size /\ j = (j - 1) + 1
        BY <2>1
    <2> QED BY <2>1
<1>11. Last(items) = ScriptItem(script)
    BY <1>6 DEF Last
<1>12. \A j \in DOMAIN items : \/ items[j] \in {EmptyItem, ScriptItem(script)}
                               \/ \E m \in 1 .. size : items[j] = sigs[m]
    BY <1>6, <1>10
<1>13. \A j \in DOMAIN Front(items) : \/ Front(items)[j] = EmptyItem
                                      \/ \E m \in 1 .. size : Front(items)[j] = sigs[m]
    BY <1>6, <1>8, <1>9, <1>10
<1>14. Sequential(items)
    BY <1>5, OwnElements
<1> QED BY <1>6, <1>7, <1>8, <1>9, <1>11, <1>12, <1>13, <1>14

(* Signatures by as many keys of a multisig script as it requires, in the  *)
(* order of the script.                                                    *)
SignedInOrder(sigs, script, sighash) ==
    /\ Listed(sigs, script.required)
    /\ \E f \in [1 .. script.required -> DOMAIN script.keys] :
           /\ \A h, j \in DOMAIN f : h < j => f[h] < f[j]
           /\ \A m \in DOMAIN f : sigs[m] = EcdsaBy(script.keys[f[m]], sighash)

(* They are what the script asks for, and within every limit.              *)
LEMMA MultisigSatisfies ==
    ASSUME AbsentIsNoFunction, RoomForMultisig, NEW script, ParsesMultisig(script),
           NEW sighash, NEW sigs, SignedInOrder(sigs, script, sighash),
           NEW both, Joins(both, <<EmptyItem>>, sigs),
           NEW items, Joins(items, both, <<ScriptItem(script)>>)
    PROVE  /\ items # << >> /\ items # None /\ Last(items) = ScriptItem(script)
           /\ \A j \in DOMAIN items : items[j].kind \in {"empty", "script", "signature"}
           /\ Sequential(items)
           /\ CheckWitnessStack(Front(items))
           /\ ScriptLen(script) <= MaxElementSize =>
                  CheckWitnessStack(items) /\ ScriptSigLen(items) <= MaxScriptSize
           /\ \A keys : ScriptStack(script, keys, Front(items), sighash)
<1> DEFINE size == script.required
           stack == Front(items)
<1>1. size \in Nat /\ size <= 16 /\ size >= 1
    BY LenProperties DEF ParsesMultisig
<1>2. PICK f \in [1 .. size -> DOMAIN script.keys] :
          /\ \A h, j \in DOMAIN f : h < j => f[h] < f[j]
          /\ \A m \in DOMAIN f : sigs[m] = EcdsaBy(script.keys[f[m]], sighash)
    BY DEF SignedInOrder
<1>3. /\ Listed(sigs, size) /\ DOMAIN f = 1 .. size
      /\ \A m \in 1 .. size : sigs[m] = EcdsaBy(script.keys[f[m]], sighash)
    BY <1>2 DEF SignedInOrder
<1> HIDE DEF size
<1>4. /\ items # << >> /\ items # None /\ Sequential(items)
      /\ Len(items) = size + 2 /\ Last(items) = ScriptItem(script)
      /\ Len(stack) = size + 1 /\ stack[1] = EmptyItem
      /\ \A m \in 1 .. size : stack[m + 1] = sigs[m]
      /\ DOMAIN stack = 1 .. size + 1 /\ DOMAIN items = 1 .. size + 2
      /\ \A j \in DOMAIN items : \/ items[j] \in {EmptyItem, ScriptItem(script)}
                                 \/ \E m \in 1 .. size : items[j] = sigs[m]
      /\ \A j \in DOMAIN stack : \/ stack[j] = EmptyItem
                                 \/ \E m \in 1 .. size : stack[j] = sigs[m]
    <2>1. size \in Nat
        BY <1>1
    <2> QED BY <1>3, <2>1, StackShape
<1> HIDE DEF stack
<1>5. /\ EmptyItem.kind = "empty" /\ \A m \in 1 .. size : sigs[m].kind = "signature"
      /\ ScriptItem(script).kind = "script" /\ ScriptItem(script).data = script
    <2>1. /\ EmptyItem.kind = "empty" /\ \A sig : SigItem(sig).kind = "signature"
          /\ ScriptItem(script).kind = "script" /\ ScriptItem(script).data = script
        BY DEF EmptyItem, SigItem, ScriptItem
    <2>2. \A key : EcdsaBy(key, sighash).kind = "signature"
        BY <2>1 DEF EcdsaBy
    <2> QED BY <1>3, <2>1, <2>2
<1>6. MaxElementSize \in Nat /\ MaxStackSize \in Nat /\ MaxStackSize >= 18
    BY LimitAssumption DEF RoomForMultisig
<1>7. CheckWitnessStack(stack)
    <2>1. Len(stack) <= MaxStackSize
        BY <1>1, <1>4, <1>6
    <2>2. \A j \in DOMAIN stack : ItemLen(stack[j]) <= MaxElementSize
        BY <1>4, <1>5, ShortItem
    <2> QED BY <2>1, <2>2 DEF CheckWitnessStack
<1>8. ASSUME ScriptLen(script) <= MaxElementSize
      PROVE  CheckWitnessStack(items) /\ ScriptSigLen(items) <= MaxScriptSize
    <2>1. Len(items) <= MaxStackSize
        BY <1>1, <1>4, <1>6
    <2>2. ItemLen(ScriptItem(script)) = ScriptLen(script) /\ ScriptLen(script) \in Nat
        BY <1>5, MultisigFits DEF ItemLen
    <2>3. \A j \in DOMAIN items : ItemLen(items[j]) <= MaxElementSize
        BY <1>4, <1>5, <1>8, <2>2, ShortItem
    <2>4. items[size + 2] = ScriptItem(script) /\ \A j \in 1 .. size + 1 : items[j] = stack[j]
        BY <1>4 DEF Last, Front, stack
    <2> DEFINE last == PushLen(items[size + 2])
    <2>5. last \in Nat /\ last <= MaxElementSize + 5
        BY <1>5, <1>6, <1>8, <2>2, <2>4, PushedLen
    <2>6. \A j \in 1 .. size + 1 : PushLen(items[j]) \in 0 .. 73
        <3>1. \A j \in 1 .. size + 1 : items[j].kind \in {"empty", "signature"}
            BY <1>4, <1>5, <2>4
        <3> QED BY <3>1, PushedLen
    <2>7. ScriptSigLen(items) \in Nat /\ ScriptSigLen(items) <= 73 * (size + 1) + last
        <3>1. size + 1 \in Nat /\ Len(items) = size + 1 + 1 /\ size + 2 = size + 1 + 1
            BY <1>1, <1>4
        <3> QED BY <2>5, <2>6, <3>1, ScriptSigBound
    <2>8. ScriptSigLen(items) <= MaxScriptSize
        <3> HIDE DEF last
        <3>1. 73 * (size + 1) + last <= 1246 + MaxElementSize
            BY <1>1, <1>6, <2>5
        <3>2. MaxScriptSize \in Nat /\ MaxScriptSize >= 1246 + MaxElementSize
            BY LimitAssumption DEF RoomForMultisig
        <3>3. ScriptSigLen(items) \in Int
            BY <2>7
        <3> QED BY <1>1, <1>6, <2>5, <2>7, <3>1, <3>2, <3>3
    <2> QED BY <2>1, <2>3, <2>8 DEF CheckWitnessStack
<1>9. MultisigStack(script, stack, sighash)
    <2>1. \A j \in DOMAIN f : stack[j + 1] = EcdsaBy(script.keys[f[j]], sighash)
        BY <1>3, <1>4
    <2> QED BY <1>2, <1>4, <2>1 DEF MultisigStack, size
<1>10. CheckScript(script)
    BY MultisigFits
<1>11. \A keys : ScriptStack(script, keys, stack, sighash)
    BY <1>9, <1>10 DEF ScriptStack
<1>12. \A j \in DOMAIN items : items[j].kind \in {"empty", "script", "signature"}
    <2>1. /\ EmptyItem.kind = "empty" /\ ScriptItem(script).kind = "script"
          /\ \A sig : SigItem(sig).kind = "signature"
        BY DEF EmptyItem, ScriptItem, SigItem
    <2>2. \A key : EcdsaBy(key, sighash).kind = "signature"
        BY <2>1 DEF EcdsaBy
    <2>3. \A m \in 1 .. size : sigs[m].kind = "signature"
        BY <1>3, <2>2
    <2> QED BY <1>4, <2>1, <2>3
<1> QED BY <1>4, <1>7, <1>8, <1>11, <1>12 DEF stack

-----------------------------------------------------------------------------
(* What a request says, and what create_proof_psbt makes of it.            *)

(* Coins and outpoints that are there, and a to_spend that no chain has.   *)
RequestOK(r) ==
    /\ Sequential(r.inputs)
    /\ \A n \in DOMAIN r.inputs :
           None \notin {r.inputs[n].prevout, r.inputs[n].outpoint.txid}
    /\ ToSpend(r.challenge, r.message) \notin PrevTx

StartMap(r, n) == IF n = 1 THEN ChallengeInputMap(r) ELSE ProofInputMap(r.inputs[n - 1])

LEMMA Requested ==
    ASSUME NEW r, Sequential(r.inputs)
    PROVE  LET proposed == CreateProofPsbt(r)
               tx == RequestTx(r)
           IN  /\ Len(r.inputs) \in Nat /\ DOMAIN r.inputs = 1 .. Len(r.inputs)
               /\ proposed.unsigned_tx = tx /\ proposed.message = r.message
               /\ proposed.outputs = 1
               /\ DOMAIN proposed = {"unsigned_tx", "message", "inputs", "outputs"}
               /\ Len(proposed.inputs) = Len(r.inputs) + 1
               /\ DOMAIN proposed.inputs = 1 .. Len(r.inputs) + 1
               /\ \A n \in 1 .. Len(r.inputs) + 1 : proposed.inputs[n] = StartMap(r, n)
               /\ Len(tx.input) = Len(r.inputs) + 1
               /\ DOMAIN tx.input = 1 .. Len(r.inputs) + 1
               /\ tx.input[1].previous_output
                      = [txid |-> ToSpend(r.challenge, r.message), vout |-> 0]
               /\ \A n \in 2 .. Len(r.inputs) + 1 :
                      tx.input[n].previous_output
                          = [txid |-> r.inputs[n - 1].outpoint.txid,
                             vout |-> r.inputs[n - 1].outpoint.vout]
               /\ tx.output = <<TxOut(0, OpReturn)>>
               /\ tx.version \in {0, 2}
<1> DEFINE size == Len(r.inputs)
           proposed == CreateProofPsbt(r)
           tx == RequestTx(r)
           TxInOf(n) == TxIn(r.inputs[n].outpoint.txid, r.inputs[n].outpoint.vout, 0)
           MapFor(n) == ProofInputMap(r.inputs[n])
           Head1 == TxIn(ToSpend(r.challenge, r.message), 0, r.locks.sequence)
           Head2 == ChallengeInputMap(r)
<1>1. size \in Nat /\ DOMAIN r.inputs = 1 .. size
    <2>1. r.inputs \in Seq({ r.inputs[n] : n \in DOMAIN r.inputs })
        BY DEF Sequential
    <2> QED BY <2>1, LenProperties
<1>2. /\ tx.input = <<Head1>> \o [n \in 1 .. size |-> TxInOf(n)]
      /\ tx.output = <<TxOut(0, OpReturn)>> /\ tx.version \in {0, 2}
      /\ proposed.inputs = <<Head2>> \o [n \in 1 .. size |-> MapFor(n)]
      /\ proposed.unsigned_tx = tx /\ proposed.message = r.message
      /\ proposed.outputs = Len(tx.output)
      /\ DOMAIN proposed = {"unsigned_tx", "message", "inputs", "outputs"}
    BY <1>1 DEF RequestTx, ToSignTransaction, CreateProofPsbt, Psbt, Version
<1>3. /\ Len(tx.input) = size + 1 /\ DOMAIN tx.input = 1 .. size + 1
      /\ tx.input[1] = Head1 /\ \A n \in 2 .. size + 1 : tx.input[n] = TxInOf(n - 1)
    <2> DEFINE rest == [n \in 1 .. size |-> TxInOf(n)]
    <2>1. DOMAIN rest = 1 .. size /\ \A n \in 1 .. size : rest[n] = TxInOf(n)
        OBVIOUS
    <2>2. tx.input = <<Head1>> \o rest
        BY <1>2
    <2> HIDE DEF rest, tx, Head1, TxInOf, size
    <2>3. /\ Len(tx.input) = size + 1 /\ DOMAIN tx.input = 1 .. size + 1
          /\ tx.input[1] = Head1 /\ \A n \in 2 .. size + 1 : tx.input[n] = rest[n - 1]
        BY <1>1, <2>1, <2>2, HeadAndRest
    <2>4. \A n \in 2 .. size + 1 : tx.input[n] = TxInOf(n - 1)
        <3> TAKE n \in 2 .. size + 1
        <3>1. n - 1 \in 1 .. size
            BY <1>1
        <3>2. rest[n - 1] = TxInOf(n - 1)
            BY <2>1, <3>1
        <3>3. tx.input[n] = rest[n - 1]
            BY <2>3
        <3> QED BY <3>2, <3>3
    <2> QED BY <2>3, <2>4
<1>4. /\ Len(proposed.inputs) = size + 1 /\ DOMAIN proposed.inputs = 1 .. size + 1
      /\ proposed.inputs[1] = Head2
      /\ \A n \in 2 .. size + 1 : proposed.inputs[n] = MapFor(n - 1)
    <2> DEFINE rest == [n \in 1 .. size |-> MapFor(n)]
    <2>1. DOMAIN rest = 1 .. size /\ \A n \in 1 .. size : rest[n] = MapFor(n)
        OBVIOUS
    <2>2. proposed.inputs = <<Head2>> \o rest
        BY <1>2
    <2> HIDE DEF rest, proposed, Head2, MapFor, size
    <2>3. /\ Len(proposed.inputs) = size + 1 /\ DOMAIN proposed.inputs = 1 .. size + 1
          /\ proposed.inputs[1] = Head2
          /\ \A n \in 2 .. size + 1 : proposed.inputs[n] = rest[n - 1]
        BY <1>1, <2>1, <2>2, HeadAndRest
    <2>4. \A n \in 2 .. size + 1 : proposed.inputs[n] = MapFor(n - 1)
        <3> TAKE n \in 2 .. size + 1
        <3>1. n - 1 \in 1 .. size
            BY <1>1
        <3>2. rest[n - 1] = MapFor(n - 1)
            BY <2>1, <3>1
        <3>3. proposed.inputs[n] = rest[n - 1]
            BY <2>3
        <3> QED BY <3>2, <3>3
    <2> QED BY <2>3, <2>4
<1> HIDE DEF size, tx, proposed
<1>5. \A n \in 1 .. size + 1 : proposed.inputs[n] = StartMap(r, n)
    BY <1>1, <1>4 DEF StartMap
<1>6. Len(tx.output) = 1
    BY <1>2
<1>7. /\ tx.input[1].previous_output = [txid |-> ToSpend(r.challenge, r.message), vout |-> 0]
       /\ \A n \in 2 .. size + 1 :
              tx.input[n].previous_output = [txid |-> r.inputs[n - 1].outpoint.txid,
                                             vout |-> r.inputs[n - 1].outpoint.vout]
    <2>1. \A txid, vout, sequence :
              TxIn(txid, vout, sequence).previous_output = [txid |-> txid, vout |-> vout]
        BY DEF TxIn
    <2> QED BY <1>1, <1>3, <2>1
<1> QED BY <1>1, <1>2, <1>3, <1>4, <1>5, <1>6, <1>7 DEF size, tx, proposed

LEMMA RequestedSizes ==
    ASSUME NEW r, Sequential(r.inputs)
    PROVE  /\ Len(r.inputs) \in Nat /\ Len(r.inputs) + 1 \in Nat
           /\ DOMAIN r.inputs = 1 .. Len(r.inputs)
           /\ 1 \in 1 .. Len(r.inputs) + 1
           /\ \A n \in 1 .. Len(r.inputs) + 1 : n # 1 => n - 1 \in DOMAIN r.inputs
<1> DEFINE size == Len(r.inputs)
<1>1. size \in Nat /\ DOMAIN r.inputs = 1 .. size
    BY Requested
<1> HIDE DEF size
<1>2. /\ size + 1 \in Nat /\ 1 \in 1 .. size + 1
      /\ \A n \in 1 .. size + 1 : n # 1 => n - 1 \in 1 .. size
    BY <1>1
<1> QED BY <1>1, <1>2 DEF size

LEMMA RequestedOutpoints ==
    ASSUME NEW r, Sequential(r.inputs), NEW n \in 1 .. Len(r.inputs) + 1,
           NEW spent, spent = RequestTx(r).input[n].previous_output
    PROVE  /\ n = 1 => spent.txid = ToSpend(r.challenge, r.message) /\ spent.vout = 0
           /\ n # 1 => /\ spent.txid = r.inputs[n - 1].outpoint.txid
                       /\ spent.vout = r.inputs[n - 1].outpoint.vout
<1> DEFINE tx == RequestTx(r)
           size == Len(r.inputs)
           to_spend == ToSpend(r.challenge, r.message)
<1>1. /\ tx.input[1].previous_output = [txid |-> to_spend, vout |-> 0]
      /\ \A j \in 2 .. size + 1 :
             tx.input[j].previous_output = [txid |-> r.inputs[j - 1].outpoint.txid,
                                            vout |-> r.inputs[j - 1].outpoint.vout]
    BY Requested
<1>2. n # 1 => n \in 2 .. size + 1
    BY RequestedSizes
<1> HIDE DEF tx, size, to_spend
<1>3. CASE n = 1
    BY <1>1, <1>3 DEF tx, to_spend
<1>4. CASE n # 1
    <2>1. tx.input[n].previous_output = [txid |-> r.inputs[n - 1].outpoint.txid,
                                         vout |-> r.inputs[n - 1].outpoint.vout]
        BY <1>1, <1>2, <1>4
    <2> QED BY <1>4, <2>1 DEF tx
<1> QED BY <1>3, <1>4

(* Under what the redeem script of the request decides about the output.   *)
RequestSpendsWitness(r, n) ==
    LET spk == RequestedPrevout(r, n).script_pubkey
        script == RequestedScript(r, n)
    IN  SpendsWitness(spk, IF script = None THEN None ELSE P2shRedeemScript(spk, script))

UtxosAccepted(r) == \A n \in DOMAIN r.inputs : ProofUtxoAccepted(r.inputs[n])

(* A segwit spend has its output as claimed, any other brings along the    *)
(* transaction, which has the output that was claimed.                     *)
LEMMA StartOutputs ==
    ASSUME AbsentIsNoFunction, NEW r, RequestOK(r), UtxosAccepted(r),
           NEW n \in 1 .. Len(r.inputs) + 1,
           NEW spent, spent = RequestTx(r).input[n].previous_output
    PROVE  /\ RequestedPrevout(r, n) # None /\ spent.txid # None
           /\ BringsTx(r, n) <=> ~RequestSpendsWitness(r, n)
           /\ BringsTx(r, n) =>
                  /\ StartMap(r, n).witness_utxo = None
                  /\ StartMap(r, n).non_witness_utxo = spent.txid
                  /\ spent.vout < Len(Outputs(spent.txid))
                  /\ Outputs(spent.txid)[spent.vout + 1] = RequestedPrevout(r, n)
           /\ ~BringsTx(r, n) => /\ StartMap(r, n).witness_utxo = RequestedPrevout(r, n)
                                 /\ StartMap(r, n).non_witness_utxo = None
<1> DEFINE prevout == RequestedPrevout(r, n)
           spk == prevout.script_pubkey
           script == RequestedScript(r, n)
           start == StartMap(r, n)
           spends == SpendsWitness(spk, IF script = None THEN None
                                        ELSE P2shRedeemScript(spk, script))
<1>1. BringsTx(r, n) <=> start.non_witness_utxo # None
    BY DEF BringsTx, StartMap
<1>2. /\ spends => start.witness_utxo = prevout /\ start.non_witness_utxo = None
      /\ ~spends => start.witness_utxo = None
                    /\ start.non_witness_utxo =
                           IF n = 1 THEN ToSpend(r.challenge, r.message) ELSE r.inputs[n - 1].prev_tx
    <2>1. CASE n = 1
        <3>1. prevout = TxOut(0, r.challenge) /\ spk = r.challenge /\ script = r.witness_script
            BY <2>1 DEF RequestedPrevout, RequestedScript, TxOut
        <3>2. start = IF spends THEN [EmptyInput EXCEPT !.witness_utxo = prevout]
                      ELSE [EmptyInput EXCEPT !.non_witness_utxo = ToSpend(r.challenge, r.message)]
            BY <2>1, <3>1 DEF StartMap, ChallengeInputMap
        <3> HIDE DEF start, spends, prevout
        <3> QED BY <2>1, <3>2 DEF EmptyInput
    <2>2. CASE n # 1
        <3>1. start = IF spends THEN [EmptyInput EXCEPT !.witness_utxo = prevout]
                      ELSE [EmptyInput EXCEPT !.non_witness_utxo = r.inputs[n - 1].prev_tx]
            BY <2>2 DEF StartMap, ProofInputMap, ProofSpendsWitness, RequestedPrevout, RequestedScript
        <3> HIDE DEF start, spends, prevout
        <3> QED BY <2>2, <3>1 DEF EmptyInput
    <2> QED BY <2>1, <2>2
<1>3. /\ prevout # None /\ spent.txid # None
      /\ ~spends => /\ start.non_witness_utxo = spent.txid
                    /\ spent.vout < Len(Outputs(spent.txid))
                    /\ Outputs(spent.txid)[spent.vout + 1] = prevout
    <2>1. CASE n = 1
        <3>1. spent.txid = ToSpend(r.challenge, r.message) /\ spent.vout = 0
            BY <2>1, RequestedOutpoints DEF RequestOK
        <3>2. prevout = TxOut(0, r.challenge)
            BY <2>1 DEF RequestedPrevout
        <3>3. Outputs(spent.txid) = <<TxOut(0, r.challenge)>>
            BY <3>1 DEF Outputs, ToSpend, RequestOK
        <3> QED BY <1>2, <2>1, <3>1, <3>2, <3>3, Present
    <2>2. CASE n # 1
        <3>1. n - 1 \in DOMAIN r.inputs
            BY <2>2, RequestedSizes DEF RequestOK
        <3> DEFINE input == r.inputs[n - 1]
        <3>2. spent.txid = input.outpoint.txid /\ spent.vout = input.outpoint.vout
            BY <2>2, RequestedOutpoints DEF RequestOK
        <3>3. prevout = input.prevout
            BY <2>2 DEF RequestedPrevout
        <3>4. input.prevout # None /\ input.outpoint.txid # None
            BY <3>1 DEF RequestOK
        <3>5. spends \/ /\ input.prev_tx = input.outpoint.txid
                        /\ input.outpoint.vout < Len(Outputs(input.prev_tx))
                        /\ Outputs(input.prev_tx)[input.outpoint.vout + 1] = input.prevout
            BY <2>2, <3>1 DEF UtxosAccepted, ProofUtxoAccepted, ProofSpendsWitness,
                              RequestedPrevout, RequestedScript
        <3> QED BY <1>2, <2>2, <3>2, <3>3, <3>4, <3>5
    <2> QED BY <2>1, <2>2
<1>4. RequestSpendsWitness(r, n) <=> spends
    BY DEF RequestSpendsWitness
<1> QED BY <1>1, <1>2, <1>3, <1>4

SameOutputs(map, old) ==
    map.witness_utxo = old.witness_utxo /\ map.non_witness_utxo = old.non_witness_utxo

(* A PSBT that has the UTXO fields that create_proof_psbt sets.            *)
RequestedUtxos(psbt, r) ==
    /\ psbt.unsigned_tx = RequestTx(r)
    /\ DOMAIN psbt.inputs = 1 .. Len(r.inputs) + 1
    /\ \A n \in 1 .. Len(r.inputs) + 1 : SameOutputs(psbt.inputs[n], StartMap(r, n))

LEMMA UtxosResolve ==
    ASSUME AbsentIsNoFunction, NEW r, RequestOK(r), UtxosAccepted(r),
           NEW psbt, RequestedUtxos(psbt, r)
    PROVE  /\ IndexedOk(psbt)
           /\ \A n \in 1 .. Len(r.inputs) + 1 :
                  /\ Resolve(psbt, n) = RequestedPrevout(r, n)
                  /\ BringsTx(r, n) => HasNonWitness(psbt, n)
<1>1. ASSUME NEW n \in 1 .. Len(r.inputs) + 1
      PROVE  /\ Resolve(psbt, n) = RequestedPrevout(r, n)
             /\ psbt.inputs[n].non_witness_utxo \in {None, Outpoint(psbt, n).txid}
             /\ BringsTx(r, n) => HasNonWitness(psbt, n)
    <2> DEFINE spent == RequestTx(r).input[n].previous_output
               map == psbt.inputs[n]
    <2>1. Outpoint(psbt, n) = spent
        BY DEF Outpoint, RequestedUtxos
    <2>2. /\ map.witness_utxo = StartMap(r, n).witness_utxo
          /\ map.non_witness_utxo = StartMap(r, n).non_witness_utxo
        BY DEF RequestedUtxos, SameOutputs
    <2>3. /\ RequestedPrevout(r, n) # None
          /\ BringsTx(r, n) =>
                 /\ StartMap(r, n).witness_utxo = None
                 /\ StartMap(r, n).non_witness_utxo = spent.txid
                 /\ Outputs(spent.txid)[spent.vout + 1] = RequestedPrevout(r, n)
          /\ ~BringsTx(r, n) => /\ StartMap(r, n).witness_utxo = RequestedPrevout(r, n)
                                /\ StartMap(r, n).non_witness_utxo = None
        BY StartOutputs
    <2> HIDE DEF spent
    <2>4. n \in 1 .. n
        OBVIOUS
    <2>5. BringsTx(r, n) => HasNonWitness(psbt, n)
        BY <2>1, <2>2, <2>3, <2>4 DEF HasNonWitness
    <2>6. Resolve(psbt, n) = RequestedPrevout(r, n)
        BY <2>1, <2>2, <2>3 DEF Resolve, SpentOutput
    <2> QED BY <2>1, <2>2, <2>3, <2>5, <2>6
<1> QED BY <1>1 DEF IndexedOk, RequestedUtxos

(* Every output can be resolved exactly if the claims about them agree.    *)
LEMMA UtxosAgree ==
    ASSUME AbsentIsNoFunction, NEW r, RequestOK(r), UtxosAccepted(r),
           NEW psbt, RequestedUtxos(psbt, r)
    PROVE  (\A n \in 1 .. Len(r.inputs) + 1 : Resolvable(psbt, n)) <=> ClaimsAgree(r)
<1> DEFINE size == Len(r.inputs) + 1
           Spent(n) == RequestTx(r).input[n].previous_output
           Shows(n) == /\ Spent(n).vout < Len(Outputs(Spent(n).txid))
                       /\ Outputs(Spent(n).txid)[Spent(n).vout + 1] = RequestedPrevout(r, n)
           Own(n) == psbt.inputs[n].witness_utxo
           Brings(n) == BringsTx(r, n)
<1>1. size \in Nat
    BY RequestedSizes DEF RequestOK
<1>2. \A n \in 1 .. size :
          /\ RequestedPrevout(r, n) # None /\ Spent(n).txid # None
          /\ Brings(n) => /\ Own(n) = None /\ Shows(n)
                          /\ psbt.inputs[n].non_witness_utxo = Spent(n).txid
          /\ ~Brings(n) => /\ Own(n) = RequestedPrevout(r, n)
                           /\ psbt.inputs[n].non_witness_utxo = None
    <2> SUFFICES ASSUME NEW n \in 1 .. size
                 PROVE  /\ RequestedPrevout(r, n) # None /\ Spent(n).txid # None
                        /\ Brings(n) => /\ Own(n) = None /\ Shows(n)
                                        /\ psbt.inputs[n].non_witness_utxo = Spent(n).txid
                        /\ ~Brings(n) => /\ Own(n) = RequestedPrevout(r, n)
                                         /\ psbt.inputs[n].non_witness_utxo = None
        OBVIOUS
    <2>1. SameOutputs(psbt.inputs[n], StartMap(r, n))
        BY DEF RequestedUtxos
    <2> DEFINE spent == Spent(n)
    <2>2. /\ RequestedPrevout(r, n) # None /\ spent.txid # None
          /\ BringsTx(r, n) =>
                 /\ StartMap(r, n).witness_utxo = None
                 /\ StartMap(r, n).non_witness_utxo = spent.txid
                 /\ spent.vout < Len(Outputs(spent.txid))
                 /\ Outputs(spent.txid)[spent.vout + 1] = RequestedPrevout(r, n)
          /\ ~BringsTx(r, n) => /\ StartMap(r, n).witness_utxo = RequestedPrevout(r, n)
                                /\ StartMap(r, n).non_witness_utxo = None
        BY StartOutputs
    <2> QED BY <2>1, <2>2 DEF SameOutputs
<1>3. \A n \in 1 .. size : Outpoint(psbt, n) = Spent(n)
    BY DEF Outpoint, RequestedUtxos
<1>4. \A n \in 1 .. size : \A h \in 1 .. n : h \in 1 .. size
    BY <1>1
<1>5. ClaimsAgree(r) <=> \A h, n \in 1 .. size :
                             h < n /\ Brings(h) /\ Spent(h).txid = Spent(n).txid => Shows(n)
    BY DEF ClaimsAgree
<1> HIDE DEF size, Spent, Brings
<1>6. \A n \in 1 .. size :
          HasNonWitness(psbt, n) <=> \E h \in 1 .. n : Brings(h) /\ Spent(h).txid = Spent(n).txid
    BY <1>2, <1>3, <1>4 DEF HasNonWitness
<1>7. \A n \in 1 .. size :
          /\ HasSpentOutput(psbt, n) <=> Spent(n).vout < Len(Outputs(Spent(n).txid))
          /\ SpentOutput(psbt, n) = Outputs(Spent(n).txid)[Spent(n).vout + 1]
    BY <1>3 DEF HasSpentOutput, SpentOutput
<1> HIDE DEF Own
<1>8. \A n \in 1 .. size : Resolvable(psbt, n) <=> (HasNonWitness(psbt, n) => Shows(n))
    <2> SUFFICES ASSUME NEW n \in 1 .. size
                 PROVE  Resolvable(psbt, n) <=> (HasNonWitness(psbt, n) => Shows(n))
        OBVIOUS
    <2>1. Brings(n) => HasNonWitness(psbt, n)
        <3>1. n \in 1 .. n
            BY <1>1
        <3> QED BY <1>6, <3>1
    <2>2. CASE HasNonWitness(psbt, n)
        BY <1>2, <1>7, <2>2 DEF Resolvable, Own
    <2>3. CASE ~HasNonWitness(psbt, n)
        BY <1>2, <2>1, <2>3 DEF Resolvable, Own
    <2> QED BY <2>2, <2>3
<1> HIDE DEF Shows
<1>9. ASSUME ClaimsAgree(r), NEW n \in 1 .. size PROVE Resolvable(psbt, n)
    <2> SUFFICES ASSUME NEW h \in 1 .. n, Brings(h), Spent(h).txid = Spent(n).txid
                 PROVE  Shows(n)
        BY <1>6, <1>8
    <2>1. CASE h = n
        BY <1>2, <2>1
    <2>2. CASE h < n
        BY <1>4, <1>5, <1>9, <2>2
    <2> QED BY <1>1, <2>1, <2>2
<1>10. ASSUME \A n \in 1 .. size : Resolvable(psbt, n) PROVE ClaimsAgree(r)
    <2> SUFFICES ASSUME NEW h \in 1 .. size, NEW n \in 1 .. size, h < n, Brings(h),
                        Spent(h).txid = Spent(n).txid
                 PROVE  Shows(n)
        BY <1>5
    <2>1. h \in 1 .. n
        BY <1>1
    <2>2. HasNonWitness(psbt, n)
        BY <1>6, <2>1
    <2> QED BY <1>8, <1>10, <2>2
<1> QED BY <1>9, <1>10 DEF size

LEMMA AcceptedSpends ==
    ASSUME NEW to_sign, NEW prevouts, to_sign.tx.version \in {0, 2},
           \A n \in DOMAIN to_sign.tx.input :
               Accepted(to_sign, prevouts, n, Parse(to_sign, prevouts, n))
    PROVE  VerifySpends(to_sign, prevouts, ParseSpends(to_sign, prevouts)) = "Valid"
<1> DEFINE spends == ParseSpends(to_sign, prevouts)
<1>1. DOMAIN spends = DOMAIN to_sign.tx.input
      /\ \A n \in DOMAIN spends : spends[n] = Parse(to_sign, prevouts, n)
    BY DEF ParseSpends
<1> HIDE DEF spends
<1>2. \A n \in DOMAIN spends : /\ VerifyInput(to_sign, prevouts, n, spends[n]) = "valid"
                               /\ ~SpendsCodeseparator(to_sign, prevouts, n, spends[n])
    BY <1>1 DEF Accepted
<1>3. VerifySpends(to_sign, prevouts, spends) = "Valid"
    BY <1>2 DEF VerifySpends
<1> QED BY <1>3 DEF spends

-----------------------------------------------------------------------------
(* The fields of an input.                                                 *)

LEMMA Fields ==
    DOMAIN EmptyInput =
        {"witness_utxo", "non_witness_utxo", "partial_sigs", "sighash_type",
         "redeem_script", "witness_script", "tap_key_sig", "tap_internal_key",
         "tap_merkle_root", "final_script_sig", "final_script_witness"}
BY DEF EmptyInput

-----------------------------------------------------------------------------
(* What a copy has of the PSBT that was made, and what it may have gained. *)

(* The redeem script of a nested output is the one thing that signers add  *)
(* besides signatures and keys.                                            *)
SameScripts(map, old, challenge) ==
    /\ map.witness_script = old.witness_script
    /\ map.sighash_type = old.sighash_type
    /\ map.tap_merkle_root = old.tap_merkle_root
    /\ \/ map.redeem_script = old.redeem_script
       \/ /\ old.redeem_script = None /\ old.witness_script = None
          /\ \E key \in Compressed :
                 map.redeem_script = P2wpkh(key) /\ challenge = P2sh(P2wpkh(key))

SameSpends(psbt, made) ==
    /\ psbt.unsigned_tx = made.unsigned_tx
    /\ psbt.message = made.message /\ psbt.outputs = made.outputs
    /\ DOMAIN psbt.inputs = DOMAIN made.inputs /\ Len(psbt.inputs) = Len(made.inputs)
    /\ \A n \in DOMAIN made.inputs : SameOutputs(psbt.inputs[n], made.inputs[n])

SameRequest(psbt, made) ==
    /\ SameSpends(psbt, made)
    /\ DOMAIN psbt = DOMAIN made
    /\ \A n \in DOMAIN made.inputs :
           SameScripts(psbt.inputs[n], made.inputs[n], Challenge(made, n))

(* A signature that the signer makes for what was made.                    *)
SignedFor(sig, made, key, n) ==
    KeyAccepted(made, key, n) /\ sig = SignatureOf(made, key, n)

GrownMap(map, made, n) ==
    /\ \A key \in Key : map.partial_sigs[key] # None =>
           SigningRoute(made, n) # "p2tr" /\ SignedFor(map.partial_sigs[key], made, key, n)
    /\ map.tap_key_sig # None =>
           /\ SigningRoute(made, n) = "p2tr"
           /\ \E key \in Key : SignedFor(map.tap_key_sig, made, key, n)

Grown(psbt, made) ==
    /\ SameRequest(psbt, made)
    /\ \A n \in DOMAIN made.inputs : GrownMap(psbt.inputs[n], made, n)

-----------------------------------------------------------------------------
(* What the roles make of a request, they make of every copy of it.        *)

LEMMA SamePrevouts ==
    ASSUME NEW psbt, NEW made, SameSpends(psbt, made), NEW n \in DOMAIN made.inputs,
           DOMAIN made.inputs = 1 .. Len(made.inputs)
    PROVE  /\ Resolve(psbt, n) = Resolve(made, n)
           /\ HasNonWitness(psbt, n) <=> HasNonWitness(made, n)
           /\ Resolvable(psbt, n) <=> Resolvable(made, n)
           /\ Challenge(psbt, n) = Challenge(made, n)
<1>1. /\ Outpoint(psbt, n) = Outpoint(made, n)
      /\ \A h \in DOMAIN made.inputs :
             /\ psbt.inputs[h].witness_utxo = made.inputs[h].witness_utxo
             /\ psbt.inputs[h].non_witness_utxo = made.inputs[h].non_witness_utxo
    BY DEF SameSpends, SameOutputs, Outpoint
<1>2. SpentOutput(psbt, n) = SpentOutput(made, n)
      /\ (HasSpentOutput(psbt, n) <=> HasSpentOutput(made, n))
    BY <1>1 DEF SpentOutput, HasSpentOutput
<1>3. Resolve(psbt, n) = Resolve(made, n)
    BY <1>1, <1>2 DEF Resolve
<1>4. HasNonWitness(psbt, n) <=> HasNonWitness(made, n)
    <2>1. \A h \in 1 .. n : h \in DOMAIN made.inputs
        OBVIOUS
    <2> QED BY <1>1, <2>1 DEF HasNonWitness
<1>5. Resolvable(psbt, n) <=> Resolvable(made, n)
    BY <1>1, <1>2, <1>4 DEF Resolvable
<1>6. n = 1 => ClaimedChallenge(psbt) = ClaimedChallenge(made)
    BY <1>1 DEF ClaimedChallenge
<1>7. Challenge(psbt, n) = Challenge(made, n)
    BY <1>3, <1>6 DEF Challenge
<1> QED BY <1>3, <1>4, <1>5, <1>7

LEMMA SameRoute ==
    ASSUME AbsentIsNoFunction, NEW psbt, NEW made, SameRequest(psbt, made),
           NEW n \in DOMAIN made.inputs, DOMAIN made.inputs = 1 .. Len(made.inputs)
    PROVE  /\ SigningRoute(psbt, n) = SigningRoute(made, n)
           /\ \A key \in Key : KeyAccepted(psbt, key, n) <=> KeyAccepted(made, key, n)
           /\ \/ psbt.inputs[n].redeem_script = made.inputs[n].redeem_script
              \/ SigningRoute(made, n) = "p2sh_p2wpkh"
<1> DEFINE map == psbt.inputs[n]
           old == made.inputs[n]
           challenge == Challenge(made, n)
<1>1. Challenge(psbt, n) = challenge
    BY SamePrevouts DEF SameRequest
<1>2. SameScripts(map, old, challenge)
    BY DEF SameRequest
<1> HIDE DEF map, old, challenge
<1>3. CASE map.redeem_script = old.redeem_script
    <2>1. SigningRoute(psbt, n) = SigningRoute(made, n)
        BY <1>1, <1>2, <1>3 DEF SigningRoute, SameScripts, map, old, challenge
    <2>2. MultisigScript(map) = MultisigScript(old)
          /\ (IsWitnessMultisig(map) <=> IsWitnessMultisig(old))
        BY <1>2, <1>3 DEF MultisigScript, IsWitnessMultisig, SameScripts
    <2>3. MultisigChallengeAccepted(map, challenge) <=> MultisigChallengeAccepted(old, challenge)
        BY <1>3, <2>2 DEF MultisigChallengeAccepted
    <2>4. \A key \in Key : KeyAccepted(psbt, key, n) <=> KeyAccepted(made, key, n)
        BY <1>1, <1>2, <1>3, <2>1, <2>2, <2>3
        DEF KeyAccepted, SameScripts, DeclaresEcdsaSighash, map, old, challenge
    <2> QED BY <1>3, <2>1, <2>4 DEF map, old
<1>4. CASE map.redeem_script # old.redeem_script
    <2>1. PICK owner \in Compressed :
              map.redeem_script = P2wpkh(owner) /\ challenge = P2sh(P2wpkh(owner))
        BY <1>2, <1>4 DEF SameScripts
    <2>2. /\ map.witness_script = None /\ old.witness_script = None
          /\ old.redeem_script = None /\ map.sighash_type = old.sighash_type
        BY <1>2, <1>4 DEF SameScripts
    <2>3. challenge.type = "p2sh" /\ IsP2wpkh(map.redeem_script)
        BY <2>1, Present DEF P2sh, P2wpkh, IsP2wpkh
    <2>4. SigningRoute(psbt, n) = "p2sh_p2wpkh" /\ SigningRoute(made, n) = "p2sh_p2wpkh"
        BY <1>1, <2>2, <2>3 DEF SigningRoute, map, old, challenge
    <2>5. ASSUME NEW key \in Key
          PROVE  KeyAccepted(psbt, key, n) <=> KeyAccepted(made, key, n)
        <3>1. challenge = P2sh(P2wpkh(key)) => P2wpkh(key) = P2wpkh(owner)
            BY <2>1 DEF P2sh
        <3> QED BY <1>1, <2>1, <2>2, <2>4, <3>1
            DEF KeyAccepted, DeclaresEcdsaSighash, map, old, challenge
    <2> QED BY <2>4, <2>5
<1> QED BY <1>3, <1>4

LEMMA SameSignature ==
    ASSUME AbsentIsNoFunction, NEW psbt, NEW made, SameRequest(psbt, made),
           NEW n \in DOMAIN made.inputs, DOMAIN made.inputs = 1 .. Len(made.inputs), NEW key
    PROVE  SignatureOf(psbt, key, n) = SignatureOf(made, key, n)
<1>1. /\ Challenge(psbt, n) = Challenge(made, n)
      /\ Resolve(psbt, n) = Resolve(made, n)
      /\ psbt.unsigned_tx = made.unsigned_tx
    BY SamePrevouts DEF SameRequest, SameSpends
<1>2. Prevouts(psbt) = Prevouts(made)
    <2>1. DOMAIN psbt.inputs = DOMAIN made.inputs
          /\ \A j \in DOMAIN made.inputs : Resolve(psbt, j) = Resolve(made, j)
        BY SamePrevouts DEF SameRequest, SameSpends
    <2> QED BY <2>1 DEF Prevouts
<1>3. /\ SigningRoute(psbt, n) = SigningRoute(made, n)
      /\ \/ psbt.inputs[n].redeem_script = made.inputs[n].redeem_script
         \/ SigningRoute(made, n) = "p2sh_p2wpkh"
    BY SameRoute
<1>4. /\ psbt.inputs[n].witness_script = made.inputs[n].witness_script
      /\ psbt.inputs[n].sighash_type = made.inputs[n].sighash_type
      /\ psbt.inputs[n].tap_merkle_root = made.inputs[n].tap_merkle_root
    BY DEF SameRequest, SameScripts
<1>5. /\ SigningTaprootSighash(psbt.inputs[n]) = SigningTaprootSighash(made.inputs[n])
      /\ IsWitnessMultisig(psbt.inputs[n]) <=> IsWitnessMultisig(made.inputs[n])
      /\ SigningRoute(made, n) # "p2sh_p2wpkh" =>
             MultisigScript(psbt.inputs[n]) = MultisigScript(made.inputs[n])
    BY <1>3, <1>4 DEF SigningTaprootSighash, IsWitnessMultisig, MultisigScript
<1>6. SigningSighash(psbt, key, n) = SigningSighash(made, key, n)
    <2> DEFINE route == SigningRoute(made, n)
    <2>1. CASE route = "p2tr"
        BY <1>1, <1>2, <1>3, <1>5, <2>1 DEF SigningSighash
    <2>2. CASE route \in {"p2wpkh", "p2pkh", "p2sh_p2wpkh"}
        BY <1>1, <1>3, <2>2 DEF SigningSighash
    <2>3. CASE route \notin {"p2tr", "p2wpkh", "p2pkh", "p2sh_p2wpkh"}
        BY <1>1, <1>3, <1>5, <2>3 DEF SigningSighash
    <2> QED BY <2>1, <2>2, <2>3
<1> QED BY <1>3, <1>4, <1>5, <1>6 DEF SignatureOf

LEMMA SameDetected ==
    ASSUME NEW psbt, NEW made, SameSpends(psbt, made),
           Len(made.inputs) \in Nat, DOMAIN made.inputs = 1 .. Len(made.inputs)
    PROVE  /\ StructureValid(psbt) <=> StructureValid(made)
           /\ Detected(psbt) <=> Detected(made)
           /\ IndexedOk(psbt) <=> IndexedOk(made)
<1>1. /\ psbt.unsigned_tx = made.unsigned_tx /\ psbt.message = made.message
      /\ psbt.outputs = made.outputs /\ Len(psbt.inputs) = Len(made.inputs)
      /\ DOMAIN psbt.inputs = DOMAIN made.inputs
    BY DEF SameSpends
<1>2. \A n \in DOMAIN made.inputs : SameOutputs(psbt.inputs[n], made.inputs[n])
    BY DEF SameSpends
<1>3. \A n : Outpoint(psbt, n) = Outpoint(made, n)
    BY <1>1 DEF Outpoint
<1>4. StructureValid(psbt) <=> StructureValid(made)
    BY <1>1 DEF StructureValid, MapsMatch
<1>5. Detected(psbt) <=> Detected(made)
    <2>1. CASE Len(made.inputs) > 0
        <3>1. SameOutputs(psbt.inputs[1], made.inputs[1])
            BY <1>2, <2>1
        <3>2. ClaimedChallenge(psbt) = ClaimedChallenge(made)
            BY <3>1 DEF ClaimedChallenge, SameOutputs
        <3>3. ChallengeUtxoConsistent(psbt) <=> ChallengeUtxoConsistent(made)
            BY <1>3, <3>1 DEF ChallengeUtxoConsistent, SameOutputs
        <3> QED BY <1>1, <1>3, <3>2, <3>3 DEF Detected, MapsMatch
    <2>2. CASE ~(Len(made.inputs) > 0)
        BY <1>1, <2>2 DEF Detected
    <2> QED BY <2>1, <2>2
<1>6. IndexedOk(psbt) <=> IndexedOk(made)
    BY <1>1, <1>2, <1>3 DEF IndexedOk, SameOutputs
<1> QED BY <1>4, <1>5, <1>6

LEMMA SameAcceptance ==
    ASSUME AbsentIsNoFunction, NEW psbt, NEW made, SameRequest(psbt, made),
           Len(made.inputs) \in Nat, DOMAIN made.inputs = 1 .. Len(made.inputs)
    PROVE  RequestAccepted(psbt) <=> RequestAccepted(made)
<1>1. DOMAIN psbt.inputs = DOMAIN made.inputs
    BY DEF SameRequest, SameSpends
<1>2. /\ StructureValid(psbt) <=> StructureValid(made)
      /\ Detected(psbt) <=> Detected(made)
      /\ IndexedOk(psbt) <=> IndexedOk(made)
    BY SameDetected DEF SameRequest
<1>3. ASSUME NEW n \in DOMAIN made.inputs
      PROVE  CheckedPrevout(psbt, n) <=> CheckedPrevout(made, n)
    <2> DEFINE spk == Resolve(made, n).script_pubkey
               map == psbt.inputs[n]
               old == made.inputs[n]
    <2>1. /\ Resolve(psbt, n).script_pubkey = spk
          /\ Challenge(psbt, n) = Challenge(made, n)
          /\ Resolvable(psbt, n) <=> Resolvable(made, n)
          /\ HasNonWitness(psbt, n) <=> HasNonWitness(made, n)
        BY SamePrevouts DEF SameRequest
    <2>2. SameScripts(map, old, Challenge(made, n))
        BY DEF SameRequest
    <2> HIDE DEF spk, map, old
    <2>3. SpendsWitness(spk, map.redeem_script) <=> SpendsWitness(spk, old.redeem_script)
        <3>1. CASE map.redeem_script = old.redeem_script
            BY <3>1
        <3>2. CASE map.redeem_script # old.redeem_script
            <4>1. /\ old.redeem_script = None
                  /\ \E key : map.redeem_script = P2wpkh(key)
                BY <2>2, <3>2 DEF SameScripts
            <4>2. IsWitnessProgram(map.redeem_script)
                BY <4>1, Present DEF IsWitnessProgram, P2wpkh
            <4> QED BY <4>1, <4>2 DEF SpendsWitness
        <3> QED BY <3>1, <3>2
    <2> QED BY <2>1, <2>3 DEF CheckedPrevout, spk, map, old
<1> QED BY <1>1, <1>2, <1>3 DEF RequestAccepted

-----------------------------------------------------------------------------
(* The PSBT that the creator makes.                                        *)

(* What SetInputScript leaves in the two script fields.                    *)
ScriptsSet(map, script, spk) ==
    \/ script = None /\ map.witness_script = None /\ map.redeem_script = None
    \/ /\ script # None
       /\ \/ /\ spk = P2wsh(script)
             /\ map.witness_script = script /\ map.redeem_script = None
          \/ /\ spk # P2wsh(script) /\ spk = P2sh(P2wsh(script))
             /\ map.witness_script = script /\ map.redeem_script = P2wsh(script)
          \/ /\ spk # P2wsh(script) /\ spk # P2sh(P2wsh(script))
             /\ map.witness_script = None /\ map.redeem_script = script

MadeMap(map, r, n) ==
    /\ DOMAIN map = DOMAIN EmptyInput
    /\ map.witness_utxo = StartMap(r, n).witness_utxo
    /\ map.non_witness_utxo = StartMap(r, n).non_witness_utxo
    /\ map.partial_sigs = [k \in Key |-> None] /\ map.tap_key_sig = None
    /\ map.sighash_type = None /\ map.tap_merkle_root = None
    /\ ScriptsSet(map, RequestedScript(r, n), RequestedPrevout(r, n).script_pubkey)

LEMMA MadeMaps ==
    ASSUME NEW r, NEW n
    PROVE  MadeMap(WithScript(StartMap(r, n), RequestedScript(r, n),
                              RequestedPrevout(r, n).script_pubkey), r, n)
<1> DEFINE script == RequestedScript(r, n)
           spk == RequestedPrevout(r, n).script_pubkey
           start == StartMap(r, n)
           map == WithScript(start, script, spk)
<1>1. \/ \E x : start = [EmptyInput EXCEPT !.witness_utxo = x]
      \/ \E x : start = [EmptyInput EXCEPT !.non_witness_utxo = x]
    BY DEF StartMap, ChallengeInputMap, ProofInputMap
<1>2. /\ DOMAIN start = DOMAIN EmptyInput
      /\ start.partial_sigs = [k \in Key |-> None] /\ start.tap_key_sig = None
      /\ start.sighash_type = None /\ start.tap_merkle_root = None
      /\ start.witness_script = None /\ start.redeem_script = None
    BY <1>1 DEF EmptyInput
<1> HIDE DEF start, script, spk
<1>3. /\ DOMAIN map = DOMAIN EmptyInput
      /\ map.witness_utxo = start.witness_utxo /\ map.non_witness_utxo = start.non_witness_utxo
      /\ map.partial_sigs = start.partial_sigs /\ map.tap_key_sig = start.tap_key_sig
      /\ map.sighash_type = start.sighash_type /\ map.tap_merkle_root = start.tap_merkle_root
    BY <1>2, Fields DEF WithScript, SetInputScript
<1>4. ScriptsSet(map, script, spk)
    BY <1>2, Fields DEF WithScript, SetInputScript, ScriptsSet
<1> QED BY <1>2, <1>3, <1>4 DEF MadeMap, start, script, spk

LEMMA Created ==
    ASSUME NEW r, RequestOK(r)
    PROVE  LET made == CreateBip322Psbt(r)
               tx == RequestTx(r)
           IN  /\ Len(r.inputs) \in Nat /\ DOMAIN r.inputs = 1 .. Len(r.inputs)
               /\ made.unsigned_tx = tx /\ made.message = r.message /\ made.outputs = 1
               /\ DOMAIN made = {"unsigned_tx", "message", "inputs", "outputs"}
               /\ Len(made.inputs) = Len(r.inputs) + 1
               /\ DOMAIN made.inputs = 1 .. Len(r.inputs) + 1
               /\ \A n \in DOMAIN made.inputs : MadeMap(made.inputs[n], r, n)
               /\ Len(tx.input) = Len(r.inputs) + 1
               /\ DOMAIN tx.input = 1 .. Len(r.inputs) + 1
               /\ tx.input[1].previous_output
                      = [txid |-> ToSpend(r.challenge, r.message), vout |-> 0]
               /\ \A n \in 2 .. Len(r.inputs) + 1 :
                      tx.input[n].previous_output
                          = [txid |-> r.inputs[n - 1].outpoint.txid,
                             vout |-> r.inputs[n - 1].outpoint.vout]
               /\ tx.output = <<TxOut(0, OpReturn)>>
               /\ tx.version \in {0, 2}
<1> DEFINE size == Len(r.inputs)
           proposed == CreateProofPsbt(r)
           tx == RequestTx(r)
           Done(n) == WithScript(proposed.inputs[n], RequestedScript(r, n),
                                 RequestedPrevout(r, n).script_pubkey)
<1>1. Sequential(r.inputs)
    BY DEF RequestOK
<1>2. /\ size \in Nat /\ DOMAIN r.inputs = 1 .. size
      /\ proposed.unsigned_tx = tx /\ proposed.message = r.message /\ proposed.outputs = 1
      /\ DOMAIN proposed = {"unsigned_tx", "message", "inputs", "outputs"}
      /\ DOMAIN proposed.inputs = 1 .. size + 1
      /\ \A n \in 1 .. size + 1 : proposed.inputs[n] = StartMap(r, n)
    BY <1>1, Requested
<1>3. CreateBip322Psbt(r) = [proposed EXCEPT !.inputs = [n \in DOMAIN proposed.inputs |-> Done(n)]]
    BY DEF CreateBip322Psbt
<1>4. /\ Len(tx.input) = size + 1 /\ DOMAIN tx.input = 1 .. size + 1
      /\ tx.input[1].previous_output = [txid |-> ToSpend(r.challenge, r.message), vout |-> 0]
      /\ \A n \in 2 .. size + 1 :
             tx.input[n].previous_output = [txid |-> r.inputs[n - 1].outpoint.txid,
                                            vout |-> r.inputs[n - 1].outpoint.vout]
      /\ tx.output = <<TxOut(0, OpReturn)>> /\ tx.version \in {0, 2}
    BY <1>1, Requested
<1> HIDE DEF size, tx, proposed
<1>5. \A n \in 1 .. size + 1 : MadeMap(Done(n), r, n)
    BY <1>2, MadeMaps
<1> HIDE DEF Done
<1>6. /\ CreateBip322Psbt(r).inputs = [n \in 1 .. size + 1 |-> Done(n)]
      /\ CreateBip322Psbt(r).unsigned_tx = tx /\ CreateBip322Psbt(r).message = r.message
      /\ CreateBip322Psbt(r).outputs = 1
      /\ DOMAIN CreateBip322Psbt(r) = {"unsigned_tx", "message", "inputs", "outputs"}
    BY <1>2, <1>3
<1>7. Len([n \in 1 .. size + 1 |-> Done(n)]) = size + 1
    BY <1>2
<1> QED BY <1>2, <1>4, <1>5, <1>6, <1>7 DEF size, tx

LEMMA CreatedSizes ==
    ASSUME NEW r, RequestOK(r)
    PROVE  /\ Len(r.inputs) \in Nat /\ Len(r.inputs) + 1 \in Nat
           /\ DOMAIN r.inputs = 1 .. Len(r.inputs)
           /\ Len(CreateBip322Psbt(r).inputs) = Len(r.inputs) + 1
           /\ DOMAIN CreateBip322Psbt(r).inputs = 1 .. Len(r.inputs) + 1
           /\ 1 \in 1 .. Len(r.inputs) + 1
           /\ \A n \in 1 .. Len(r.inputs) + 1 : n # 1 => n - 1 \in DOMAIN r.inputs
<1> DEFINE size == Len(r.inputs)
<1>1. size \in Nat /\ DOMAIN r.inputs = 1 .. size
    BY Created
<1>2. /\ Len(CreateBip322Psbt(r).inputs) = size + 1
      /\ DOMAIN CreateBip322Psbt(r).inputs = 1 .. size + 1
    BY Created
<1> HIDE DEF size
<1>3. /\ size + 1 \in Nat /\ 1 \in 1 .. size + 1
      /\ \A n \in 1 .. size + 1 : n # 1 => n - 1 \in 1 .. size
    BY <1>1
<1> QED BY <1>1, <1>2, <1>3 DEF size

LEMMA CreatedOutpoints ==
    ASSUME NEW r, RequestOK(r), NEW n \in 1 .. Len(r.inputs) + 1,
           NEW spent, spent = RequestTx(r).input[n].previous_output
    PROVE  /\ n = 1 => spent.txid = ToSpend(r.challenge, r.message) /\ spent.vout = 0
           /\ n # 1 => /\ spent.txid = r.inputs[n - 1].outpoint.txid
                       /\ spent.vout = r.inputs[n - 1].outpoint.vout
BY RequestedOutpoints DEF RequestOK

LEMMA CreatedMaps ==
    ASSUME NEW r, RequestOK(r), NEW n \in 1 .. Len(r.inputs) + 1
    PROVE  MadeMap(CreateBip322Psbt(r).inputs[n], r, n)
<1>1. DOMAIN CreateBip322Psbt(r).inputs = 1 .. Len(r.inputs) + 1
    BY Created
<1>2. \A j \in DOMAIN CreateBip322Psbt(r).inputs : MadeMap(CreateBip322Psbt(r).inputs[j], r, j)
    BY Created
<1> QED BY <1>1, <1>2

(* The UTXO fields stay as create_proof_psbt sets them.                    *)
LEMMA CreatedUtxos ==
    ASSUME NEW r, RequestOK(r)
    PROVE  /\ CreateAccepted(r) => UtxosAccepted(r)
           /\ RequestedUtxos(CreateBip322Psbt(r), r)
<1> DEFINE made == CreateBip322Psbt(r)
<1>1. CreateAccepted(r) => UtxosAccepted(r)
    BY DEF CreateAccepted, CreateProofAccepted, UtxosAccepted
<1>2. made.unsigned_tx = RequestTx(r) /\ DOMAIN made.inputs = 1 .. Len(r.inputs) + 1
    BY Created
<1>3. \A n \in 1 .. Len(r.inputs) + 1 : MadeMap(made.inputs[n], r, n)
    BY CreatedMaps
<1> HIDE DEF made
<1>4. RequestedUtxos(made, r)
    BY <1>2, <1>3 DEF RequestedUtxos, MadeMap, SameOutputs
<1> QED BY <1>1, <1>4 DEF made

LEMMA MadeHasNoSignatures ==
    ASSUME NEW r, RequestOK(r)
    PROVE  Grown(CreateBip322Psbt(r), CreateBip322Psbt(r))
<1> DEFINE made == CreateBip322Psbt(r)
<1>1. \A n \in DOMAIN made.inputs :
          /\ made.inputs[n].partial_sigs = [k \in Key |-> None]
          /\ made.inputs[n].tap_key_sig = None
    BY Created DEF MadeMap
<1> HIDE DEF made
<1> QED BY <1>1 DEF Grown, GrownMap, SameRequest, SameSpends, SameOutputs, SameScripts, made

(* A PSBT that the signer can add to: a full map for each input.           *)
Shaped(psbt) ==
    /\ "inputs" \in DOMAIN psbt
    /\ Len(psbt.inputs) \in Nat /\ DOMAIN psbt.inputs = 1 .. Len(psbt.inputs)
    /\ \A n \in DOMAIN psbt.inputs :
           /\ DOMAIN psbt.inputs[n] = DOMAIN EmptyInput
           /\ DOMAIN psbt.inputs[n].partial_sigs = Key

(* What one call of the signer changes, and what it leaves alone.          *)
LEMMA SigningChanges ==
    ASSUME NEW psbt, Shaped(psbt), NEW key \in Key, NEW n \in DOMAIN psbt.inputs,
           NEW new, new = SignBip322PsbtInput(psbt, key, n),
           NEW route, route = SigningRoute(psbt, n),
           NEW sig, sig = SignatureOf(psbt, key, n)
    PROVE  /\ Shaped(new) /\ DOMAIN new = DOMAIN psbt
           /\ new.unsigned_tx = psbt.unsigned_tx /\ new.message = psbt.message
           /\ new.outputs = psbt.outputs
           /\ DOMAIN new.inputs = DOMAIN psbt.inputs /\ Len(new.inputs) = Len(psbt.inputs)
           /\ \A h \in DOMAIN psbt.inputs : h # n => new.inputs[h] = psbt.inputs[h]
           /\ LET map == psbt.inputs[n] signed == new.inputs[n] IN
                  /\ SameOutputs(signed, map)
                  /\ signed.witness_script = map.witness_script
                  /\ signed.sighash_type = map.sighash_type
                  /\ signed.tap_merkle_root = map.tap_merkle_root
                  /\ signed.redeem_script = IF route = "p2sh_p2wpkh" THEN P2wpkh(key)
                                            ELSE map.redeem_script
                  /\ \A k \in Key :
                         signed.partial_sigs[k] = IF k = key /\ route # "p2tr" THEN sig
                                                  ELSE map.partial_sigs[k]
                  /\ signed.tap_key_sig = IF route = "p2tr" THEN sig ELSE map.tap_key_sig
<1> DEFINE map == psbt.inputs[n]
           signed == SignedInput(psbt, key, n)
<1>1. /\ new.inputs = [psbt.inputs EXCEPT ![n] = signed]
      /\ new.unsigned_tx = psbt.unsigned_tx /\ new.message = psbt.message
      /\ new.outputs = psbt.outputs /\ DOMAIN new = DOMAIN psbt
    BY DEF SignBip322PsbtInput, Shaped
<1>2. DOMAIN map = DOMAIN EmptyInput /\ DOMAIN map.partial_sigs = Key
    BY DEF Shaped
<1>3. signed = IF route = "p2tr"
                  THEN [map EXCEPT !.tap_internal_key = Point[key], !.tap_key_sig = sig]
               ELSE IF route = "p2sh_p2wpkh"
                  THEN [map EXCEPT !.redeem_script = P2wpkh(key), !.partial_sigs[key] = sig]
               ELSE [map EXCEPT !.partial_sigs[key] = sig]
    BY DEF SignedInput
<1> HIDE DEF map, signed
<1>4. /\ DOMAIN signed = DOMAIN EmptyInput
      /\ SameOutputs(signed, map)
      /\ signed.witness_script = map.witness_script
      /\ signed.sighash_type = map.sighash_type
      /\ signed.tap_merkle_root = map.tap_merkle_root
      /\ signed.redeem_script = IF route = "p2sh_p2wpkh" THEN P2wpkh(key) ELSE map.redeem_script
      /\ signed.partial_sigs = IF route = "p2tr" THEN map.partial_sigs
                               ELSE [map.partial_sigs EXCEPT ![key] = sig]
      /\ signed.tap_key_sig = IF route = "p2tr" THEN sig ELSE map.tap_key_sig
    <2>1. CASE route = "p2tr"
        BY <1>2, <1>3, <2>1, Fields DEF SameOutputs
    <2>2. CASE route = "p2sh_p2wpkh"
        BY <1>2, <1>3, <2>2, Fields DEF SameOutputs
    <2>3. CASE route \notin {"p2tr", "p2sh_p2wpkh"}
        BY <1>2, <1>3, <2>3, Fields DEF SameOutputs
    <2> QED BY <2>1, <2>2, <2>3
<1>5. /\ DOMAIN signed.partial_sigs = Key
      /\ \A k \in Key : signed.partial_sigs[k] = IF k = key /\ route # "p2tr" THEN sig
                                                 ELSE map.partial_sigs[k]
    BY <1>2, <1>4
<1>6. /\ DOMAIN new.inputs = DOMAIN psbt.inputs
      /\ \A h \in DOMAIN psbt.inputs :
             new.inputs[h] = IF h = n THEN signed ELSE psbt.inputs[h]
    BY <1>1
<1>7. Len(new.inputs) = Len(psbt.inputs)
    <2> DEFINE size == Len(psbt.inputs)
    <2>1. size \in Nat /\ DOMAIN psbt.inputs = 1 .. size
        BY DEF Shaped
    <2>2. new.inputs = [h \in 1 .. size |-> IF h = n THEN signed ELSE psbt.inputs[h]]
        BY <1>1, <2>1
    <2> HIDE DEF size
    <2>3. Len(new.inputs) = size
        BY <2>1, <2>2
    <2> QED BY <2>3 DEF size
<1>8. Shaped(new)
    BY <1>1, <1>4, <1>5, <1>6, <1>7 DEF Shaped
<1> QED BY <1>1, <1>4, <1>5, <1>6, <1>7, <1>8 DEF map

LEMMA GrownBySigning ==
    ASSUME AbsentIsNoFunction, NEW psbt, NEW made, Shaped(psbt),
           Grown(psbt, made), DOMAIN made.inputs = 1 .. Len(made.inputs),
           NEW key \in Key, NEW n, SignAccepted(psbt, key, n)
    PROVE  Grown(SignBip322PsbtInput(psbt, key, n), made)
<1> DEFINE map == psbt.inputs[n]
           sig == SignatureOf(psbt, key, n)
           route == SigningRoute(made, n)
           new == SignBip322PsbtInput(psbt, key, n)
           signed == new.inputs[n]
<1>1. SameRequest(psbt, made) /\ n \in DOMAIN psbt.inputs /\ n \in DOMAIN made.inputs
      /\ GrownMap(map, made, n) /\ KeyAccepted(psbt, key, n)
    BY DEF SignAccepted, Grown, SameRequest, SameSpends
<1>2. /\ SigningRoute(psbt, n) = route /\ KeyAccepted(made, key, n)
      /\ sig = SignatureOf(made, key, n) /\ sig # None
    BY <1>1, SameRoute, SameSignature, Present
<1>3. /\ new.unsigned_tx = psbt.unsigned_tx /\ new.message = psbt.message
      /\ new.outputs = psbt.outputs /\ DOMAIN new = DOMAIN psbt
      /\ DOMAIN new.inputs = DOMAIN psbt.inputs /\ Len(new.inputs) = Len(psbt.inputs)
      /\ \A h \in DOMAIN psbt.inputs : h # n => new.inputs[h] = psbt.inputs[h]
    BY <1>1, SigningChanges
<1>4. /\ SameOutputs(signed, map)
      /\ signed.witness_script = map.witness_script
      /\ signed.sighash_type = map.sighash_type
      /\ signed.tap_merkle_root = map.tap_merkle_root
      /\ signed.redeem_script = IF route = "p2sh_p2wpkh" THEN P2wpkh(key) ELSE map.redeem_script
      /\ \A k \in Key :
             signed.partial_sigs[k] = IF k = key /\ route # "p2tr" THEN sig
                                      ELSE map.partial_sigs[k]
      /\ signed.tap_key_sig = IF route = "p2tr" THEN sig ELSE map.tap_key_sig
    BY <1>1, <1>2, SigningChanges
<1> HIDE DEF map, sig, route, signed, new
<1>5. GrownMap(signed, made, n)
    <2>1. SignedFor(sig, made, key, n)
        BY <1>2 DEF SignedFor
    <2>2. CASE route = "p2tr"
        BY <1>1, <1>4, <2>1, <2>2 DEF GrownMap, route
    <2>3. CASE route # "p2tr"
        BY <1>1, <1>4, <2>1, <2>3 DEF GrownMap, route
    <2> QED BY <2>2, <2>3
<1>6. SameScripts(signed, made.inputs[n], Challenge(made, n))
    <2>1. SameScripts(map, made.inputs[n], Challenge(made, n))
        BY <1>1 DEF SameRequest, map
    <2>2. CASE route # "p2sh_p2wpkh"
        BY <1>4, <2>1, <2>2 DEF SameScripts
    <2>3. CASE route = "p2sh_p2wpkh"
        <3>1. /\ key \in Compressed /\ Challenge(made, n) = P2sh(P2wpkh(key))
              /\ made.inputs[n].redeem_script \in {None, P2wpkh(key)}
            BY <1>2, <2>3 DEF KeyAccepted, route
        <3>2. Challenge(made, n).type = "p2sh"
            BY <3>1 DEF P2sh
        <3>3. made.inputs[n].witness_script = None
            BY <2>3, <3>2 DEF SigningRoute, route
        <3> QED BY <1>4, <2>1, <2>3, <3>1, <3>3 DEF SameScripts
    <2> QED BY <2>2, <2>3
<1>7. SameOutputs(signed, made.inputs[n])
    BY <1>1, <1>4 DEF SameRequest, SameSpends, SameOutputs, map
<1>8. SameSpends(new, made)
    BY <1>1, <1>3, <1>7 DEF SameRequest, SameSpends, signed
<1>9. SameRequest(new, made)
    BY <1>1, <1>3, <1>6, <1>8 DEF SameRequest, SameSpends, signed
<1>10. \A h \in DOMAIN made.inputs : GrownMap(new.inputs[h], made, h)
    <2>1. \A h \in DOMAIN made.inputs : GrownMap(psbt.inputs[h], made, h)
        BY DEF Grown
    <2>2. DOMAIN made.inputs = DOMAIN psbt.inputs
        BY <1>1 DEF SameRequest, SameSpends
    <2> QED BY <1>3, <1>5, <2>1, <2>2 DEF signed
<1> QED BY <1>9, <1>10 DEF Grown, new

-----------------------------------------------------------------------------
(* What the signer makes of the PSBT that was made: it accepts the request,*)
(* and any key that an input asks for.                                     *)

LEMMA ScriptOfInput ==
    ASSUME NEW r, RequestOK(r), CreateAccepted(r), NEW n \in 1 .. Len(r.inputs) + 1,
           RequestedScript(r, n) # None
    PROVE  InputScriptAccepted(RequestedScript(r, n), RequestedPrevout(r, n).script_pubkey)
<1>1. CASE n = 1
    <2>1. RequestedPrevout(r, n).script_pubkey = r.challenge
        BY <1>1 DEF RequestedPrevout, TxOut
    <2> QED BY <1>1, <2>1 DEF CreateAccepted, ChallengeScriptAccepted, RequestedScript
<1>2. CASE n # 1
    <2>1. n - 1 \in DOMAIN r.inputs
        BY <1>2, CreatedSizes
    <2> QED BY <1>2, <2>1 DEF CreateAccepted, RequestedScript, RequestedPrevout
<1> QED BY <1>1, <1>2

LEMMA MadeRedeem ==
    ASSUME AbsentIsNoFunction, NEW map, NEW script, NEW spk, ScriptsSet(map, script, spk),
           script # None => InputScriptAccepted(script, spk),
           SpendsWitness(spk, IF script = None THEN None ELSE P2shRedeemScript(spk, script))
    PROVE  SpendsWitness(spk, map.redeem_script)
<1>1. CASE script = None
    BY <1>1 DEF ScriptsSet
<1>2. CASE script # None
    <2>1. CASE spk = P2wsh(script)
        BY <2>1, Present DEF SpendsWitness, IsWitnessProgram, P2wsh
    <2>2. CASE spk # P2wsh(script) /\ spk = P2sh(P2wsh(script))
        <3>1. map.redeem_script = P2wsh(script)
            BY <1>2, <2>2 DEF ScriptsSet
        <3> QED BY <2>2, <3>1, Present DEF SpendsWitness, IsWitnessProgram, P2sh, P2wsh
    <2>3. CASE spk # P2wsh(script) /\ spk # P2sh(P2wsh(script))
        <3>1. map.redeem_script = script /\ spk = P2sh(script)
            BY <1>2, <2>3 DEF ScriptsSet, InputScriptAccepted
        <3> QED BY <1>2, <3>1 DEF P2shRedeemScript
    <2> QED BY <2>1, <2>2, <2>3
<1> QED BY <1>1, <1>2

LEMMA MadeOutputs ==
    ASSUME AbsentIsNoFunction, NEW r, RequestOK(r), CreateAccepted(r),
           NEW n \in 1 .. Len(r.inputs) + 1
    PROVE  LET map == CreateBip322Psbt(r).inputs[n]
               spent == RequestTx(r).input[n].previous_output
               prevout == RequestedPrevout(r, n)
           IN  /\ prevout # None /\ spent.txid # None
               /\ BringsTx(r, n) =>
                      /\ map.witness_utxo = None /\ map.non_witness_utxo = spent.txid
                      /\ spent.vout < Len(Outputs(spent.txid))
                      /\ Outputs(spent.txid)[spent.vout + 1] = prevout
               /\ ~BringsTx(r, n) =>
                      /\ map.witness_utxo = prevout /\ map.non_witness_utxo = None
                      /\ SpendsWitness(prevout.script_pubkey, map.redeem_script)
<1> DEFINE map == CreateBip322Psbt(r).inputs[n]
           prevout == RequestedPrevout(r, n)
           spent == RequestTx(r).input[n].previous_output
<1>1. RequestOK(r) /\ UtxosAccepted(r)
    BY CreatedUtxos
<1>2. /\ RequestedPrevout(r, n) # None /\ spent.txid # None
      /\ BringsTx(r, n) <=> ~RequestSpendsWitness(r, n)
      /\ BringsTx(r, n) =>
             /\ StartMap(r, n).witness_utxo = None
             /\ StartMap(r, n).non_witness_utxo = spent.txid
             /\ spent.vout < Len(Outputs(spent.txid))
             /\ Outputs(spent.txid)[spent.vout + 1] = RequestedPrevout(r, n)
      /\ ~BringsTx(r, n) => /\ StartMap(r, n).witness_utxo = RequestedPrevout(r, n)
                            /\ StartMap(r, n).non_witness_utxo = None
    BY <1>1, StartOutputs
<1>3. MadeMap(map, r, n)
    BY CreatedMaps
<1>4. RequestedScript(r, n) # None =>
          InputScriptAccepted(RequestedScript(r, n), prevout.script_pubkey)
    BY ScriptOfInput
<1> HIDE DEF map
<1>5. RequestSpendsWitness(r, n) => SpendsWitness(prevout.script_pubkey, map.redeem_script)
    <2> DEFINE spk == prevout.script_pubkey
               script == RequestedScript(r, n)
    <2>1. ScriptsSet(map, script, spk)
        BY <1>3 DEF MadeMap
    <2>2. script # None => InputScriptAccepted(script, spk)
        BY <1>4
    <2>3. RequestSpendsWitness(r, n) <=>
              SpendsWitness(spk, IF script = None THEN None ELSE P2shRedeemScript(spk, script))
        BY DEF RequestSpendsWitness
    <2> HIDE DEF script, spk
    <2>4. RequestSpendsWitness(r, n) => SpendsWitness(spk, map.redeem_script)
        BY <2>1, <2>2, <2>3, MadeRedeem
    <2> QED BY <2>4 DEF spk
<1> QED BY <1>2, <1>3, <1>5 DEF MadeMap, map

LEMMA MadeResolved ==
    ASSUME AbsentIsNoFunction, NEW r, RequestOK(r), CreateAccepted(r)
    PROVE  LET made == CreateBip322Psbt(r) IN
               /\ ClaimedChallenge(made) = TxOut(0, r.challenge)
               /\ \A n \in DOMAIN made.inputs :
                      /\ Resolve(made, n) = RequestedPrevout(r, n)
                      /\ Challenge(made, n) = RequestedPrevout(r, n).script_pubkey
<1> DEFINE made == CreateBip322Psbt(r)
<1>1. /\ DOMAIN made.inputs = 1 .. Len(r.inputs) + 1 /\ Len(r.inputs) \in Nat
      /\ made.unsigned_tx = RequestTx(r)
    BY Created
<1>2. ASSUME NEW n \in DOMAIN made.inputs PROVE Resolve(made, n) = RequestedPrevout(r, n)
    <2>1. n \in 1 .. Len(r.inputs) + 1
        BY <1>1
    <2> QED BY <2>1, CreatedUtxos, UtxosResolve
<1>3. ClaimedChallenge(made) = TxOut(0, r.challenge)
    <2>1. 1 \in 1 .. Len(r.inputs) + 1
        BY <1>1
    <2>2. RequestedPrevout(r, 1) = TxOut(0, r.challenge)
        BY DEF RequestedPrevout
    <2>3. RequestTx(r).input[1].previous_output.vout = 0
        BY <2>1, CreatedOutpoints
    <2> HIDE DEF made
    <2> QED BY <2>1, <2>2, <2>3, MadeOutputs DEF ClaimedChallenge, made
<1> HIDE DEF made
<1>4. ASSUME NEW n \in DOMAIN made.inputs
      PROVE  Challenge(made, n) = RequestedPrevout(r, n).script_pubkey
    BY <1>2, <1>3 DEF Challenge, RequestedPrevout, TxOut
<1> QED BY <1>2, <1>3, <1>4 DEF made

LEMMA MadeDetected ==
    ASSUME AbsentIsNoFunction, NEW r, RequestOK(r), CreateAccepted(r)
    PROVE  LET made == CreateBip322Psbt(r) IN
               Detected(made) /\ StructureValid(made) /\ IndexedOk(made)
<1> DEFINE made == CreateBip322Psbt(r)
           tx == RequestTx(r)
           size == Len(r.inputs) + 1
<1>1. /\ size \in Nat /\ size > 0 /\ DOMAIN made.inputs = 1 .. size /\ Len(made.inputs) = size
      /\ made.unsigned_tx = tx /\ made.message = r.message /\ made.outputs = 1
      /\ Len(tx.input) = size /\ tx.output = <<TxOut(0, OpReturn)>>
      /\ tx.input[1].previous_output = [txid |-> ToSpend(r.challenge, r.message), vout |-> 0]
    BY Created
<1>2. ClaimedChallenge(made) = TxOut(0, r.challenge)
    BY MadeResolved
<1>3. \A n \in 1 .. size :
          LET map == made.inputs[n] spent == tx.input[n].previous_output IN
              /\ map.non_witness_utxo \in {None, spent.txid}
              /\ map.non_witness_utxo # None =>
                     map.witness_utxo = None /\ spent.vout < Len(Outputs(spent.txid))
              /\ map.witness_utxo # None \/ map.non_witness_utxo # None
    BY MadeOutputs
<1>4. r.message \in Utf8 /\ OutpointsValid(tx)
    BY DEF CreateAccepted, CreateProofAccepted
<1>5. Len(Outputs(ToSpend(r.challenge, r.message))) = 1
    BY DEF RequestOK, Outputs, ToSpend
<1> HIDE DEF made, tx, size
<1>6. MapsMatch(made)
    <2>1. Len(tx.output) = 1
        BY <1>1
    <2> QED BY <1>1, <2>1 DEF MapsMatch
<1>7. ChallengeUtxoConsistent(made)
    BY <1>1, <1>3, <1>5 DEF ChallengeUtxoConsistent, Outpoint
<1>8. Detected(made)
    BY <1>1, <1>2, <1>4, <1>6, <1>7 DEF Detected, Outpoint, IsBip322Output, TxOut
<1>9. IndexedOk(made)
    BY <1>1, <1>3 DEF IndexedOk, Outpoint
<1> QED BY <1>1, <1>4, <1>6, <1>8, <1>9 DEF StructureValid, made

LEMMA MadeAccepted ==
    ASSUME AbsentIsNoFunction, NEW r, RequestOK(r), CreateAccepted(r), ClaimsAgree(r)
    PROVE  RequestAccepted(CreateBip322Psbt(r))
<1> DEFINE made == CreateBip322Psbt(r)
           size == Len(r.inputs) + 1
<1>1. DOMAIN made.inputs = 1 .. size /\ size \in Nat
    BY Created, CreatedSizes
<1>2. RequestOK(r) /\ UtxosAccepted(r) /\ RequestedUtxos(made, r)
    BY CreatedUtxos
<1>3. \A n \in 1 .. size : Resolvable(made, n)
    BY <1>2, UtxosAgree
<1>4. ASSUME NEW n \in 1 .. size PROVE CheckedPrevout(made, n)
    <2>1. /\ Resolve(made, n) = RequestedPrevout(r, n)
          /\ BringsTx(r, n) => HasNonWitness(made, n)
        BY <1>2, UtxosResolve
    <2>2. ~BringsTx(r, n) =>
              SpendsWitness(RequestedPrevout(r, n).script_pubkey, made.inputs[n].redeem_script)
        BY MadeOutputs
    <2> HIDE DEF made, size
    <2> QED BY <1>3, <2>1, <2>2 DEF CheckedPrevout
<1> QED BY <1>1, <1>4, MadeDetected DEF RequestAccepted

(* A multisig script is where the wrapping of its output wants it.         *)
LEMMA MultisigMade ==
    ASSUME AbsentIsNoFunction, NEW r, RequestOK(r), CreateAccepted(r),
           NEW n \in 1 .. Len(r.inputs) + 1,
           RequestedScript(r, n) # None, RequestedScript(r, n).type = "multisig"
    PROVE  LET map == CreateBip322Psbt(r).inputs[n]
               spk == RequestedPrevout(r, n).script_pubkey
           IN  /\ SigningRoute(CreateBip322Psbt(r), n) = "multisig"
               /\ MultisigScript(map) = RequestedScript(r, n)
               /\ MultisigChallengeAccepted(map, spk)
               /\ ~IsP2wpkh(map.redeem_script) /\ spk.type \in {"p2wsh", "p2sh"}
<1> DEFINE made == CreateBip322Psbt(r)
           map == made.inputs[n]
           spk == RequestedPrevout(r, n).script_pubkey
           script == RequestedScript(r, n)
<1>1. Challenge(made, n) = spk
    <2>1. n \in DOMAIN made.inputs
        BY CreatedSizes
    <2> QED BY <2>1, MadeResolved
<1>2. ScriptsSet(map, script, spk)
    BY CreatedMaps DEF MadeMap
<1>3. InputScriptAccepted(script, spk)
    BY ScriptOfInput
<1>4. script.type = "multisig" /\ script # None
    OBVIOUS
<1> HIDE DEF made, map, spk, script
<1>5. /\ \A s : P2wsh(s).type = "p2wsh" /\ P2sh(s).type = "p2sh" /\ P2sh(s).script = s
      /\ \A s : P2wsh(s) # None
    BY Present DEF P2wsh, P2sh
<1>6. CASE spk = P2wsh(script)
    <2>1. map.witness_script = script /\ map.redeem_script = None
        BY <1>2, <1>4, <1>6 DEF ScriptsSet
    <2> QED BY <1>1, <1>4, <1>5, <1>6, <2>1
        DEF SigningRoute, MultisigScript, MultisigChallengeAccepted, IsWitnessMultisig, IsP2wpkh,
            map, made, spk, script
<1>7. CASE spk # P2wsh(script) /\ spk = P2sh(P2wsh(script))
    <2>1. map.witness_script = script /\ map.redeem_script = P2wsh(script)
        BY <1>2, <1>4, <1>7 DEF ScriptsSet
    <2> QED BY <1>1, <1>4, <1>5, <1>7, <2>1
        DEF SigningRoute, MultisigScript, MultisigChallengeAccepted, IsWitnessMultisig, IsP2wpkh,
            map, made, spk, script
<1>8. CASE spk # P2wsh(script) /\ spk # P2sh(P2wsh(script))
    <2>1. map.witness_script = None /\ map.redeem_script = script
          /\ spk = P2sh(script) /\ ScriptLen(script) <= MaxElementSize
        BY <1>2, <1>3, <1>4, <1>8 DEF ScriptsSet, InputScriptAccepted
    <2>2. ~IsP2wpkh(script)
        BY <1>4 DEF IsP2wpkh
    <2> QED BY <1>1, <1>4, <1>5, <1>8, <2>1, <2>2
        DEF SigningRoute, MultisigScript, MultisigChallengeAccepted, IsWitnessMultisig,
            map, made, spk, script
<1> QED BY <1>6, <1>7, <1>8

(* The keys of the output, or of the script given for it.                  *)
Asks(r, n, key) ==
    LET spk == RequestedPrevout(r, n).script_pubkey
        script == RequestedScript(r, n)
    IN  \/ spk \in {P2pkh(key), P2tr(Point[key], None)}
        \/ key \in Compressed /\ spk \in {P2wpkh(key), P2sh(P2wpkh(key))}
        \/ /\ script # None /\ ParsesMultisig(script)
           /\ \E j \in DOMAIN script.keys : script.keys[j] = key

LEMMA AskedKeyAccepted ==
    ASSUME AbsentIsNoFunction, NEW r, RequestOK(r), CreateAccepted(r),
           NEW n \in 1 .. Len(r.inputs) + 1, NEW key \in Key, Asks(r, n, key)
    PROVE  KeyAccepted(CreateBip322Psbt(r), key, n)
<1> DEFINE made == CreateBip322Psbt(r)
           map == made.inputs[n]
           spk == RequestedPrevout(r, n).script_pubkey
           script == RequestedScript(r, n)
<1>1. Challenge(made, n) = spk
    BY Created, MadeResolved
<1>2. MadeMap(map, r, n)
    BY Created
<1>3. /\ map.sighash_type = None /\ map.tap_merkle_root = None
      /\ ScriptsSet(map, script, spk)
    BY <1>2 DEF MadeMap
<1>4. script # None => InputScriptAccepted(script, spk)
    BY ScriptOfInput
<1>5. \/ spk \in {P2pkh(key), P2tr(Point[key], None)}
      \/ key \in Compressed /\ spk \in {P2wpkh(key), P2sh(P2wpkh(key))}
      \/ /\ script # None /\ ParsesMultisig(script)
         /\ \E j \in DOMAIN script.keys : script.keys[j] = key
    BY DEF Asks
<1>6. DeclaresEcdsaSighash(map)
    BY <1>3 DEF DeclaresEcdsaSighash
<1> HIDE DEF made, map, spk, script
<1>7. CASE spk = P2pkh(key)
    <2>1. SigningRoute(made, n) = "p2pkh"
        BY <1>1, <1>7 DEF SigningRoute, P2pkh
    <2> QED BY <1>1, <1>6, <1>7, <2>1 DEF KeyAccepted, made, map
<1>8. CASE spk = P2tr(Point[key], None)
    <2>1. SigningRoute(made, n) = "p2tr"
        BY <1>1, <1>8 DEF SigningRoute, P2tr
    <2> QED BY <1>1, <1>3, <1>8, <2>1 DEF KeyAccepted, made, map
<1>9. CASE key \in Compressed /\ spk = P2wpkh(key)
    <2>1. SigningRoute(made, n) = "p2wpkh"
        BY <1>1, <1>9 DEF SigningRoute, P2wpkh
    <2> QED BY <1>1, <1>6, <1>9, <2>1 DEF KeyAccepted, made, map
<1>10. CASE key \in Compressed /\ spk = P2sh(P2wpkh(key))
    <2>1. spk.type = "p2sh" /\ spk.script = P2wpkh(key)
        BY <1>10 DEF P2sh
    <2>2. P2wpkh(key).type = "p2wpkh" /\ P2wpkh(key) # None
        BY Present DEF P2wpkh
    <2>3. spk # P2wsh(script) /\ spk # P2sh(P2wsh(script))
        BY <2>1, <2>2 DEF P2wsh, P2sh
    <2>4. map.witness_script = None /\ map.redeem_script \in {None, P2wpkh(key)}
        BY <1>3, <1>4, <2>1, <2>3 DEF ScriptsSet, InputScriptAccepted, P2sh
    <2>5. SigningRoute(made, n) = "p2sh_p2wpkh"
        BY <1>1, <2>1, <2>2, <2>4 DEF SigningRoute, IsP2wpkh, map
    <2> QED BY <1>1, <1>6, <1>10, <2>4, <2>5 DEF KeyAccepted, made, map
<1>11. CASE script # None /\ ParsesMultisig(script)
            /\ \E j \in DOMAIN script.keys : script.keys[j] = key
    <2>1. script.type = "multisig"
        BY <1>11 DEF ParsesMultisig
    <2>2. /\ SigningRoute(made, n) = "multisig"
          /\ MultisigScript(map) = script
          /\ MultisigChallengeAccepted(map, spk)
        BY <1>11, <2>1, MultisigMade DEF made, map, spk, script
    <2> QED BY <1>1, <1>6, <1>11, <2>2 DEF KeyAccepted, made, map
<1> QED BY <1>5, <1>7, <1>8, <1>9, <1>10, <1>11 DEF made

=============================================================================
