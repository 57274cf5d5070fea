# A TLA+ model of the bip322 crate

The crate signs and verifies messages as BIP-322 describes: a message is committed to by a virtual
transaction `to_spend`, and a proof is a transaction `to_sign` that spends it, with further inputs
when the signer also proves control of funds. Because a proof is a transaction, signing is done with
the tools for transactions: partially signed transactions (PSBTs) that several parties pass around,
sign, combine and finalize. This directory models that system, checks it with TLC and proves the
parts that do not depend on the size of an instance with TLAPS.

Paths below are relative to the crate, so `src/psbt/signer.rs` is the signer.

## Inventory

| Component | State | Operations | Interacts with | What makes it correct |
| --- | --- | --- | --- | --- |
| Transactions and scripts (`message.rs`, `script.rs`, `transaction.rs`, `limits.rs`) | none | build `to_spend` and `to_sign`, validate outpoints, parse multisig | everything | the txid of `to_spend` binds message and challenge; `to_sign` can never be a payment |
| Creator (`psbt/creator.rs`) | a new PSBT | `create_bip322_psbt` | detection must recognise what it makes | every request it accepts can be signed, finalized and verified |
| Detection (`psbt.rs`) | none | `detect_bip322_psbt` | called by signer and finalizer | what is displayed is what the transaction commits to |
| Prevout resolver (`psbt/prevouts.rs`) | a map from txid to the first supplier | `new`, `resolve`, `has_non_witness` | signer, finalizer, `verify_pof` | one lookup implements "own or earlier input"; claimed values agree with supplied transactions |
| Signer (`psbt/signer.rs`, `psbt/helpers.rs`) | the PSBT, through `&mut` | `sign_bip322_psbt_input` | other holders' copies, through combining | signs only what it displays; any order and any retry works |
| Combiner (`Psbt::combine` of rust-bitcoin, external) | two copies | merge | signer, finalizer | no signature is lost |
| Finalizer (`psbt/finalizer.rs`) | the PSBT, by value | `finalize_bip322_psbt` | it checks no signature, so it relies on the signer; the verifier relies on nothing | honest proofs verify |
| CHECKMULTISIG evaluator (`verify/templates.rs`) | two cursors | `verify_checkmultisig` | called for P2WSH and P2SH multisig | the greedy pass decides the matching problem |
| Verifier entry points (`verify.rs`) | the inputs parsed so far, the inconclusive flag, the input a pass is at | `verify_simple`, `verify_full`, `verify_pof`, `verify_spends` | takes all its data from the prover | Valid means consent of the key holders; the verdict does not depend on the order in which rules and inputs are looked at |
| Spend classification and evaluation (`verify/spend.rs`, `verify/bound.rs`, `verify/templates.rs`, `verify/taproot.rs`) | none: one input | `Spend::parse`, `verify_input`, the scans | the evaluator, the interpreter | every path to "valid" checks a signature the output asks for; "inconclusive" only for what is reserved |
| Interpreter fallback (`verify/interpreter.rs`) | the signatures the interpreter reported | `verify_with_interpreter` | rust-miniscript | the required rules still hold of what the interpreter accepts |
| Decoding and preflight (`verify/decode.rs`, `verify/preflight.rs`) | a cursor, and one within the value of a pair | walk an encoding, then decode it | in front of rust-bitcoin's decoders, behind it the verifier | passes on what the decoder accepts; bounds what is allocated; ends |
| Direct signing (`sign.rs`, `sign/input.rs`, `script.rs`) | the PSBT that is filled input by input; the keys used so far for a script | `sign_simple`, `sign_full`, `sign_pof`, `ordered_multisig_signatures` | shares its proof PSBT with the creator; the verifier | its proofs verify; it accepts what the PSBT roles accept |
| Legacy format (`sign.rs`, `verify/legacy.rs`) | none | `sign_legacy`, `verify_legacy` | | pure cryptography |
| Errors and crate surface (`error.rs`, `lib.rs`) | none | | | |

The crate has no threads and no storage. What is hard about it is that its calls are steps of a
protocol between parties and across time: every call takes its state from a document that other
software held in between. The hard behaviours are therefore

* the orders in which copies are signed and combined, repeated calls, and documents altered between
  two calls;
* code that answers one question in several places and has to agree with itself: three roles
  classify an input by different fields (the signer by the challenge, the finalizer by what the
  signer left behind, the verifier by the final scripts), direct signing classifies it a fourth way,
  and the preflight walk reads the same bytes as rust-bitcoin's decoder;
* rules whose order decides the verdict: required before upgradeable, over all inputs and within one
  tapscript;
* algorithms with an order in them: the one-pass CHECKMULTISIG matching, the first-supplier index,
  the assignment of private keys to the keys of a script;
* numbers that come from the input and drive a loop or an allocation.

`PROJECT.json` lists each hazard at its line, with the properties about it.

## Modules

| Module | Models | State | Actions |
| --- | --- | --- | --- |
| `Checkmultisig` | `verify_checkmultisig` | `stack`, `required`, `keys`, the cursors `s` and `k`, `pc` | one per test of the loop: `CheckStack`, `NextItem`, `TryKey`, `KeysExhausted` |
| `Prevouts` | `PrevoutResolver` and `checked_psbt_input_prevout` | `psbt`, the map `nonWitness`, the loop index `i`, `prevouts`, `pc` | one per loop iteration and loop end: `IndexInput`, `IndexDone`, `ResolveInput`, `ResolveDone` |
| `Bip322` | scripts, transactions, `create_bip322_psbt` | none: operators | |
| `PsbtRoles` (extends `Bip322`) | detection, signer, finalizer, `Psbt::combine` | none: a role is `...Accepted` (the call returns `Ok`) and a function of the PSBT | |
| `Spends` (extends `PsbtRoles`) | one input: `Spend::parse`, the templates, taproot, the interpreter | none: `Parse` and `VerifyInput` are functions of the transaction, the prevouts and the input | |
| `Verifier` (extends `Spends`) | `verify_simple`, `verify_full`, `verify_pof` in closed form | none: a verdict is a function of the proof | |
| `Authorisation` (extends `Verifier`) | what the verifier is judged by: which signers an output asks for, what satisfies it, what is reserved | none | |
| `Verification` (extends `Authorisation`) | the same calls as they run: the checks of the whole proof, then four passes over the inputs | the question, `pc`, `i`, `spends`, `inconclusive`, `verdict` | `CheckProof`, `ParseInput`, `CheckBacking`, `ScanCodeseparator`, `VerifyNext`, `ReturnVerdict` |
| `Verdict` | the abstract specification of a verdict | `bounded`, `broken`, `reserved`, `verdict` | `Decide` |
| `SigningSession` (extends `Authorisation`) | the composition: a session of parties that call the roles | `request`, `copy` of each party, `proof`, `released` (what signers gave out and displayed), `alterations` | `Create`, `Receive`, `Sign`, `Finalize`, `AlterCopy`, `AlterProof` |
| `DirectSigning` (extends `Authorisation`) | `sign_simple`, `sign_full`, `sign_pof` | `call`, `pc`, `n`, `to_sign`, `k`, `used`, `signatures`, `result` | `Create`, `SignSingleKey`, `StartMultisig`, `TryPubkey` (one key of the script), `FinishMultisig`, `RefuseInput` |
| `Encoding` | rust-bitcoin's encodings and decoder (external) | none: `Decoded(payload)` is what it reads, where it stops and the most it allocates for | |
| `Preflight` (extends `Encoding`) | `decode_simple`, `decode_full`, `decode_pof` and the cursor | `payload`, `pc`, `position`, `end`, `work` (the calls still to be made), `shape`, `result` | one per function of the cursor, one per kind of pair of a map |
| `...Proofs` | the theorems | | |
| `MC...` | the instances TLC checks | | |

Conventions. A call that fails leaves the PSBT as it was, so it is not a step. (The signer takes
its PSBT by `&mut`, but after the first field it writes there is no early return.) Cryptography is
symbolic: a txid is the transaction it names, a script hash is the script, a sighash is the record of
what that algorithm covers (legacy: no value; segwit v0: the input's own value; taproot: every
prevout, the annex and the leaf), and a signature verifies for exactly one point and sighash. Inputs
count from 1 where the code counts from 0. Two keys may share a point (`Point`): a compressed and an
uncompressed form. A script that no template matches is its sequence of instructions, as far as the
scans of the verifier tell them apart. A script carries its length and the other items have the length
of their kind; all signatures have one (`SignatureLen`), on which only the bound on a whole scriptSig
depends.

Three things are modelled twice, step by step where they are the subject and in closed form where
they are used. The theorems on `Checkmultisig` justify the `Checkmultisig` operator of `Spends`;
those on `Prevouts` the operators `HasNonWitness` and `Resolvable` of `PsbtRoles`; and `Verification`,
which implements `Verdict`, the operator `VerifySpends` of `Verifier`.

`Verification` keeps `rules`, an auxiliary variable that never changes: which required rules the
proof breaks and which upgradeable ones it relies on, each looked at by itself. It is the state of
`Verdict` under the refinement, and no action reads it.

In `Preflight` the Rust call stack is the sequence `work`: a function that calls others replaces
itself by the calls it makes, and a loop is one entry with a count. A value of a PSBT pair is read by
a cursor of its own, which is what `end` and the entries `return` and `return_exact` stand for.

An alteration (in `SigningSession`) stands for anything that happens to a document between two calls
of this crate: a PSBT field replaced or removed, an input dropped or moved, a request made over into
one for another message, a witness item replaced, removed or added, other outputs. It may use every
signature that was ever released and, for each key, one made elsewhere over something that is no
`to_sign` (`Foreign`). Nobody makes a signature without the key.

## Runs

| Run | Instance | Shows |
| --- | --- | --- |
| `checkmultisig` | every stack and key list of the sizes in `MCCheckmultisig`, with every relation of items to keys there | soundness, completeness and termination of the forward pass |
| `prevouts` | every PSBT of 1 to 3 inputs over two transactions; every combination of the two UTXO fields, past-the-end outputs included | the fallback rule, agreement, legacy backing, and that a rejection has a reason |
| `prevouts_order` | the same with 2 inputs | a violation, see Findings |
| `session_honest` | 3 parties (a coordinator without keys, two signers), 10 requests: every supported script type as challenge, every kind of proven input, and two requests whose claims contradict each other | `HonestProofVerifies`, `SigningNeverBlocked`, `SignaturesAccumulate`, `EventuallyProven` |
| `session_altered` | 2 parties, 4 requests, one alteration | `TypeOK`, `SignedOnlyAsDisplayed`, `ValidImpliesConsent` |
| `session_altered_twice` | 1 party with every key, 4 requests, two alterations | `SignedOnlyAsDisplayed` and `ValidImpliesConsent` for what one change cannot do: alter and restore, alter two fields that have to agree, or alter copy and proof; and `SignedValueBound` |
| `verify_inputs` | every executed script of `MCVerification` under every output that can wrap it, with every stack of up to two items from a pool of good and bad ones, and chosen longer ones | `ValidIsAuthorised`: each path through templates, tapscripts and interpreter checks the signatures the output asks for; `InconclusiveIsReserved`: no proof is given up on that a rule decides; `SatisfiedIsValid`: what satisfies every output as it asks is not turned away |
| `verify_order` | proofs of funds of every one and two proven inputs out of one spend of each outcome, versions 0, 2 and 3, the message field, one input too many | `MeetsVerdict`: the passes with their early returns implement `Verdict`, and end; `ValidIsAuthorised` and `SatisfiedIsValid` for several inputs |
| `direct_signing` | every output, script argument and list of up to three keys for a single challenge; every pair of coins with claims that are true or false; the refusals of `sign_pof` | `DirectProofVerifies`, and that direct signing and the PSBT roles accept the same calls (`RefusesOnlyWhatRolesRefuse`, `RolesProveWhatIsSigned`) |
| `preflight` | witnesses, transactions and PSBTs, each truncated at every place, with every byte replaced by every other, and with a byte behind; one PSBT with any two bytes replaced; all short byte strings as a witness; PSBTs beyond two limits at once | `TypeOK` (the cursor), `AllocationBounded`, `DiffersOnlyInLength`: but for the length of nested values, an encoded proof gets the verdict of the typed one; `Terminates` |
| `preflight_limits` | three PSBTs with one input too many and another limit broken: a final witness, a previous transaction, the outputs | a violation, see Findings |

Bounds. Three inputs are the least that has a supplier before, at and behind an input; two
transactions the least in which two inputs share one and a third does not. Two signers with 2-of-2,
1-of-2, 2-of-3 and repeated-key scripts exercise too few, enough and more than enough signatures and
a key that takes two places. `MaxProofInputs` is 3, a request with three inputs is in the honest and
the direct-signing run and a proof with four in `verify_order`, so the limit is met from both sides.
`MaxElementSize` is 105, so
that the 2-of-2 fits and the bound is the bare-P2SH script with an uncompressed key. The other script
limits are the real ones in the runs of sessions and of direct signing, whose scripts never come near
them (`RoomForMultisig`); in the verification runs `MaxScriptSize` (250), `MaxOpsPerScript` (2) and
`MaxStackSize` (4) each have a script or a stack on either side. A scriptSig is bounded as a whole: with
its pushes, two signatures and a chain of two CHECKSIGs under P2SH come to exactly 250 bytes
(`LongChain`), and the multisig script of the same keys to 252 (`LongMultisig`). The session ends at its first proof.
A proof for another message or address is looked for among all messages and all addresses of the
instance. Two parties with two alterations have millions of states; the second altered run therefore
gives all keys to one party, which signs or not with each of them as it likes.

The instance of `preflight` is a scaled encoding: bytes are 0 to 7, of which the last three introduce
a size of one, two or three bytes more (as 0xfd to 0xff introduce two, four and eight), the fixed
fields have one or two bytes, and `MaxEncodingSize` is 24. What it keeps is what matters: sizes of
every width, a least value for each, a count beyond what can follow it, a length beyond the value it
is in, and values longer than the limit. The theorem about the cursor is for every choice of these
numbers.

Fairness. `Checkmultisig`, `Verification`, `DirectSigning` and `Preflight` are each one call, which
runs until it returns: weak fairness of `Next`. `SigningSession` has weak fairness of `Next` only: the
parties do not all stop while something is left to do. No party, order or message is assumed fair;
`EventuallyProven` holds because every step of an unaltered session adds something (a copy, a
signature) that never goes away, so that a session cannot go round for ever, and because it has no
dead end but a proof. A call that changes nothing (signing again in the same way: ECDSA is
deterministic and Schnorr uses no auxiliary randomness) is a stutter.

Deadlock is not checked in the runs whose behaviours end: in an outcome, or in a proof.

Each property of a passing run has a mutant: a definition changed as a plausible bug would change
it, under which TLC finds that property violated. The mutants stand beside what they mutate and are
used nowhere else.

## Proofs

The proofs use the named assumptions on the constants, which TLC evaluates on the instances. A few
have one hypothesis more, see the end of this section.

* `CheckmultisigProofs`. `TypeCorrect` bounds the cursors. `Soundness` needs the strengthening that
  the items before the cursor are matched in order to keys before the key cursor. `Completeness`
  needs the dual: every order-preserving assignment gives the signatures from the cursor on keys that
  the iterator has not yielded; it is inductive because replacing an assignment's key by an
  earlier key that also verifies keeps the rest ahead. Together they say that the pass computes
  `Satisfied`, for stacks and scripts of every size.
* `PrevoutsProofs`. The inductive invariant says that the map holds, for each txid, the first input
  scanned so far that supplies it, or 0, and that each resolved output is the one its `Resolvable`
  and `Resolution` give. The fallback rule, agreement, legacy backing and the justification of
  rejections follow for PSBTs of any number of inputs.
* `VerificationProofs`, for any proofs with any number of inputs. The inductive invariant has three
  parts. `Control` says which pass is at which input, and gives `TypeCorrect`. `Progress` says what
  the passes so far have established: the parsed spends are those of the transaction, no required rule
  is broken by an input that a pass is behind, and the flag is set exactly when one of the inputs
  evaluated so far is inconclusive. The third says that a verdict, once returned, is
  `Verdict`'s outcome. The difficulty is that a pass returns at the first broken rule, while `Outcome`
  asks for all of them: `BrokenByARule` and `ReservedByARule` tie the sets of rules to what a pass
  meets. `VerdictIsTheRules` is the safety part of the refinement (initial states map to initial
  states, each step to `Decide` or a stutter); that a verdict is reached is left to the run.
* `PreflightProofs`, for any bytes, base, widths and sizes of fields. `CursorInBounds` needs no
  strengthening: `position <= end <= Len(bytes)` is kept because every call that moves the cursor has
  compared with what remains *there*. The lemmas go call by call; the arithmetic is in
  `TakeIsInside`, `SizeIsInside`, `CountIsInside` and `PairIsInside`.
* `SigningSessionProofs`, for any parties, keys, requests and any number of alterations. The two
  properties of `released` are inductive as they stand, because only `Sign` releases
  (`OnlySignReleases`: the other actions, alterations included, leave `released` alone) and what it
  releases has them. `DisplayedBeforeSigned` proves `SignedOnlyAsDisplayed` from the detection that
  precedes every signature (`SigningIsDisplayed`, `SighashCoversTx`: each route's sighash covers the
  PSBT's own transaction and input). `ValueBeforeSigned` proves `SignedValueBound`: the taproot and
  segwit sighashes cover the value, and `LegacySighashIsLegacySpend` shows that a legacy sighash is
  only made where the resolver took the spend for a legacy one, which is where
  `checked_psbt_input_prevout` insists on the previous transaction (`LegacyOutputIsSpent`). Input 1,
  which is signed against the detected challenge and not against its resolved output, is covered by
  `ChallengeIsResolved`: the two are the same.
  Types, for the same generality: `SessionOK` says that every copy keeps its shape and
  that every signature in it is in the pool: released by a signer or made elsewhere. `TypeCorrect` is
  its consequence. The pool only grows, so what a step does not touch stays in it; creating, combining,
  signing and each alteration are a lemma each; the invariant covers the final fields too, for
  `ValidMeansConsent`. `NoSignatureIsLost` proves the action property
  `SignaturesAccumulate` from the invariant before the step.
* `AuthorisationProofs` and `ValidAuthorised` in `VerificationProofs`, for every script, wrapping, leaf,
  stack and number of keys and inputs. `SpendOK` says what a spend that parses looks like: its script is
  the one that the output commits to, and its stack consists of items that the input shows (`Parsed`,
  with a lemma for each of `taproot_kind`, `witness_kind` and `p2sh_kind`). From there each evaluator has
  a lemma: what it accepts, it accepts because of items that verify over the sighash it computes for
  this spend, which are the ones `CommitsToAll` describes (`LegacySigner`, `SegwitSigner`,
  `TaprootSigner`). The one for CHECKMULTISIG counts: an order-preserving assignment of `required`
  signatures reaches `required` keys (`LastOfThreshold`). `ValidInputIsAuthorised` puts them together, and
  `ValidAuthorised` needs in addition that a pass that returns has looked at every input, which the
  invariant of the passes says.
* The same module goes the other way. `InconclusiveInputIsReserved` (and `InconclusiveReserved` in
  `VerificationProofs`, for `InconclusiveIsReserved`): the evaluation answers "inconclusive" only where
  `ReservedInput` finds something that the input shows: a form of output without a known spend, a script without a template
  or with something that a soft fork may redefine, an annex, another leaf version, an opcode as an item.
  `SatisfiedInputIsValid` (and `SatisfiedValid`, for `SatisfiedIsValid`): an
  input that satisfies its output in one of the standard ways (`InputSatisfied`: a key, a multisig in
  the order of its keys, a tapscript, bare or nested) passes every rule, required or upgradeable. The
  limits are part of `InputSatisfied`, among them the one on the whole scriptSig, however many
  CHECKSIGs a script has; that multisig scripts and nested programs keep to it follows from the
  constants (`MultisigSatisfies`, `ScriptSigsFit`, from `ScriptSigBound` on the sum of the pushes).
* `ValidMeansConsent` in `SigningSessionProofs` proves `ValidImpliesConsent` for every session. `ConsentInv` extends
  `SessionOK` to the finished proof (`ProofOK`): every signature in its witnesses and scriptSigs is in
  the pool, through the finalizer and through alterations. The finalizer puts only signatures that are
  there into a stack, which for multisig takes an argument (`ChosenHaveSigned`): the first `required` keys
  with a signature exist, because a count that goes up by at most one comes by every number
  (`Counted`, from the least-number principle). A Valid verdict then gives signers that are shown
  (`ValidInputIsAuthorised`); each of their signatures is in the pool and not one made elsewhere, whose
  transaction has no output of a `to_sign`; so it was released (`SignerWasAsked`), and the two properties
  of `released` say for which message, address, input and value. Where the sighash covers no value, the
  verifier's own rule that a legacy input is backed by its previous transaction closes the gap
  (`PofOutputsKnown`), and the challenge's value is zero on both sides (`ChallengeHasNoValue`).
* `HonestProofs` proves what an unaltered session promises. `HonestInv` says that every copy has grown
  from the PSBT that the creator made for the request (`Grown`): it spends the same outputs, has the same
  scripts up to a redeem script that a key of a nested output implies, and each signature in it is the
  one that an accepted key makes for the original (`SignedFor`); and that the proof is what the finalizer
  makes of a copy. The weaker statement that signatures verify is not inductive: combining copies keeps
  what is on either side, so both sides must come from one request. From there
  - `NeverBlocked` proves `SigningNeverBlocked`: what the signer asks of a copy, it asks of the original
    (`SameRoute`, `SameDetected`, `SameAcceptance`), and the original accepts every key that the request
    asks for (`MadeAccepted`, `AskedKeyAccepted`), if the claims of the request agree (`MadeResolved`).
  - `FinalizedIsSatisfied`: each of the finalizer's five routes (taproot key, multisig under segwit, bare
    or nested, a key under segwit, a key hash, multisig under P2SH) gives an input that is
    `InputSatisfied`. The finalizer looks at what is in the fields and checks no signature; that it takes
    the same branch as the signer did is `KeySpent` and `MultisigSpent`, and that the first `required`
    signatures stand in the order of the script is `ChosenInOrder`.
  - `HonestVerifies` proves `HonestProofVerifies`: `SatisfiedInputIsValid` for each input, and the rules
    about the whole proof from `FinalizedAccepted` and `FinalizedVerifies`.

* `DirectSigningProofs` proves `DirectVerifies`, for `DirectProofVerifies`, and `TypeCorrect`, for every
  call. `DirectInv` says of each input behind the one being signed that it is satisfied (`SignedMap`: as
  an input of a transaction of which nothing else is known, `Alone`, so that filling in the others cannot
  disturb it), and of each one ahead that it carries no spend; and that what the signing must not touch
  is as the creator left it. Within the loop over the keys of a script it says
  that the signatures are by keys of the script that have been looked at, in its order, as many as private
  keys are used (`SignedSoFar`). A private key that is used twice, or keys taken in the order of the
  arguments, break that step. When the loop ends with `required` signatures they are the multisig stack
  the script asks for (`EnoughKeysSigned`, `MultisigSigned`); `SingleKeySigned` is the same for the other
  branches. The end is `SatisfiedInputIsValid` again, input by input, and `PofVerifies` for the proof as
  a whole: the UTXO fields resolve exactly if the claims agree (`UtxosAgree`), which is why the property
  is an equivalence. `TypeOK` alone is not inductive: that the inputs behind carry a spend is known only
  from what was placed.
* The same module proves that direct signing and the PSBT roles take the same calls, for every call.
  `ExactInv` has what direct signing takes in closed form: input by input `Signable`, one key that fits
  the output, or a multisig script that the output commits to and as many private keys as it requires,
  each of them a key of it and none given twice in whatever form. It is exact, because in the loop `used`
  is the set of *all* private keys that fit a key looked at so far, and so a loop that ends short of
  `required` signatures has shown that some private key fits none. On the other side stands what a signer
  with all the keys makes of a created PSBT, `RolesPsbt`: a function by recursion over the inputs, and
  for each input (`SignedBy`) over its keys. The induction over them is over the set of places that are
  reached (`ReachesUpTo`, from the least-number principle), first for their values (`SignedByValues`,
  `RolesValues`), then for `InProgress`: the PSBT has grown from the created one, the inputs behind have
  the signatures of all of their keys, the one at hand those of the keys so far and the ones ahead none
  (`SigningProgresses`, `NextInProgress`).
  - `RefusesOnly` proves `RefusesOnlyWhatRolesRefuse`: a key that the signer takes is one of the output
    or of the script, in this very form (`RolesKeys`), and what is finalized has a script that parses; so
    with as many distinct keys as signatures each input is `Signable` (`ProvedSignable`).
  - `RolesProveSigned` proves `RolesProveWhatIsSigned`: a `Signable` input asks for its keys, so that the
    signer takes each of them whatever was signed before (`AskedKeyAccepted` from the honest session,
    `InputTaken`), and afterwards the finalizer finds on each input what its route looks for
    (`FinalizableInput`). That distinct private keys give signatures in distinct places of the script is
    `EnoughGiven`.
  What these share with the session (`Grown`, `SameRoute`, `AskedKeyAccepted`, ...) is in
  `AuthorisationProofs`.

Assumptions: no point is a key (`PointAssumption`), tapscripts are finite sequences of instructions
(`LeafAssumption`), there is a key, and a push of a key or a point is no opcode and no push of other data
(`WordAssumption`), the limits are numbers, a stack may have two items, and a signature, of 1 to
72 bytes, is no longer than an element may be (`LimitAssumption`), the
arguments of the creator are sequences whose outputs and txids are there (`SessionAssumption`,
`CallAssumption`), a multisig script that the roles accept is within the limits of the verifier and no
`to_spend` is on the chain (`ChainAssumption`, with `RoomForMultisig`: such a script has at most 16 keys,
so at most 18 items go with it, and a scriptSig of OP_0, 16 signatures and the script, which is itself an
element, has at most 1246 bytes more than an element; `to_spend` spends the null outpoint). For direct signing `ChainAssumption` says in addition
that the limit on inputs leaves room for one and that the index of the null outpoint (2^32 - 1) is not
the one `to_sign` spends, 0. `ProofAssumption` of `Verification` says that the proofs asked about are
well-formed, which the decoder ensures; in `SigningSessionProofs` and `HonestProofs` the corresponding
fact is proved. `NeverBlocked`, `HonestVerifies` and the theorems of `DirectSigningProofs` have the
hypothesis `AbsentIsNoFunction`: `None`, the model of an `Option` without a value, is no record and no
sequence. TLC takes that for granted of a model value and cannot evaluate it, so it stands in the
statements of the theorems.

Only model-checked: `AllocationBounded` and `DiffersOnlyInLength`, which compare with rust-bitcoin's
decoder, whose definition folds over the bytes, so that they would need induction over data; and
liveness, which is out of the prover's reach.

## Findings

`prevouts_order`: the documentation of `verify_pof` says that "verification only checks that [the
UTXO data] is internally consistent and signed for" (`src/verify.rs:175`). The resolver compares an
input's `witness_utxo` with the previous transaction on that input or on an earlier one only. If a
later input carries the transaction that an earlier input's `witness_utxo` contradicts, the PSBT
resolves; with the two inputs swapped it is rejected. The lines 166-169 of the same comment describe
the fallback as the code has it, and callers are told to confirm the outputs on chain, so this is a
statement that is too strong rather than a wrong verdict on a signature.

`preflight_limits`: several places say that the bound on the number of inputs comes first for encoded
and typed proofs alike. `verify_pof`: "This runs first, as it does for an encoded proof before decoding,
so both get the same verdict" (`src/verify.rs:182-183`); `decode_pof`: "The input bound matches
`verify_pof`'s, so an encoded proof gets the same verdict as the typed one" (`src/verify/decode.rs:60-61`);
a test: "The bound precedes every other check, so typed and encoded proofs agree even when the proof is
also malformed" (`src/tests/pof.rs:720-721`). But `decode_pof` compares the count after the walk over the
whole PSBT, and the walk fails for a previous transaction or a final witness that is longer than
`MAX_ENCODING_SIZE` (`src/verify/preflight.rs:63-72`). A proof with too many inputs and such a value is
Invalid encoded and Inconclusive typed (`EncodedMeetsTyped`; `TypedOutcome` is `verify_pof`'s verdict, in
its order). Besides, the typed verifier never looks at the size of a previous transaction, so a proof
whose only fault is an over-long one is Invalid encoded and may be Valid typed; no such transaction fits
into a block. `DiffersOnlyInLength`, in the run `preflight`, says that these lengths are all the two
verdicts differ in.

Differences that the runs make visible and that contradict no statement of the repository, so that
the properties name them as conditions:

* `sign_pof` takes each claimed output by itself. Claims about outputs of one transaction that
  contradict each other are signed, and the proof does not verify (`ClaimsAgree` in
  `DirectProofVerifies`).
* Direct signing ignores a script that goes with an output of a single key, and matches keys by point,
  not by their bytes; the creator and the signer refuse both, and a message that is not UTF-8
  (`StricterInRoles`).
* Where the output is a nested key (P2SH-P2WPKH), the creator takes its redeem script as the script of
  the input, and the roles prove with it; direct signing takes any script for such an output for a
  multisig script and refuses (the condition on `IsP2wpkh` in `RefusesOnlyWhatRolesRefuse`).

## Not modelled, and why

* The legacy message format: one ECDSA public key recovery and a comparison of addresses. It keeps no
  state, and with symbolic cryptography nothing of it is left.
* Errors and re-exports: the models keep which check fails only where a property tells errors apart.
* Base64, the prefixes, addresses, message hashing and the transaction weight limit: data that no
  property here is about.
* Of the scripts that only rust-miniscript's interpreter can evaluate, the model has the chains of
  CHECKSIG; the interpreter itself is external. Nonminimal pushes of nothing, ECDSA signatures with a
  high S value and bare multisig outputs are left out.
* The preimage, key origin and tap-script fields of a PSBT are neither read nor written by the roles
  except to clear them.
* A fault model: nothing is persisted and no call is made over a network. What can be lost, repeated or
  reordered is a copy of a PSBT, and `SigningSession` has that.

## Plan

Done: every component with state, each composed with those it interacts with; the verdict as a
refinement; every safety property of the CHECKMULTISIG pass, the resolver, the verifier, the
signing session and direct signing proved, alone and together.

Left:

* The transaction weight limit, which needs sizes of witnesses and scriptSigs in the model.
