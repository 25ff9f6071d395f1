------------------------- MODULE ReviewCycleProofs -------------------------
(***************************************************************************)
(* Proofs about ReviewCycle, for any number of edits, runs and crashes: a  *)
(* bundle is made of the three durable reviews of one revision that nobody *)
(* touched while they were written, and evidence is never rewritten.       *)
(*                                                                         *)
(* A revision only grows, so the bound of a run below what each reviewer   *)
(* saw, and the document above it, meet when the run finds its revision    *)
(* still current at the end: everything in between was the same.           *)
(***************************************************************************)
EXTENDS ReviewCycle, TLAPS

Pairs   == [pr : Nat, bp : Nat]
Reviews == [pr : Nat, verdict : {"PASS", "BLOCKED"}, seen : SUBSET Pairs]

\* The review is about a revision that was there before all its reviewer saw.
Dated(v) == v \in Reviews /\ \A d \in v.seen : v.pr <= d.pr /\ d.pr <= doc.pr

\* A value for each role.
ByRole(f) == f = [r \in Roles |-> f[r]]

FilesInv ==
  /\ doc \in [pr : Nat \ {0}, bp : Nat] /\ hash \in Pairs
  /\ frozen \in [pr : Int, bp : Int]
  /\ ByRole(art) /\ ByRole(results)
  /\ \A r \in Roles : art[r] = None \/ Dated(art[r])

\* A run is bound to the frozen revision, which was there when it began.
BoundInv ==
  /\ step \in {"freeze proposal", "freeze blueprint", "guard", "call", "running", "write",
               "reverify", "bundle"} => hash.pr # 0 /\ hash.pr <= doc.pr
  /\ step \in {"freeze blueprint", "guard", "call", "running", "write", "reverify", "bundle"} =>
       frozen.pr = hash.pr

\* The review of r that this run uses is the durable one, of the run's revision.
Settled(r) == results[r] = art[r] /\ Dated(art[r]) /\ art[r].pr = hash.pr

\* The machine stands at the reviewer whose turn it is, or behind.
TurnInv ==
  /\ step \in {"validate", "freeze proposal", "freeze blueprint"} =>
       /\ turn = 1
       /\ machine = "SOURCE_VALIDATION" \/ \E k \in 1..3 : machine = PHASES[k]
  /\ step = "guard" => \E k \in 1..3 : turn <= k /\ machine = PHASES[k]
  /\ step \in {"call", "running"} => machine = PHASES[turn]
  /\ step \in {"guard", "call", "running", "write"} =>
       turn \in 1..3 /\ \A i \in 1..3 : i < turn => Settled(REVIEW_SEQUENCE[i])

\* Whoever is called has no durable review yet.
CallInv ==
  /\ step \in {"call", "running", "write"} => art[Role] = None
  /\ step = "running" => /\ call \in [before : Nat, seen : SUBSET Pairs]
                         /\ \A d \in call.seen : hash.pr <= d.pr /\ d.pr <= doc.pr
  /\ step = "write" => /\ Dated(results[Role]) /\ results[Role].pr = hash.pr
                       /\ results[Role].verdict = "PASS" => machine = PHASES[turn + 1]

\* When all three are durable and the revision is still the same, it always was.
AggregateInv ==
  /\ step \in {"reverify", "bundle"} => \A r \in Roles : Settled(r)
  /\ step = "bundle" => \A r \in Roles : \A d \in art[r].seen : d.pr = hash.pr
  /\ bundle # None => bundle.hash.pr # 0 /\ \A r \in Roles : art[r] # None
  /\ BundleIsEvidence

CycleInv == FilesInv /\ BoundInv /\ TurnInv /\ CallInv /\ AggregateInv

-----------------------------------------------------------------------------
(* The order of the reviewers *)

\* Three reviewers, each at one place of the sequence.
LEMMA Sequence ==
  /\ Roles = {REVIEW_SEQUENCE[1], REVIEW_SEQUENCE[2], REVIEW_SEQUENCE[3]}
  /\ \A i \in 1..3 : REVIEW_SEQUENCE[i] \in Roles
  /\ \A i, j \in 1..3 : i # j => REVIEW_SEQUENCE[i] # REVIEW_SEQUENCE[j]
<1>1. DOMAIN REVIEW_SEQUENCE = {1, 2, 3} /\ 1..3 = {1, 2, 3}
  BY DEF REVIEW_SEQUENCE
<1>2. /\ REVIEW_SEQUENCE[1] = "SCIENTIFIC_REVIEWER" /\ REVIEW_SEQUENCE[2] = "PROPOSAL_ENGINEER"
      /\ REVIEW_SEQUENCE[3] = "RED_TEAM_REVIEWER"
  BY DEF REVIEW_SEQUENCE
<1>3. Roles = {REVIEW_SEQUENCE[1], REVIEW_SEQUENCE[2], REVIEW_SEQUENCE[3]}
  BY <1>1 DEF Roles
<1> QED BY <1>1, <1>2, <1>3

\* The machine's position among the phases of a review.
LEMMA Positions ==
  ASSUME NEW k \in 1..3, machine = PHASES[k] PROVE Position = k
<1>1. DOMAIN PHASES = {1, 2, 3, 4} /\ 1..3 = {1, 2, 3}
  BY DEF PHASES
<1>2. /\ PHASES[1] = "SCIENTIFIC_REVIEW" /\ PHASES[2] = "IMPLEMENTATION_REVIEW"
      /\ PHASES[3] = "RED_TEAM_REVIEW" /\ PHASES[4] = "INTEGRATION"
  BY DEF PHASES
<1>3. \A i \in DOMAIN PHASES : PHASES[i] = machine => i = k
  BY <1>1, <1>2
<1> QED BY <1>1, <1>3 DEF Position

\* A document that moves on leaves the dates of the reviews true.
LEMMA DocGrows ==
  ASSUME FilesInv, doc' \in [pr : Nat \ {0}, bp : Nat], doc.pr <= doc'.pr,
         NEW v, Dated(v)
  PROVE  Dated(v)'
BY DEF FilesInv, Dated, Reviews, Pairs

\* No review is none.
LEMMA NoneIsNone == None \notin Reviews
BY CycleAssumption DEF Reviews, Pairs

\* What a step that leaves the document and the reviews in use alone keeps.
LEMMA DocStays ==
  ASSUME CycleInv, UNCHANGED <<doc, results>>
  PROVE  doc' \in [pr : Nat \ {0}, bp : Nat] /\ doc.pr <= doc'.pr /\ ByRole(results')
<1>1. doc \in [pr : Nat \ {0}, bp : Nat] /\ ByRole(results)
  BY DEF CycleInv, FilesInv
<1> QED BY <1>1

-----------------------------------------------------------------------------
(* Steps that end a run or leave the evidence alone *)

\* The evidence stays, while the run ends or goes where nothing is asked of it.
LEMMA RestStep ==
  ASSUME CycleInv, step' \in {"idle", "brief", "integrate", "freshness"},
         UNCHANGED <<art, bundle>>, ByRole(results'), hash' \in Pairs,
         doc' \in [pr : Nat \ {0}, bp : Nat], doc.pr <= doc'.pr,
         frozen' \in [pr : Int, bp : Int], frozen.pr # 0 => frozen'.pr = frozen.pr
  PROVE  CycleInv'
<1>1. FilesInv'
  BY DocGrows DEF CycleInv, FilesInv
<1>2. BoundInv' /\ TurnInv' /\ CallInv'
  BY DEF BoundInv, TurnInv, CallInv
<1>3. AggregateInv'
  BY DEF CycleInv, AggregateInv, BundleIsEvidence
<1> QED BY <1>1, <1>2, <1>3 DEF CycleInv

\* A run starts at a place its machine allows, or is refused.
LEMMA StartStep ==
  ASSUME CycleInv, Start PROVE CycleInv'
<1>1. /\ UNCHANGED <<doc, frozen, art, bundle>> /\ hash' = NoPair /\ NoPair \in Pairs
      /\ ByRole(results') /\ turn' = 1
  BY DEF Start, files, NoPair, Pairs, ByRole
<1>2. \/ step' = "idle"
      \/ /\ step' = "validate"
         /\ machine' = "SOURCE_VALIDATION" \/ \E k \in 1..3 : machine' = PHASES[k]
  <2>1. PICK p \in (IF machine = "LOST" THEN ResumeEntry ELSE {machine}) :
          IF p \in ResumeEntry
          THEN /\ machine' = CASE p = "IDLE" -> "SOURCE_VALIDATION"
                               [] p = "REVISION_REQUIRED" -> "SCIENTIFIC_REVIEW"
                               [] OTHER -> p
               /\ step' = "validate"
          ELSE machine' = p /\ step' = "idle"
    BY DEF Start, Return
  <2>2. /\ PHASES[1] = "SCIENTIFIC_REVIEW" /\ PHASES[2] = "IMPLEMENTATION_REVIEW"
        /\ PHASES[3] = "RED_TEAM_REVIEW"
    BY DEF PHASES
  <2>3. CASE p \in ResumeEntry
    BY <2>1, <2>2, <2>3 DEF ResumeEntry
  <2> QED BY <2>1, <2>3
<1>3. doc' \in [pr : Nat \ {0}, bp : Nat] /\ doc.pr <= doc'.pr /\ frozen' \in [pr : Int, bp : Int]
  BY <1>1 DEF CycleInv, FilesInv
<1>4. CASE step' = "idle"
  BY <1>1, <1>3, <1>4, RestStep
<1>5. CASE step' = "validate"
  <2>1. FilesInv' /\ AggregateInv'
    BY <1>1, <1>3, <1>5, DocGrows DEF CycleInv, FilesInv, AggregateInv, BundleIsEvidence
  <2>2. BoundInv' /\ TurnInv' /\ CallInv'
    BY <1>1, <1>2, <1>5 DEF BoundInv, TurnInv, CallInv
  <2> QED BY <2>1, <2>2 DEF CycleInv
<1> QED BY <1>2, <1>4, <1>5

\* The run binds itself to the revision it finds.
LEMMA ValidateStep ==
  ASSUME CycleInv, ValidateSources PROVE CycleInv'
<1>1. /\ UNCHANGED <<doc, frozen, art, bundle, results, turn>> /\ step = "validate"
      /\ doc' \in [pr : Nat \ {0}, bp : Nat] /\ doc.pr <= doc'.pr
      /\ frozen' \in [pr : Int, bp : Int] /\ ByRole(results')
  BY DocStays DEF ValidateSources, files, CycleInv, FilesInv
<1>2. CASE step' = "idle" /\ UNCHANGED hash
  <2>1. hash' \in Pairs
    BY <1>2 DEF CycleInv, FilesInv
  <2> QED BY <1>1, <1>2, <2>1, RestStep
<1>3. CASE step' = "freeze proposal" /\ hash' = [pr |-> doc.pr, bp |-> 0] /\ UNCHANGED machine
  <2>1. hash' \in Pairs /\ hash'.pr = doc.pr /\ doc.pr # 0 /\ doc'.pr = doc.pr
    BY <1>1, <1>3 DEF CycleInv, FilesInv, Pairs
  <2>2. FilesInv' /\ AggregateInv'
    BY <1>1, <1>3, <2>1, DocGrows DEF CycleInv, FilesInv, AggregateInv, BundleIsEvidence
  <2>3. BoundInv'
    BY <1>1, <1>3, <2>1 DEF CycleInv, FilesInv, BoundInv
  <2>4. TurnInv' /\ CallInv'
    BY <1>1, <1>3 DEF CycleInv, TurnInv, CallInv
  <2> QED BY <2>2, <2>3, <2>4 DEF CycleInv
<1> QED BY <1>2, <1>3 DEF ValidateSources, Return, Continue

\* The revision of the run is the frozen one from here on.
LEMMA FreezeProposalStep ==
  ASSUME CycleInv, FreezeProposal PROVE CycleInv'
<1>1. /\ UNCHANGED <<doc, art, bundle, results, turn, machine, hash>> /\ step = "freeze proposal"
      /\ doc' \in [pr : Nat \ {0}, bp : Nat] /\ doc.pr <= doc'.pr
      /\ hash' \in Pairs /\ ByRole(results')
      /\ frozen \in [pr : Int, bp : Int] /\ hash.pr \in Int
  <2>1. hash \in Pairs /\ hash.pr \in Int /\ frozen \in [pr : Int, bp : Int]
    BY DEF CycleInv, FilesInv, Pairs
  <2> QED BY <2>1, DocStays DEF FreezeProposal
<1>2. CASE step' = "idle"
  <2>1. /\ frozen' \in [pr : Int, bp : Int]
        /\ frozen.pr # 0 => frozen'.pr = frozen.pr
    <3>1. Half \in Int
      BY DEF Half
    <3>2. frozen' \in {frozen, [frozen EXCEPT !.pr = IF @ = 0 /\ doc.pr = hash.pr THEN Half ELSE @]}
      BY <1>2 DEF FreezeProposal, Continue
    <3> QED BY <1>1, <3>1, <3>2
  <2> QED BY <1>1, <1>2, <2>1, RestStep
<1>3. CASE /\ step' = "freeze blueprint" /\ frozen.pr \in {0, hash.pr}
           /\ frozen' = [frozen EXCEPT !.pr = hash.pr]
  <2>1. /\ frozen' \in [pr : Int, bp : Int] /\ frozen'.pr = hash.pr
        /\ frozen.pr # 0 => frozen'.pr = frozen.pr
    BY <1>1, <1>3
  <2>2. FilesInv' /\ AggregateInv'
    BY <1>1, <1>3, <2>1, DocGrows DEF CycleInv, FilesInv, AggregateInv, BundleIsEvidence
  <2>3. BoundInv' /\ TurnInv' /\ CallInv'
    BY <1>1, <1>3, <2>1 DEF CycleInv, BoundInv, TurnInv, CallInv
  <2> QED BY <2>2, <2>3 DEF CycleInv
<1> QED BY <1>2, <1>3 DEF FreezeProposal, Return, Continue

\* The blueprint is frozen beside it, and the first reviewer is up.
LEMMA FreezeBlueprintStep ==
  ASSUME CycleInv, FreezeBlueprint PROVE CycleInv'
<1>1. /\ UNCHANGED <<doc, art, bundle, results, turn>> /\ step = "freeze blueprint"
      /\ doc' \in [pr : Nat \ {0}, bp : Nat] /\ doc.pr <= doc'.pr
      /\ hash' = [hash EXCEPT !.bp = doc.bp] /\ ByRole(results')
      /\ frozen \in [pr : Int, bp : Int]
  BY DocStays DEF FreezeBlueprint, CycleInv, FilesInv
<1>2. hash' \in Pairs /\ hash'.pr = hash.pr
  BY <1>1 DEF CycleInv, FilesInv, Pairs
<1>3. frozen' \in [pr : Int, bp : Int] /\ frozen'.pr = frozen.pr
  <2>1. doc.bp \in Int
    BY DEF CycleInv, FilesInv
  <2>2. CASE frozen' = [frozen EXCEPT !.bp = IF doc.bp = 0 THEN @ ELSE doc.bp]
    BY <1>1, <2>1, <2>2
  <2>3. CASE frozen' \in {frozen, [frozen EXCEPT !.bp = IF @ = 0 THEN Half ELSE @]}
    <3>1. Half \in Int
      BY DEF Half
    <3> QED BY <1>1, <2>3, <3>1
  <2> QED BY <2>2, <2>3 DEF FreezeBlueprint
<1>4. CASE step' = "idle"
  BY <1>1, <1>2, <1>3, <1>4, RestStep
<1>5. CASE /\ step' = "guard"
           /\ machine' = IF machine = "SOURCE_VALIDATION" THEN "SCIENTIFIC_REVIEW" ELSE machine
  <2>1. FilesInv' /\ AggregateInv'
    BY <1>1, <1>2, <1>3, <1>5, DocGrows DEF CycleInv, FilesInv, AggregateInv, BundleIsEvidence
  <2>2. BoundInv' /\ CallInv'
    BY <1>1, <1>2, <1>3, <1>5 DEF CycleInv, BoundInv, CallInv
  <2>3. TurnInv'
    <3>1. PHASES[1] = "SCIENTIFIC_REVIEW"
      BY DEF PHASES
    <3>2. turn' = 1 /\ \E k \in 1..3 : machine' = PHASES[k]
      <4>1. /\ turn = 1
            /\ machine = "SOURCE_VALIDATION" \/ \E k \in 1..3 : machine = PHASES[k]
        BY <1>1 DEF CycleInv, TurnInv
      <4>2. 1 \in 1..3
        OBVIOUS
      <4>3. CASE machine = "SOURCE_VALIDATION"
        BY <1>1, <1>5, <3>1, <4>1, <4>2, <4>3
      <4>4. CASE machine # "SOURCE_VALIDATION"
        BY <1>1, <1>5, <4>1, <4>4
      <4> QED BY <4>3, <4>4
    <3> QED BY <1>5, <3>2 DEF TurnInv
  <2> QED BY <2>1, <2>2, <2>3 DEF CycleInv
<1> QED BY <1>4, <1>5 DEF FreezeBlueprint, Return, Continue

\* Between two reviewers a durable review is used, or a reviewer is called who
\* has none.
LEMMA GuardStep ==
  ASSUME CycleInv, Guard PROVE CycleInv'
<1>1. /\ UNCHANGED <<doc, frozen, art, bundle, machine, hash>> /\ step = "guard"
      /\ doc' \in [pr : Nat \ {0}, bp : Nat] /\ doc.pr <= doc'.pr
      /\ hash' \in Pairs /\ frozen' \in [pr : Int, bp : Int] /\ ByRole(art) /\ ByRole(results)
  BY DEF Guard, files, CycleInv, FilesInv
<1>2. PICK k \in 1..3 : turn <= k /\ machine = PHASES[k]
  BY <1>1 DEF CycleInv, TurnInv
<1>3. turn \in 1..3 /\ Role \in Roles /\ Position = k
  BY <1>1, <1>2, Positions, Sequence DEF CycleInv, TurnInv, Role
<1>4. CASE step' = "idle" /\ UNCHANGED results
  BY <1>1, <1>4, RestStep
<1>5. CASE /\ doc.pr = hash.pr /\ Existing = "reuse" /\ turn' = turn + 1
           /\ results' = [results EXCEPT ![Role] = art[Role]] /\ UNCHANGED step
  <2>1. turn < k /\ art[Role] # None /\ art[Role].pr = hash.pr
    BY <1>3, <1>5 DEF Existing
  <2>2. ByRole(results') /\ turn' \in 1..3 /\ turn' <= k
    BY <1>1, <1>2, <1>3, <1>5, <2>1 DEF ByRole
  <2>3. results'[Role] = art[Role] /\ \A r \in Roles : r # Role => results'[r] = results[r]
    BY <1>1, <1>3, <1>5 DEF ByRole
  <2>4. Dated(art[Role])
    BY <1>3, <2>1 DEF CycleInv, FilesInv
  <2>5. ASSUME NEW i \in 1..3, i < turn' PROVE Settled(REVIEW_SEQUENCE[i])'
    <3>1. CASE i = turn
      BY <1>1, <2>1, <2>3, <2>4, <3>1 DEF Settled, Role, Dated
    <3>2. CASE i # turn
      <4>1. i < turn /\ REVIEW_SEQUENCE[i] # Role /\ REVIEW_SEQUENCE[i] \in Roles
        BY <1>3, <1>5, <2>5, <3>2, Sequence DEF Role
      <4>2. Settled(REVIEW_SEQUENCE[i])
        BY <1>1, <4>1 DEF CycleInv, TurnInv
      <4> QED BY <1>1, <2>3, <4>1, <4>2 DEF Settled, Dated
    <3> QED BY <3>1, <3>2
  <2>6. TurnInv'
    BY <1>1, <1>2, <1>5, <2>2, <2>5 DEF TurnInv
  <2>7. FilesInv' /\ AggregateInv'
    BY <1>1, <1>5, <2>2, DocGrows DEF CycleInv, FilesInv, AggregateInv, BundleIsEvidence
  <2>8. BoundInv' /\ CallInv'
    BY <1>1, <1>5 DEF CycleInv, BoundInv, CallInv
  <2> QED BY <2>6, <2>7, <2>8 DEF CycleInv
<1>6. CASE /\ Existing = "none" /\ step' = "call" /\ UNCHANGED <<turn, results>>
  <2>1. art[Role] = None /\ turn = k
    BY <1>2, <1>3, <1>6 DEF Existing
  <2>2. TurnInv' /\ CallInv'
    BY <1>1, <1>2, <1>6, <2>1 DEF CycleInv, TurnInv, CallInv, Role, Settled, Dated
  <2>3. FilesInv' /\ AggregateInv'
    BY <1>1, <1>6, DocGrows DEF CycleInv, FilesInv, AggregateInv, BundleIsEvidence
  <2>4. BoundInv'
    BY <1>1, <1>6 DEF CycleInv, BoundInv
  <2> QED BY <2>2, <2>3, <2>4 DEF CycleInv
<1> QED BY <1>1, <1>4, <1>5, <1>6 DEF Guard, Return, Continue

\* The reviewer is called.
LEMMA BeginCallStep ==
  ASSUME CycleInv, BeginCall PROVE CycleInv'
<1>1. /\ UNCHANGED <<doc, frozen, art, bundle, machine, turn, hash, results>> /\ step = "call"
      /\ doc' \in [pr : Nat \ {0}, bp : Nat] /\ doc.pr <= doc'.pr /\ ByRole(results')
      /\ hash' \in Pairs /\ frozen' \in [pr : Int, bp : Int]
  BY DocStays DEF BeginCall, files, CycleInv, FilesInv
<1>2. CASE step' = "idle"
  BY <1>1, <1>2, RestStep
<1>3. CASE step' = "running" /\ call' = [before |-> doc.pr, seen |-> {doc}]
  <2>1. FilesInv' /\ AggregateInv'
    BY <1>1, <1>3, DocGrows DEF CycleInv, FilesInv, AggregateInv, BundleIsEvidence
  <2>2. BoundInv' /\ TurnInv'
    BY <1>1, <1>3 DEF CycleInv, BoundInv, TurnInv, Settled, Dated
  <2>3. doc \in Pairs /\ hash.pr <= doc.pr /\ doc.pr <= doc.pr /\ art[Role] = None
    BY <1>1 DEF CycleInv, FilesInv, BoundInv, CallInv, Pairs
  <2>4. CallInv'
    BY <1>1, <1>3, <2>3 DEF CallInv, Role
  <2> QED BY <2>1, <2>2, <2>4 DEF CycleInv
<1> QED BY <1>2, <1>3 DEF BeginCall, Return, Continue

\* A valid review is dated by the revision of the run.
LEMMA EndCallStep ==
  ASSUME CycleInv, EndCall PROVE CycleInv'
<1>1. /\ UNCHANGED <<doc, frozen, art, bundle, turn, hash>> /\ step = "running"
      /\ doc' \in [pr : Nat \ {0}, bp : Nat] /\ doc.pr <= doc'.pr
      /\ hash' \in Pairs /\ frozen' \in [pr : Int, bp : Int] /\ ByRole(art) /\ ByRole(results)
  BY DEF EndCall, files, CycleInv, FilesInv
<1>2. turn \in 1..3 /\ Role \in Roles /\ art[Role] = None
  BY <1>1, Sequence DEF CycleInv, TurnInv, CallInv, Role
<1>3. CASE step' = "idle" /\ UNCHANGED results
  BY <1>1, <1>3, RestStep
<1>4. ASSUME NEW verdict \in {"PASS", "BLOCKED"}, step' = "write",
             results' = [results EXCEPT ![Role] = [pr |-> hash.pr, verdict |-> verdict, seen |-> call.seen]],
             machine' = IF verdict = "BLOCKED" THEN "BLOCKED" ELSE PHASES[turn + 1]
      PROVE  CycleInv'
  <2>1. PICK v : v = [pr |-> hash.pr, verdict |-> verdict, seen |-> call.seen]
    OBVIOUS
  <2>2. Dated(v) /\ v.pr = hash.pr /\ v.verdict = verdict
    BY <1>1, <2>1 DEF CycleInv, FilesInv, CallInv, Dated, Reviews, Pairs
  <2>3. /\ ByRole(results') /\ results'[Role] = v
        /\ \A r \in Roles : r # Role => results'[r] = results[r]
    BY <1>1, <1>2, <1>4, <2>1 DEF ByRole
  <2>4. Role' = Role
    BY <1>1 DEF Role
  <2>5. FilesInv' /\ AggregateInv'
    BY <1>1, <1>4, <2>3, DocGrows DEF CycleInv, FilesInv, AggregateInv, BundleIsEvidence
  <2>6. BoundInv'
    BY <1>1, <1>4 DEF CycleInv, BoundInv
  <2>7. CallInv'
    BY <1>1, <1>2, <1>4, <2>2, <2>3, <2>4 DEF CallInv, Dated
  <2>8. ASSUME NEW i \in 1..3, i < turn' PROVE Settled(REVIEW_SEQUENCE[i])'
    <3>1. REVIEW_SEQUENCE[i] # Role /\ REVIEW_SEQUENCE[i] \in Roles /\ i < turn
      BY <1>1, <1>2, <2>8, Sequence DEF Role
    <3>2. Settled(REVIEW_SEQUENCE[i])
      BY <1>1, <3>1 DEF CycleInv, TurnInv
    <3> QED BY <1>1, <2>3, <3>1, <3>2 DEF Settled, Dated
  <2>9. TurnInv'
    BY <1>1, <1>2, <1>4, <2>8 DEF TurnInv
  <2> QED BY <2>5, <2>6, <2>7, <2>9 DEF CycleInv
<1> QED BY <1>3, <1>4 DEF EndCall, Return, Continue

\* A review is made durable once, and the next reviewer is up.
LEMMA WriteReviewStep ==
  ASSUME CycleInv, WriteReview PROVE CycleInv'
<1>1. /\ UNCHANGED <<doc, frozen, bundle, machine, hash, results>> /\ step = "write"
      /\ doc' \in [pr : Nat \ {0}, bp : Nat] /\ doc.pr <= doc'.pr
      /\ hash' \in Pairs /\ frozen' \in [pr : Int, bp : Int] /\ ByRole(art) /\ ByRole(results')
  BY DocStays DEF WriteReview, CycleInv, FilesInv
<1>2. turn \in 1..3 /\ Role \in Roles /\ art[Role] = None /\ bundle = None
      /\ Dated(results[Role]) /\ results[Role].pr = hash.pr
  BY <1>1, Sequence DEF CycleInv, TurnInv, CallInv, AggregateInv, Role
<1>3. CASE step' = "idle" /\ UNCHANGED art
  BY <1>1, <1>3, RestStep
<1>4. CASE Persist(Role)
  <2>0. PICK v : v = results[Role]
    OBVIOUS
  <2>1. /\ ByRole(art') /\ art'[Role] = v /\ results'[Role] = v
        /\ \A r \in Roles : r # Role => art'[r] = art[r]
    BY <1>1, <1>2, <1>4, <2>0 DEF Persist, ByRole
  <2>2. Dated(v)' /\ v.pr = hash'.pr
    BY <1>1, <1>2, <2>0 DEF Dated
  <2>3. FilesInv'
    <3> SUFFICES ASSUME NEW r \in Roles PROVE art'[r] = None \/ Dated(art[r])'
      BY <1>1, <2>1 DEF FilesInv
    <3>1. CASE r = Role
      BY <2>1, <2>2, <3>1 DEF Dated
    <3>2. CASE r # Role
      BY <1>1, <2>1, <3>2 DEF CycleInv, FilesInv, Dated
    <3> QED BY <3>1, <3>2
  <2>4. bundle' = None /\ BundleIsEvidence'
    BY <1>1, <1>2 DEF BundleIsEvidence
  <2>5. ASSUME NEW i \in 1..3, i <= turn PROVE Settled(REVIEW_SEQUENCE[i])'
    <3>1. CASE i = turn
      BY <2>1, <2>2, <3>1 DEF Settled, Role, Dated
    <3>2. CASE i # turn
      <4>1. REVIEW_SEQUENCE[i] # Role /\ REVIEW_SEQUENCE[i] \in Roles /\ i < turn
        BY <1>2, <2>5, <3>2, Sequence DEF Role
      <4>2. Settled(REVIEW_SEQUENCE[i])
        BY <1>1, <4>1 DEF CycleInv, TurnInv
      <4> QED BY <1>1, <2>1, <4>1, <4>2 DEF Settled, Dated
    <3> QED BY <3>1, <3>2
  <2>6. CASE step' = "idle"
    BY <2>3, <2>4, <2>6 DEF CycleInv, BoundInv, TurnInv, CallInv, AggregateInv
  <2>7. CASE results[Role].verdict # "BLOCKED" /\ turn < 3 /\ turn' = turn + 1 /\ step' = "guard"
    <3>1. machine' = PHASES[turn']
      BY <1>1, <1>2, <2>7 DEF CycleInv, CallInv, Dated, Reviews
    <3>2. turn' \in 1..3 /\ \A i \in 1..3 : i < turn' => i <= turn
      BY <1>2, <2>7
    <3>3. TurnInv'
      BY <2>5, <2>7, <3>1, <3>2 DEF TurnInv
    <3>4. BoundInv' /\ CallInv' /\ AggregateInv'
      BY <1>1, <2>4, <2>7 DEF CycleInv, BoundInv, CallInv, AggregateInv
    <3> QED BY <2>3, <3>3, <3>4 DEF CycleInv
  <2>8. CASE turn = 3 /\ step' = "reverify"
    <3>1. \A r \in Roles : Settled(r)'
      BY <2>5, <2>8, Sequence
    <3>2. BoundInv' /\ TurnInv' /\ CallInv' /\ AggregateInv'
      BY <1>1, <2>4, <2>8, <3>1 DEF CycleInv, BoundInv, TurnInv, CallInv, AggregateInv
    <3> QED BY <2>3, <3>2 DEF CycleInv
  <2> QED BY <1>2, <1>4, <2>6, <2>7, <2>8 DEF WriteReview, Return, Continue
<1> QED BY <1>3, <1>4 DEF WriteReview, Return

\* The revision is still that of the run, so it was all along.
LEMMA ReverifyStep ==
  ASSUME CycleInv, Reverify PROVE CycleInv'
<1>1. /\ UNCHANGED <<doc, frozen, art, bundle, hash, results>> /\ step = "reverify"
      /\ doc' \in [pr : Nat \ {0}, bp : Nat] /\ doc.pr <= doc'.pr /\ ByRole(results')
      /\ hash' \in Pairs /\ frozen' \in [pr : Int, bp : Int]
  BY DocStays DEF Reverify, files, CycleInv, FilesInv
<1>2. CASE step' = "idle"
  BY <1>1, <1>2, RestStep
<1>3. CASE doc.pr = hash.pr /\ step' = "bundle"
  <2>1. \A r \in Roles : \A d \in art[r].seen : d.pr = hash.pr
    <3> SUFFICES ASSUME NEW r \in Roles, NEW d \in art[r].seen PROVE d.pr = hash.pr
      OBVIOUS
    <3>1. Dated(art[r]) /\ art[r].pr = hash.pr
      BY <1>1 DEF CycleInv, AggregateInv, Settled
    <3>2. hash.pr <= d.pr /\ d.pr <= hash.pr /\ d.pr \in Nat /\ hash.pr \in Nat
      BY <1>1, <1>3, <3>1 DEF Dated, Reviews, Pairs
    <3> QED BY <3>2
  <2>2. FilesInv'
    BY <1>1, DocGrows DEF CycleInv, FilesInv
  <2>3. AggregateInv'
    BY <1>1, <1>3, <2>1 DEF CycleInv, AggregateInv, BundleIsEvidence, Settled, Dated
  <2>4. BoundInv' /\ TurnInv' /\ CallInv'
    BY <1>1, <1>3 DEF CycleInv, BoundInv, TurnInv, CallInv
  <2> QED BY <2>2, <2>3, <2>4 DEF CycleInv
<1> QED BY <1>2, <1>3 DEF Reverify, StillCurrent, Return, Continue

\* The bundle is written, once.
LEMMA WriteBundleStep ==
  ASSUME CycleInv, WriteBundle PROVE CycleInv'
<1>1. /\ UNCHANGED <<doc, frozen, art, hash, results>> /\ step = "bundle"
      /\ doc' \in [pr : Nat \ {0}, bp : Nat] /\ doc.pr <= doc'.pr /\ ByRole(results')
      /\ hash' \in Pairs /\ frozen' \in [pr : Int, bp : Int]
  BY DocStays DEF WriteBundle, files, CycleInv, FilesInv
<1>2. CASE step' = "idle" /\ UNCHANGED bundle
  BY <1>1, <1>2, RestStep
<1>3. CASE bundle' = Aggregated /\ step' = "brief"
  <2>1. \A r \in Roles : Settled(r) /\ art[r] # None
    BY <1>1, NoneIsNone DEF CycleInv, AggregateInv, Settled, Dated
  <2>2. results = art
    BY <2>1 DEF CycleInv, FilesInv, ByRole, Settled
  <2>3. bundle'.hash = hash /\ bundle'.reviews = art
    BY <1>3, <2>2 DEF Aggregated
  <2>4. frozen.pr = hash.pr /\ hash.pr # 0
        /\ \A r \in Roles : art[r].pr = hash.pr /\ \A d \in art[r].seen : d.pr = hash.pr
    BY <1>1, <2>1 DEF CycleInv, BoundInv, AggregateInv, Settled
  <2>5. BundleIsEvidence'
    BY <1>1, <2>3, <2>4 DEF BundleIsEvidence
  <2>6. AggregateInv'
    BY <1>1, <1>3, <2>1, <2>3, <2>4, <2>5 DEF AggregateInv
  <2>7. FilesInv'
    BY <1>1, DocGrows DEF CycleInv, FilesInv
  <2>8. BoundInv' /\ TurnInv' /\ CallInv'
    BY <1>3 DEF BoundInv, TurnInv, CallInv
  <2> QED BY <2>6, <2>7, <2>8 DEF CycleInv
<1> QED BY <1>2, <1>3 DEF WriteBundle, Return, Continue

\* After the bundle nothing of the evidence is written.
LEMMA AfterwardsStep ==
  ASSUME CycleInv, WriteBrief \/ Integrate \/ Freshness PROVE CycleInv'
<1>1. /\ UNCHANGED <<frozen, art, bundle, hash, results>>
      /\ hash' \in Pairs /\ frozen' \in [pr : Int, bp : Int] /\ ByRole(results')
      /\ doc \in [pr : Nat \ {0}, bp : Nat]
  BY DEF WriteBrief, Integrate, Freshness, files, CycleInv, FilesInv
<1>2. doc' = doc \/ doc' = [doc EXCEPT !.pr = @ + 1]
  BY DEF WriteBrief, Integrate, Freshness, ReplaceMaster
<1>3. doc' \in [pr : Nat \ {0}, bp : Nat] /\ doc.pr <= doc'.pr
  BY <1>1, <1>2
<1>4. step' \in {"idle", "brief", "integrate", "freshness"}
  BY DEF WriteBrief, Integrate, Freshness, Return, Continue
<1> QED BY <1>1, <1>3, <1>4, RestStep

\* An edit is a later revision; a reviewer at work sees it.
LEMMA EditStep ==
  ASSUME CycleInv, Edit PROVE CycleInv'
<1>1. /\ UNCHANGED <<frozen, art, bundle, hash, results, step, turn, machine>>
      /\ doc \in [pr : Nat \ {0}, bp : Nat] /\ hash \in Pairs
      /\ doc' \in {[doc EXCEPT !.pr = @ + 1], [doc EXCEPT !.bp = @ + 1]}
      /\ call' = IF step = "running" THEN [call EXCEPT !.seen = @ \cup {doc'}] ELSE call
  BY DEF Edit, Seen, files, CycleInv, FilesInv
<1>2. doc' \in [pr : Nat \ {0}, bp : Nat] /\ doc.pr <= doc'.pr /\ doc' \in Pairs
  BY <1>1 DEF Pairs
<1>3. ASSUME NEW v, Dated(v) PROVE Dated(v)'
  BY <1>2, <1>3, DocGrows DEF CycleInv
<1>4. FilesInv'
  BY <1>1, <1>2, <1>3 DEF CycleInv, FilesInv
<1>5. BoundInv'
  <2>1. doc.pr \in Nat /\ doc'.pr \in Nat /\ hash.pr \in Nat
    BY <1>1, <1>2 DEF Pairs
  <2>2. hash.pr <= doc.pr => hash.pr <= doc'.pr
    BY <1>2, <2>1
  <2>3. BoundInv
    BY DEF CycleInv
  <2> QED BY <1>1, <2>2, <2>3 DEF BoundInv
<1>6. ASSUME NEW r, Settled(r) PROVE Settled(r)'
  <2>1. PICK v : v = art[r]
    OBVIOUS
  <2>2. Dated(v)'
    BY <1>3, <1>6, <2>1 DEF Settled
  <2>3. art'[r] = v
    BY <1>1, <2>1
  <2> QED BY <1>1, <1>6, <2>1, <2>2, <2>3 DEF Settled, Dated
<1>7. TurnInv'
  BY <1>1, <1>6 DEF CycleInv, TurnInv
<1>8. AggregateInv'
  BY <1>1, <1>6 DEF CycleInv, AggregateInv, BundleIsEvidence
<1>9. CallInv'
  <2>1. Role' = Role
    BY <1>1 DEF Role
  <2>2. CASE step = "running"
    <3>1. PICK c : c = call
      OBVIOUS
    <3>2. /\ c \in [before : Nat, seen : SUBSET Pairs]
          /\ \A d \in c.seen : hash.pr <= d.pr /\ d.pr <= doc.pr
          /\ hash.pr <= doc.pr /\ art[Role] = None
      BY <2>2, <3>1 DEF CycleInv, CallInv, BoundInv
    <3>3. call' = [c EXCEPT !.seen = @ \cup {doc'}]
      BY <1>1, <2>2, <3>1
    <3>4. call' \in [before : Nat, seen : SUBSET Pairs] /\ call'.seen = c.seen \cup {doc'}
      BY <1>2, <3>2, <3>3
    <3>5. \A d \in call'.seen : hash.pr <= d.pr /\ d.pr <= doc'.pr
      BY <1>1, <1>2, <3>2, <3>4 DEF Pairs
    <3> QED BY <1>1, <2>1, <2>2, <3>2, <3>4, <3>5 DEF CallInv
  <2>3. CASE step = "write"
    <3>1. PICK v : v = results[Role]
      OBVIOUS
    <3>2. Dated(v) /\ v.pr = hash.pr /\ (v.verdict = "PASS" => machine = PHASES[turn + 1])
          /\ art[Role] = None
      BY <2>3, <3>1 DEF CycleInv, CallInv
    <3>3. Dated(v)' /\ results'[Role] = v
      BY <1>1, <1>3, <3>1, <3>2
    <3>4. Dated(results[Role])'
      BY <2>1, <3>3 DEF Dated
    <3> QED BY <1>1, <2>1, <2>3, <3>2, <3>3, <3>4 DEF CallInv
  <2>4. CASE step \notin {"running", "write"}
    BY <1>1, <2>1, <2>4 DEF CycleInv, CallInv
  <2> QED BY <2>2, <2>3, <2>4
<1> QED BY <1>4, <1>5, <1>7, <1>8, <1>9 DEF CycleInv

\* The process dies; a freeze under way may be left half done.
LEMMA CrashStep ==
  ASSUME CycleInv, Crash PROVE CycleInv'
<1>1. /\ UNCHANGED <<doc, art, bundle, hash, results>> /\ step' = "idle"
      /\ doc' \in [pr : Nat \ {0}, bp : Nat] /\ doc.pr <= doc'.pr /\ ByRole(results')
      /\ hash' \in Pairs /\ frozen \in [pr : Int, bp : Int]
  BY DocStays DEF Crash, Return, CycleInv, FilesInv
<1>2. frozen' \in [pr : Int, bp : Int] /\ (frozen.pr # 0 => frozen'.pr = frozen.pr)
  <2>1. Half \in Int
    BY DEF Half
  <2> QED BY <1>1, <2>1 DEF Crash
<1> QED BY <1>1, <1>2, RestStep

-----------------------------------------------------------------------------
(* The theorems *)

\* An iteration starts without evidence.
LEMMA InitOK ==
  ASSUME Init PROVE CycleInv
<1>1. FilesInv
  <2>1. doc \in [pr : Nat \ {0}, bp : Nat]
    <3>1. doc \in [pr : {1}, bp : {0, 1}]
      BY DEF Init
    <3> QED BY <3>1
  <2>2. hash \in Pairs /\ frozen \in [pr : Int, bp : Int]
    <3>1. hash = NoPair /\ frozen = NoPair
      BY DEF Init
    <3> QED BY <3>1 DEF NoPair, Pairs
  <2>3. ByRole(art) /\ ByRole(results) /\ \A r \in Roles : art[r] = None
    BY DEF Init, ByRole
  <2> QED BY <2>1, <2>2, <2>3 DEF FilesInv
<1>2. BoundInv /\ TurnInv /\ CallInv /\ AggregateInv
  BY DEF Init, BoundInv, TurnInv, CallInv, AggregateInv, BundleIsEvidence
<1> QED BY <1>1, <1>2 DEF CycleInv

\* Every step keeps it.
LEMMA NextOK ==
  ASSUME CycleInv, [Next]_vars PROVE CycleInv'
<1>1. CASE Next
  BY <1>1, StartStep, ValidateStep, FreezeProposalStep, FreezeBlueprintStep, GuardStep,
     BeginCallStep, EndCallStep, WriteReviewStep, ReverifyStep, WriteBundleStep,
     AfterwardsStep, EditStep, CrashStep DEF Next
<1>2. CASE UNCHANGED vars
  <2>1. /\ UNCHANGED <<doc, frozen, art, bundle, hash, results, step, turn, machine, call>>
        /\ Role' = Role
    BY <1>2 DEF vars, files, Role
  <2>2. FilesInv' /\ BoundInv'
    BY <2>1 DEF CycleInv, FilesInv, BoundInv, Dated
  <2>3. TurnInv' /\ CallInv'
    BY <2>1 DEF CycleInv, TurnInv, CallInv, Settled, Dated
  <2>4. AggregateInv'
    BY <2>1 DEF CycleInv, AggregateInv, BundleIsEvidence, Settled, Dated
  <2> QED BY <2>2, <2>3, <2>4 DEF CycleInv
<1> QED BY <1>1, <1>2

\* The invariant holds of every reachable state.
THEOREM CycleInvariance == Spec => []CycleInv
<1>1. Init => CycleInv
  BY InitOK
<1>2. CycleInv /\ [Next]_vars => CycleInv'
  BY NextOK
<1> QED BY <1>1, <1>2, PTL DEF Spec

\* A bundle is made of the three durable reviews of its iteration, each of the
\* revision the bundle names, which is frozen and was the only one there while
\* any of them ran: for any number of edits, failures, crashes and resumes.
THEOREM BundleCorrect == Spec => []BundleIsEvidence
<1>1. CycleInv => BundleIsEvidence
  BY DEF CycleInv, AggregateInv
<1> QED BY <1>1, CycleInvariance, PTL

\* A review is written over none, or over itself.
LEMMA ReviewsKept ==
  ASSUME CycleInv, Next PROVE \A r \in Roles : art[r] # None => art'[r] = art[r]
<1>1. CASE WriteReview
  <2>1. ByRole(art) /\ art[Role] = None
    BY <1>1 DEF WriteReview, CycleInv, FilesInv, CallInv
  <2>2. art' = art \/ art' = [art EXCEPT ![Role] = results[Role]]
    BY <1>1 DEF WriteReview, Persist
  <2> QED BY <2>1, <2>2 DEF ByRole
<1>2. CASE ~WriteReview
  <2>1. UNCHANGED art
    BY <1>2 DEF Next, Start, ValidateSources, FreezeProposal, FreezeBlueprint, Guard, BeginCall,
                EndCall, Reverify, WriteBundle, WriteBrief, Integrate, Freshness, Edit, Crash, files
  <2> QED BY <2>1
<1> QED BY <1>1, <1>2

\* The bundle is written over nothing.
LEMMA BundleKept ==
  ASSUME Next, bundle # None PROVE bundle' = bundle
BY DEF Next, Start, ValidateSources, FreezeProposal, FreezeBlueprint, Guard, BeginCall, EndCall,
       WriteReview, Reverify, WriteBundle, WriteBrief, Integrate, Freshness, Edit, Crash, files

\* A version is frozen where none was, or where the same one was.
LEMMA FrozenKept ==
  ASSUME CycleInv, Next, NEW d \in {"pr", "bp"}, frozen[d] # 0 PROVE frozen'[d] = frozen[d]
<1>1. frozen \in [pr : Int, bp : Int]
  BY DEF CycleInv, FilesInv
<1>2. CASE FreezeProposal
  <2>1. \/ frozen.pr \in {0, hash.pr} /\ frozen' = [frozen EXCEPT !.pr = hash.pr]
        \/ frozen' \in {frozen, [frozen EXCEPT !.pr = IF @ = 0 /\ doc.pr = hash.pr THEN Half ELSE @]}
    BY <1>2 DEF FreezeProposal
  <2> QED BY <1>1, <2>1
<1>3. CASE FreezeBlueprint
  <2>1. \/ /\ doc.bp = 0 \/ frozen.bp \in {0, doc.bp}
           /\ frozen' = [frozen EXCEPT !.bp = IF doc.bp = 0 THEN @ ELSE doc.bp]
        \/ frozen' \in {frozen, [frozen EXCEPT !.bp = IF @ = 0 THEN Half ELSE @]}
    BY <1>3 DEF FreezeBlueprint
  <2> QED BY <1>1, <2>1
<1>4. CASE Crash
  <2>1. frozen' \in {frozen,
                     [frozen EXCEPT !.pr = IF @ = 0 /\ step = "freeze proposal" THEN Half ELSE @],
                     [frozen EXCEPT !.bp = IF @ = 0 /\ step = "freeze blueprint" THEN Half ELSE @]}
    BY <1>4 DEF Crash
  <2> QED BY <1>1, <2>1
<1>5. CASE ~FreezeProposal /\ ~FreezeBlueprint /\ ~Crash
  <2>1. UNCHANGED frozen
    BY <1>5 DEF Next, Start, ValidateSources, Guard, BeginCall, EndCall, WriteReview, Reverify,
                WriteBundle, WriteBrief, Integrate, Freshness, Edit, files
  <2> QED BY <2>1
<1> QED BY <1>2, <1>3, <1>4, <1>5

\* A run that calls a reviewer has found no review of his.
LEMMA CalledOnce ==
  ASSUME CycleInv, Next, step' = "running", step # "running" PROVE art[Role] = None
<1>1. step = "call"
  BY DEF Next, Start, ValidateSources, FreezeProposal, FreezeBlueprint, Guard, BeginCall, EndCall,
         WriteReview, Reverify, WriteBundle, WriteBrief, Integrate, Freshness, Edit, Crash,
         Return, Continue
<1> QED BY <1>1 DEF CycleInv, CallInv

\* A durable review, the bundle and a frozen version are never rewritten, and a
\* reviewer whose review is durable is never called again.
THEOREM EvidenceCorrect == Spec => EvidenceKept
<1>1. ASSUME CycleInv, Next
      PROVE  /\ \A r \in Roles : art[r] # None => art'[r] = art[r]
             /\ bundle # None => bundle' = bundle
             /\ \A d \in {"pr", "bp"} : frozen[d] # 0 => frozen'[d] = frozen[d]
             /\ step' = "running" /\ step # "running" => art[Role] = None
  BY <1>1, ReviewsKept, BundleKept, FrozenKept, CalledOnce
<1>2. CycleInv /\ [Next]_vars =>
        [ /\ \A r \in Roles : art[r] # None => art'[r] = art[r]
          /\ bundle # None => bundle' = bundle
          /\ \A d \in {"pr", "bp"} : frozen[d] # 0 => frozen'[d] = frozen[d]
          /\ step' = "running" /\ step # "running" => art[Role] = None ]_vars
  BY <1>1
<1> QED BY <1>2, CycleInvariance, PTL DEF Spec, EvidenceKept
=============================================================================
