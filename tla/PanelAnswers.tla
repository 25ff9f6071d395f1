--------------------------- MODULE PanelAnswers ---------------------------
(***************************************************************************)
(* What the review panel makes of the evaluators' answers: the strict      *)
(* parsers of the two rounds, the aggregate of three reviews, the docket   *)
(* of their findings and patches, the matrix of three ballots over it and  *)
(* the advisory readiness (proposal/review_parser.py, review_aggregation.py*)
(* panel_contracts.py, panel_matrix.py, readiness.py).                     *)
(*                                                                         *)
(* An answer is a record of the fields the parsers look at.  "details"     *)
(* stands for the optional strings and reference lists of an entry, Junk   *)
(* when one has a wrong type or size; an entry that is not an object has a *)
(* Junk severity, section, judgement or criterion.                         *)
(***************************************************************************)
EXTENDS RawData, Integers, FiniteSets, SequencesExt, TLC

CONSTANTS
  Criteria,               \* READINESS_CRITERIA
  MaxFindings,            \* MAX_FINDINGS, MAX_PATCHES and MAX_CLAIMS
  MaxJudgements           \* MAX_CONSENSUS_ITEMS

REVIEWER_ORDER == <<"SCIENTIFIC_REVIEWER", "PROPOSAL_ENGINEER", "RED_TEAM_REVIEWER">>
Roles == Range(REVIEWER_ORDER)
SEVERITY_ORDER == <<"critical", "high", "medium", "low">>
Verdicts == {"PASS", "NEEDS_REVISION", "BLOCKED"}
Targets == {"PROPOSAL", "BLUEPRINT", "BOTH"}
Judgements == {"AGREE", "DISAGREE", "PARTIAL", "INSUFFICIENT_EVIDENCE"}

\* There is a criterion; no severity is a word for something that is no string.
ASSUME CriteriaAssumption == IsFiniteSet(Criteria) /\ Criteria # {}
ASSUME MarksAssumption == Range(SEVERITY_ORDER) \cap {Absent, Junk, Blank} = {}

Text(v) == v \notin {Absent, Junk, Blank}
Bounded(list, bound) == list # Junk /\ Len(Items(list)) <= bound

-----------------------------------------------------------------------------
(* Round one: the reviews *)

\* Exactly one pair of markers around one JSON object; nothing is rescued.
Enveloped(a) == a.envelope = "one" /\ a.payload = "object"

\* With a living blueprint every target must be declared.
TargetAccepted(target, dual) == target \in Targets \/ (target = Absent /\ ~dual)

FindingAccepted(f, dual) ==
  /\ f.severity \in Range(SEVERITY_ORDER)
  /\ f.category = "known"
  /\ Text(f.message)
  /\ f.details # Junk
  /\ TargetAccepted(f.target, dual)

\* Content through exactly one of two channels; a confidence that is not a
\* number passes the range test.
PatchAccepted(p, dual) ==
  /\ Text(p.section) /\ Text(p.rationale)
  /\ Junk \notin {p.replacement, p.instructions, p.details}
  /\ Text(p.replacement) # Text(p.instructions)
  /\ p.confidence \in {Absent, "in range", "NaN"}
  /\ TargetAccepted(p.target, dual)

Blocking(findings) == \E f \in Range(findings) : f.severity \in {"critical", "high"}

\* What a verdict owes: PASS is clean, NEEDS_REVISION says what to revise,
\* BLOCKED says why.
VerdictEarned(a) ==
  CASE a.verdict = "PASS" -> ~Blocking(Items(a.findings)) /\ Items(a.claims) = << >>
    [] a.verdict = "NEEDS_REVISION" -> Items(a.findings) # << >> \/ Items(a.patches) # << >>
    [] a.verdict = "BLOCKED" -> Text(a.summary) \/ Items(a.findings) # << >>

ReviewAccepted(a, role, dual) ==
  /\ Enveloped(a)
  /\ a.verdict \in Verdicts
  /\ a.role = role
  /\ a.iteration = "this"
  /\ a.summary # Junk
  /\ Bounded(a.findings, MaxFindings) /\ Bounded(a.patches, MaxFindings) /\ Bounded(a.claims, MaxFindings)
  /\ \A f \in Range(Items(a.findings)) : FindingAccepted(f, dual)
  /\ \A p \in Range(Items(a.patches)) : PatchAccepted(p, dual)
  /\ Junk \notin Range(Items(a.claims))
  /\ VerdictEarned(a)

Targeted(target) == IF target = Absent THEN "PROPOSAL" ELSE target

\* The result of an accepted answer.
Review(a) ==
  [verdict |-> a.verdict, claims |-> Items(a.claims),
   findings |-> [i \in DOMAIN Items(a.findings) |->
                   [a.findings[i] EXCEPT !.target = Targeted(@)]],
   patches |-> [i \in DOMAIN Items(a.patches) |->
                  [a.patches[i] EXCEPT !.target = Targeted(@)]]]

-----------------------------------------------------------------------------
(* The aggregate and the docket *)

CycleVerdict(reviews) ==
  LET given == {reviews[r].verdict : r \in Roles}
  IN  IF "BLOCKED" \in given THEN "BLOCKED"
      ELSE IF "NEEDS_REVISION" \in given THEN "NEEDS_REVISION"
      ELSE "PASS"

\* All entries of a kind, in reviewer order, with who made them.
InOrder(entries) ==
  FlattenSeq([k \in DOMAIN REVIEWER_ORDER |->
    LET r == REVIEWER_ORDER[k]
    IN  [i \in DOMAIN entries[r] |-> [role |-> r, entry |-> entries[r][i]]]])

Rank(x) == CHOOSE k \in DOMAIN SEVERITY_ORDER : SEVERITY_ORDER[k] = x.entry.severity
Precedes(staged, i, j) ==
  \/ Rank(staged[i]) < Rank(staged[j])
  \/ Rank(staged[i]) = Rank(staged[j]) /\ i < j

\* A stable sort: the most severe first, reviewer order within a severity.
BySeverity(staged) ==
  LET place(i) == 1 + Cardinality({j \in DOMAIN staged : Precedes(staged, j, i)})
  IN  [n \in DOMAIN staged |-> staged[CHOOSE i \in DOMAIN staged : place(i) = n]]

\* The content that makes two findings duplicates; the target is no part of it.
Content(f) == <<f.severity, f.category, f.message, f.details>>

\* The place of an earlier finding of the same content, else 0.
DuplicateOf(found, i) ==
  LET same == {j \in 1..(i - 1) : Content(found[j].entry) = Content(found[i].entry)}
  IN  IF same = {} THEN 0 ELSE Min(same)

\* The bundle is bound to the fingerprints of the documents reviewed.
Aggregate(reviews, pair) ==
  LET found == BySeverity(InOrder([r \in Roles |-> reviews[r].findings]))
  IN  [hash |-> pair,
       verdict |-> CycleVerdict(reviews),
       findings |-> [i \in DOMAIN found |->
                       [role |-> found[i].role, entry |-> found[i].entry,
                        duplicate |-> DuplicateOf(found, i)]],
       patches |-> InOrder([r \in Roles |-> reviews[r].patches]),
       claims |-> FlattenSeq([k \in DOMAIN REVIEWER_ORDER |-> reviews[REVIEWER_ORDER[k]].claims])]

Item(kind, n, x, severity, message) ==
  [id |-> <<kind, n>>, role |-> x.role, severity |-> severity,
   message |-> message, target |-> x.entry.target]

FindingItems(b) ==
  [i \in DOMAIN b.findings |->
     Item("F", i, b.findings[i], b.findings[i].entry.severity, b.findings[i].entry.message)]
PatchItems(b) ==
  [i \in DOMAIN b.patches |-> Item("P", i, b.patches[i], Blank, b.patches[i].entry.rationale)]

\* Mutant: what an evaluator repeats gets no item of its own.
Docket_NoDuplicates(b) ==
  SelectSeq(FindingItems(b), LAMBDA x : b.findings[x.id[2]].duplicate = 0) \o PatchItems(b)

Docket(b) == FindingItems(b) \o PatchItems(b)

-----------------------------------------------------------------------------
(* Round two: the ballots, the matrix and the readiness *)

JudgementAccepted(j) ==
  /\ Text(j.id)
  /\ j.judgement \in Judgements
  /\ j.blocks \in BOOLEAN \cup {Absent}
  /\ j.details # Junk

ScoreAccepted(c) == c.criterion \in Criteria /\ c.score \in 0..100

AssessmentAccepted(scores) ==
  \/ scores = Absent
  \/ /\ scores # Junk
     /\ \A c \in Range(scores) : ScoreAccepted(c)
     /\ IsInjective([i \in DOMAIN scores |-> scores[i].criterion])

\* A ballot must judge something, but not the whole docket nor only it; an
\* iteration number written as 1.0 is as good as 1.
BallotAccepted(a, role) ==
  /\ Enveloped(a)
  /\ a.role = role
  /\ a.iteration \in {"this", "this as a float"}
  /\ a.hash = "this"
  /\ IsList(a.judgements)
  /\ Len(a.judgements) \in 1..MaxJudgements
  /\ \A j \in Range(a.judgements) : JudgementAccepted(j)
  /\ IsInjective([i \in DOMAIN a.judgements |-> a.judgements[i].id])
  /\ AssessmentAccepted(a.scores)
  /\ a.summary # Junk

Judged(ballot) == {j.id : j \in Range(ballot.judgements)}
JudgementOn(ballot, id) == CHOOSE j \in Range(ballot.judgements) : j.id = id

\* Mutant: an evaluator who skips an item does not stand in its way.
Row_SkipsMissing(ballots, docket, id) ==
  LET voters == {r \in Roles : id \in Judged(ballots[r])}
  IN  [unresolved |-> \E r \in voters : JudgementOn(ballots[r], id).judgement # "AGREE",
       blocks |-> \E r \in voters : JudgementOn(ballots[r], id).blocks = TRUE,
       target |-> {x.target : x \in {y \in Range(docket) : y.id = id}}]

\* One row of the matrix: a missing vote counts as insufficient evidence.
Row(ballots, docket, id) ==
  LET voters == {r \in Roles : id \in Judged(ballots[r])}
  IN  [unresolved |-> voters # Roles
                        \/ \E r \in voters : JudgementOn(ballots[r], id).judgement # "AGREE",
       blocks |-> \E r \in voters : JudgementOn(ballots[r], id).blocks = TRUE,
       target |-> {x.target : x \in {y \in Range(docket) : y.id = id}}]

\* A row for every id that some ballot judges.
Matrix(ballots, docket) ==
  [id \in UNION {Judged(ballots[r]) : r \in Roles} |-> Row(ballots, docket, id)]

\* The k-th smallest of the scores the evaluators gave.
Smallest(scores, k) ==
  Max({v \in Range(scores) : Cardinality({r \in DOMAIN scores : scores[r] < v}) < k})

\* Mutant: the best score stands for the criterion.
TwiceMedian_Best(scores) == IF DOMAIN scores = {} THEN 0 ELSE 2 * Max(Range(scores))

\* Twice the median, so that it stays an integer; 0 for what nobody scored.
TwiceMedian(scores) ==
  LET n == Cardinality(DOMAIN scores)
  IN  IF n = 0 THEN 0
      ELSE IF n % 2 = 1 THEN 2 * Smallest(scores, (n + 1) \div 2)
      ELSE Smallest(scores, n \div 2) + Smallest(scores, n \div 2 + 1)

\* The scores of a criterion: of each ballot that has one, the first.
ScoresOf(ballots, criterion) ==
  LET given(r) == {i \in DOMAIN Items(ballots[r].scores) : ballots[r].scores[i].criterion = criterion}
  IN  [r \in {q \in Roles : given(q) # {}} |-> ballots[r].scores[Min(given(r))].score]

Medians(ballots) == [c \in Criteria |-> TwiceMedian(ScoresOf(ballots, c))]

\* Unresolved rows that are docket items of this severity.
Unresolved(matrix, docket, severity) ==
  {id \in DOMAIN matrix : matrix[id].unresolved
                            /\ \E x \in Range(docket) : x.id = id /\ x.severity = severity}

Penalty(matrix, docket, claims, missingSource) ==
    15 * Cardinality(Unresolved(matrix, docket, "critical"))
  +  8 * Cardinality(Unresolved(matrix, docket, "high"))
  +  3 * Len(claims)
  + (IF missingSource THEN 10 ELSE 0)

\* Equal weights; in units of 1 / (2 * number of criteria).
Scale == 2 * Cardinality(Criteria)

\* The sum of the medians, counted in the points below them.
Weighted(medians) == Cardinality(UNION {{c} \X (1..medians[c]) : c \in Criteria})

Clamp(v) == Max({0, Min({100 * Scale, v})})
Readiness(ballots, penalty) == Clamp(Weighted(Medians(ballots)) - penalty * Scale)

=============================================================================
