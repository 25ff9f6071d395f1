---------------------------- MODULE PanelRound ----------------------------
(***************************************************************************)
(* One iteration of the review panel: the sources are fingerprinted, read  *)
(* and frozen, three evaluators are called at the same time, their reviews *)
(* become a bundle and a docket, and the same three are called again to    *)
(* judge the docket (proposal_runtime/panel_runtime.py, panel_chair.py,    *)
(* review_executor.py).  Meanwhile an editor may change either document;   *)
(* an edit is a new version and never brings back the bytes of an old one. *)
(***************************************************************************)
EXTENDS PanelAnswers

CONSTANTS
  Reviews,                \* role -> what it may answer in round one
  Ballots,                \* role -> what it may answer in round two
  MaxEdits,               \* of each document
  None

\* An answer is a record of the fields the parsers look at, its lists are
\* lists and their entries records.
Listing(list) == list \in {Absent, Junk} \/ list \in Seq(Range(list))
AnswerShaped(a) ==
  /\ Listing(a.findings) /\ Listing(a.patches) /\ Listing(a.claims)
  /\ \A f \in Range(Items(a.findings)) : {"severity", "category", "message", "details", "target"} \subseteq DOMAIN f
  /\ \A p \in Range(Items(a.patches)) : {"rationale", "target"} \subseteq DOMAIN p
ASSUME ReviewsAssumption ==
  \A r \in Roles : \A a \in Reviews[r] : AnswerShaped(a)
ASSUME BallotsAssumption ==
  \A r \in Roles : \A b \in Ballots[r] : Listing(b.judgements) /\ Listing(b.scores)
ASSUME NoneAssumption == None \notin Int

VARIABLES
  doc,                    \* versions on disk: [pr, bp]; bp = 0: no blueprint
  step,                   \* where the panel stands
  machine,                \* ProposalStateMachine.phase
  hash,                   \* fingerprints the iteration is bound to: [pr, bp]
  text,                   \* versions in the packets: [pr, bp]
  read,                   \* history: pairs on disk while a review was running
  calls,                  \* role -> the call of this round and its answer
  bundle, docket,         \* what round one leaves
  matrix, readiness,      \* what round two leaves
  outcome                 \* "" while the panel runs

vars == <<doc, step, machine, hash, text, read, calls, bundle, docket, matrix, readiness, outcome>>

NoPair == [pr |-> 0, bp |-> 0]
Waiting == [state |-> "waiting", before |-> 0, answer |-> None]
Dual == hash.bp # 0
Answered(r) == calls[r].answer
Results == [r \in Roles |-> Review(Answered(r))]

Finish(o) == step' = "ended" /\ outcome' = o

Init ==
  /\ doc \in [pr : {1}, bp : {0, 1}]
  /\ step = "enter"
  /\ machine \in {"IDLE", "REVISION_REQUIRED", "INTEGRATION"}
  /\ hash = NoPair /\ text = NoPair /\ read = {}
  /\ calls = [r \in Roles |-> Waiting]
  /\ bundle = None /\ docket = None /\ matrix = None /\ readiness = None
  /\ outcome = ""

-----------------------------------------------------------------------------
(* Entry *)

\* Only a full iteration: from IDLE or from REVISION_REQUIRED.
Refuse ==
  /\ step = "enter" /\ machine \notin {"IDLE", "REVISION_REQUIRED"}
  /\ Finish("PANEL_FAILED")
  /\ UNCHANGED <<doc, machine, hash, text, read, calls, bundle, docket, matrix, readiness>>

\* The machine moves before anything is validated.
Validate ==
  /\ step = "enter" /\ machine \in {"IDLE", "REVISION_REQUIRED"}
  /\ LET entered == IF machine = "IDLE" THEN "SOURCE_VALIDATION" ELSE "SCIENTIFIC_REVIEW"
     IN  \/ /\ hash' = [hash EXCEPT !.pr = doc.pr]
            /\ machine' = entered
            /\ step' = "load" /\ UNCHANGED outcome
         \/ /\ machine' = IF entered = "SOURCE_VALIDATION" THEN "FAILED" ELSE entered
            /\ Finish("SOURCE_VALIDATION_FAILED") /\ UNCHANGED hash
  /\ UNCHANGED <<doc, text, read, calls, bundle, docket, matrix, readiness>>

\* The budget gate, then the snapshot the packets are made of.
LoadSnapshot ==
  /\ step = "load"
  /\ \/ text' = doc /\ step' = "fingerprint" /\ UNCHANGED <<outcome, machine>>
     \/ Finish("SOURCE_BUDGET_EXCEEDED") /\ UNCHANGED <<text, machine>>
     \/ /\ machine' = IF machine = "SOURCE_VALIDATION" THEN "FAILED" ELSE machine
        /\ Finish("SOURCE_VALIDATION_FAILED") /\ UNCHANGED text
  /\ UNCHANGED <<doc, hash, read, calls, bundle, docket, matrix, readiness>>

\* The blueprint in the snapshot is fingerprinted after it was read; without
\* one, or when it cannot be read now, the iteration is about the proposal alone.
FingerprintBlueprint ==
  /\ step = "fingerprint"
  /\ \E version \in {0, IF text.bp = 0 THEN 0 ELSE doc.bp} : hash' = [hash EXCEPT !.bp = version]
  /\ step' = "freeze"
  /\ UNCHANGED <<doc, machine, text, read, calls, bundle, docket, matrix, readiness, outcome>>

\* Both documents are frozen under the fingerprints, or the iteration ends: a
\* document has changed, another frozen copy is there, or the copy fails.
Freeze ==
  /\ step = "freeze"
  /\ \/ /\ doc.pr = hash.pr /\ (Dual => doc.bp = hash.bp)
        /\ machine' = "SCIENTIFIC_REVIEW"
        /\ step' = "first" /\ UNCHANGED outcome
     \/ Finish("ARTIFACT_CONFLICT") /\ UNCHANGED machine
  /\ UNCHANGED <<doc, hash, text, read, calls, bundle, docket, matrix, readiness>>

-----------------------------------------------------------------------------
(* Round one: execute_review_call in three threads *)

\* The call fingerprints the proposal, or raises when it cannot read it.
BeginCall(r) ==
  /\ step = "first" /\ calls[r].state = "waiting"
  /\ \/ /\ calls' = [calls EXCEPT ![r].state = "running", ![r].before = doc.pr]
        /\ read' = read \cup {doc}
     \/ calls' = [calls EXCEPT ![r].state = "RAISED"] /\ UNCHANGED read
  /\ UNCHANGED <<doc, step, machine, hash, text, bundle, docket, matrix, readiness, outcome>>

\* Mutant: a call looks at the proposal alone when it ends.
CallOutcome_ProposalOnly(r, answer) ==
  IF answer = None THEN "DRIVER_FAILED"
  ELSE IF ~ReviewAccepted(answer, r, Dual) THEN "PARSE_FAILED"
  ELSE IF doc.pr # calls[r].before THEN "MUTATION_DETECTED"
  ELSE "COMPLETED"

\* The fate of a call that got an answer; None is a driver failure.
CallOutcome(r, answer) ==
  IF answer = None THEN "DRIVER_FAILED"
  ELSE IF ~ReviewAccepted(answer, r, Dual) THEN "PARSE_FAILED"
  ELSE IF doc.pr # calls[r].before \/ (Dual /\ doc.bp # hash.bp) THEN "MUTATION_DETECTED"
  ELSE "COMPLETED"

\* Only the answer of a completed call is used.
Ended(call, state, answer) ==
  [call EXCEPT !.state = state, !.answer = IF state = "COMPLETED" THEN answer ELSE None]

EndCall(r) ==
  /\ step = "first" /\ calls[r].state = "running"
  /\ \E answer \in Reviews[r] \cup {None} :
       calls' = [calls EXCEPT ![r] = Ended(@, CallOutcome(r, answer), answer)]
  /\ UNCHANGED <<doc, step, machine, hash, text, read, bundle, docket, matrix, readiness, outcome>>

Failed == {r \in Roles : calls[r].state # "COMPLETED"}

AnyCall(state) == \E r \in Roles : calls[r].state = state

\* What three failed or stale calls come to; "" when the reviews can be used.
Unusable ==
  IF AnyCall("RAISED") THEN "PANEL_FAILED"
  ELSE IF AnyCall("MUTATION_DETECTED") THEN "STALE_PROPOSAL"
  ELSE IF Failed # {} THEN "PANEL_FAILED"
  ELSE IF doc.pr # hash.pr THEN "STALE_PROPOSAL"
  ELSE ""

\* Nothing is aggregated unless all three calls completed; the records of the
\* reviews, of the bundle or of the docket may meet others or fail.  One
\* blocking review is enough for BLOCKED.
JoinReviews ==
  /\ step = "first" /\ \A r \in Roles : calls[r].state \notin {"waiting", "running"}
  /\ \/ Unusable # "" /\ Finish(Unusable) /\ UNCHANGED <<machine, bundle, docket>>
     \/ Unusable = "" /\ Finish("ARTIFACT_CONFLICT") /\ UNCHANGED <<machine, bundle, docket>>
     \/ /\ Unusable = "" /\ CycleVerdict(Results) = "BLOCKED"
        /\ Finish("BLOCKED") /\ machine' = "BLOCKED" /\ UNCHANGED <<bundle, docket>>
     \/ /\ Unusable = "" /\ CycleVerdict(Results) # "BLOCKED"
        /\ machine' = "INTEGRATION"
        /\ \/ Finish("ARTIFACT_CONFLICT") /\ UNCHANGED <<bundle, docket>>
           \/ /\ bundle' = Aggregate(Results, hash)
              /\ docket' = Docket(bundle')
              /\ step' = "between" /\ UNCHANGED outcome
  /\ UNCHANGED <<doc, hash, text, read, calls, matrix, readiness>>

-----------------------------------------------------------------------------
(* Round two: the snapshot is read again, then the blueprint fingerprinted; *)
(* a blueprint that cannot be fingerprinted ends it, before or after.       *)

ReloadSnapshot ==
  /\ step = "between"
  /\ text' = doc
  /\ step' = "bind"
  /\ UNCHANGED <<doc, machine, hash, read, calls, bundle, docket, matrix, readiness, outcome>>

BindRound ==
  /\ step = "bind"
  /\ \/ /\ hash' = [hash EXCEPT !.bp = doc.bp]
        /\ calls' = [r \in Roles |-> [Waiting EXCEPT !.answer = Answered(r)]]
        /\ step' = "second" /\ UNCHANGED outcome
     \/ doc.bp # 0 /\ Finish("CONSENSUS_FAILED") /\ UNCHANGED <<hash, calls>>
  /\ UNCHANGED <<doc, machine, text, read, bundle, docket, matrix, readiness>>

EndBallot(r) ==
  /\ step = "second" /\ calls[r].state = "waiting"
  /\ \E ballot \in Ballots[r] \cup {None} :
       LET accepted == IF ballot = None THEN FALSE ELSE BallotAccepted(ballot, r)
       IN  calls' = [calls EXCEPT ![r] = Ended(@, IF accepted THEN "COMPLETED" ELSE "FAILED", ballot)]
  /\ UNCHANGED <<doc, step, machine, hash, text, read, bundle, docket, matrix, readiness, outcome>>

Cast == [r \in Roles |-> Answered(r)]
Scored == \E r \in Roles : Items(Answered(r).scores) # << >>

\* The matrix, and the readiness when anybody scored anything; an error while
\* the second of the two files is written leaves the first.
JoinBallots ==
  /\ step = "second" /\ \A r \in Roles : calls[r].state # "waiting"
  /\ \/ Finish("CONSENSUS_FAILED") /\ UNCHANGED <<matrix, readiness>>
     \/ /\ Failed = {} /\ doc.pr = hash.pr /\ (Dual => doc.bp = hash.bp)
        /\ matrix' = Matrix(Cast, docket)
        /\ \/ /\ \E missingSource \in BOOLEAN :
                  readiness' = IF Scored
                               THEN Readiness(Cast, Penalty(matrix', docket, bundle.claims, missingSource))
                               ELSE None
              /\ Finish("TO_CHAIR")
           \/ Finish("RAISED") /\ UNCHANGED readiness
  /\ UNCHANGED <<doc, machine, hash, text, read, calls, bundle, docket>>

-----------------------------------------------------------------------------
(* The editor *)

\* A running review may read what the edit writes.
Reading(d) == IF \E r \in Roles : step = "first" /\ calls[r].state = "running"
              THEN read \cup {d} ELSE read

EditProposal ==
  /\ step # "ended" /\ doc.pr <= MaxEdits
  /\ doc' = [doc EXCEPT !.pr = @ + 1]
  /\ read' = Reading(doc')
  /\ UNCHANGED <<step, machine, hash, text, calls, bundle, docket, matrix, readiness, outcome>>

EditBlueprint ==
  /\ step # "ended" /\ doc.bp \in 1..MaxEdits
  /\ doc' = [doc EXCEPT !.bp = @ + 1]
  /\ read' = Reading(doc')
  /\ UNCHANGED <<step, machine, hash, text, calls, bundle, docket, matrix, readiness, outcome>>

Next ==
  \/ Refuse \/ Validate \/ LoadSnapshot \/ FingerprintBlueprint \/ Freeze
  \/ \E r \in Roles : BeginCall(r) \/ EndCall(r) \/ EndBallot(r)
  \/ JoinReviews \/ ReloadSnapshot \/ BindRound \/ JoinBallots
  \/ EditProposal \/ EditBlueprint

Spec == Init /\ [][Next]_vars

-----------------------------------------------------------------------------
(* Properties *)

\* A bundle that says PASS carries no critical or high finding and no
\* unverified claim, whatever three independent answers claimed
\* (review_parser.py, review_aggregation.py).
PassIsClean ==
  bundle # None /\ bundle.verdict = "PASS" =>
    /\ bundle.claims = << >>
    /\ \A x \in Range(docket) : x.severity \notin {"critical", "high"}

\* How often an entry of a kind occurs in an answer and in the docket.
Given(list, key(_), k) == Cardinality({i \in DOMAIN Items(list) : key(list[i]) = k})
Listed(r, kind, message, target) ==
  Cardinality({i \in DOMAIN docket : /\ docket[i].role = r
                                     /\ docket[i].id[1] = kind
                                     /\ docket[i].message = message
                                     /\ docket[i].target = target})

\* Every finding and every patch of every evaluator is on the docket once for
\* each time it was made, with its author and its document, under an id of its
\* own, the findings from the most to the least severe (review_aggregation.py,
\* panel_matrix.py: duplicates are marked, never dropped).
NothingLost ==
  step = "between" =>
    /\ \A r \in Roles :
         /\ \A f \in Range(Items(Answered(r).findings)) :
              Given(Answered(r).findings, LAMBDA x : <<x.message, Targeted(x.target)>>,
                    <<f.message, Targeted(f.target)>>)
                = Listed(r, "F", f.message, Targeted(f.target))
         /\ \A p \in Range(Items(Answered(r).patches)) :
              Given(Answered(r).patches, LAMBDA x : <<x.rationale, Targeted(x.target)>>,
                    <<p.rationale, Targeted(p.target)>>)
                = Listed(r, "P", p.rationale, Targeted(p.target))
    /\ IsInjective([i \in DOMAIN docket |-> docket[i].id])
    /\ \A i, j \in DOMAIN bundle.findings :
         i < j => \E k \in DOMAIN SEVERITY_ORDER :
                    /\ bundle.findings[i].entry.severity = SEVERITY_ORDER[k]
                    /\ bundle.findings[j].entry.severity \in Range(SubSeq(SEVERITY_ORDER, k, 4))

\* Whatever the editor did and whenever, a bundle is made only of reviews
\* during which nothing but the documents it names was on disk
\* (review_executor.py gates 3 and 3b, panel_runtime.py re-fingerprint).
ReviewedOneRevision ==
  bundle # None => \A p \in read : p.pr = bundle.hash.pr
                                     /\ (bundle.hash.bp # 0 => p.bp = bundle.hash.bp)

\* A row is resolved only if each evaluator's own ballot says AGREE to it, and
\* one evaluator is enough to mark it as blocking (panel_matrix.py, "never
\* silently pretend a missing vote agrees").
VotesDecide ==
  matrix # None =>
    \A id \in DOMAIN matrix :
      /\ ~matrix[id].unresolved =>
           \A r \in Roles : \E j \in Range(Answered(r).judgements) : j.id = id /\ j.judgement = "AGREE"
      /\ matrix[id].blocks <=>
           \E r \in Roles : \E j \in Range(Answered(r).judgements) : j.id = id /\ j.blocks = TRUE

\* What a readiness of 100 takes: every evaluator cast a ballot, no claim is
\* unverified, each critical or high item has the AGREE of all three or was judged
\* by nobody, and on every criterion somebody gave scores and most of them were
\* 100 (readiness.py, medians less penalties).  It takes no more than that: one
\* evaluator's scores suffice, and so does silence about an item (NoAgentAlone
\* and EveryItemJudged below).
FullReadinessIsEarned ==
  readiness = 100 * Scale =>
    /\ \A r \in Roles : calls[r].state = "COMPLETED"
    /\ bundle.claims = << >>
    /\ \A x \in Range(docket) : x.severity \in {"critical", "high"} =>
         LET saying(what) == {r \in Roles : \E j \in Range(Answered(r).judgements) :
                                              j.id = x.id /\ j.judgement \in what}
         IN  saying({"AGREE"}) = Roles \/ saying(Judgements) = {}
    /\ \A c \in Criteria :
         LET scored(score) == {r \in Roles : \E s \in Range(Items(Answered(r).scores)) :
                                               s.criterion = c /\ s.score \in score}
         IN  2 * Cardinality(scored({100})) > Cardinality(scored(0..100))

\* "No single agent (including ASTRA) can declare a number" (readiness.py).
NoAgentAlone ==
  readiness # None => Cardinality({r \in Roles : Items(Answered(r).scores) # << >>}) > 1

\* "every docket item appears exactly once in 'judgements'" (the rules of
\* panel_contracts.py): an item of the docket has a row in the matrix.
EveryItemJudged ==
  matrix # None => \A x \in Range(docket) : x.id \in DOMAIN matrix

\* "every packet echoes the SAME pair binding" (panel_runtime.py): the
\* blueprint in the packets is the one the bundle is bound to.
PacketsAreBound ==
  bundle # None => text.bp = bundle.hash.bp

=============================================================================
