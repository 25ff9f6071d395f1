---------------------------- MODULE ReviewCycle ----------------------------
(***************************************************************************)
(* One iteration of the sequential review: the sources are validated and   *)
(* frozen, three reviewers are called one after another, each review is    *)
(* made durable, the three are aggregated, and the orchestrator revises    *)
(* the proposal (proposal_runtime/review_loop.py, review_executor.py,      *)
(* review_artifacts.py, proposal_iteration.py, master_writer.py).  A run   *)
(* may fail at any step, or die with the process; the next one resumes     *)
(* from a machine and from the files of the iteration.  Meanwhile an       *)
(* editor may change either document; an edit is a new version.  The       *)
(* verdict NEEDS_REVISION goes the way of PASS.                            *)
(***************************************************************************)
EXTENDS Integers, Sequences, FiniteSets

CONSTANTS MaxEdits, MaxRuns, None
ASSUME CycleAssumption ==
  /\ MaxEdits \in Nat /\ MaxRuns \in Nat
  /\ None \notin [pr : Nat, verdict : {"PASS", "BLOCKED"}, seen : SUBSET [pr : Nat, bp : Nat]]

VARIABLES
  doc,          \* versions on disk: [pr, bp]; bp = 0: no living blueprint
  frozen,       \* versions under 06_VERSIONS: [pr, bp]; 0: none
  art,          \* role -> its durable review, or None
  bundle,       \* review_bundle.json, or None
  brief,        \* integration_brief.json exists
  machine,      \* ProposalStateMachine.phase; "LOST" with the process
  step,         \* where the run stands; "idle" between runs
  turn,         \* index in REVIEW_SEQUENCE
  hash,         \* what the cycle is bound to: [pr, bp]
  packet,       \* versions in this reviewer's packet: [pr, bp]
  call,         \* the running review: [before, seen]
  results,      \* role -> review used by this run, or None
  outcome,      \* of the last run
  runs          \* counts the runs

files == <<frozen, art, bundle, brief>>
vars == <<doc, files, machine, step, turn, hash, packet, call, results, outcome, runs>>

REVIEW_SEQUENCE == <<"SCIENTIFIC_REVIEWER", "PROPOSAL_ENGINEER", "RED_TEAM_REVIEWER">>
Roles == {REVIEW_SEQUENCE[i] : i \in DOMAIN REVIEW_SEQUENCE}
PHASES == <<"SCIENTIFIC_REVIEW", "IMPLEMENTATION_REVIEW", "RED_TEAM_REVIEW", "INTEGRATION">>
ResumeEntry == {"IDLE", "SOURCE_VALIDATION", "REVISION_REQUIRED", PHASES[1], PHASES[2], PHASES[3]}

NoPair == [pr |-> 0, bp |-> 0]
Half == -1                      \* a frozen copy without its sidecar
NoCall == [before |-> 0, seen |-> {}]
Role == REVIEW_SEQUENCE[turn]
Position == CHOOSE i \in DOMAIN PHASES : PHASES[i] = machine

Init ==
  /\ doc \in [pr : {1}, bp : {0, 1}]
  /\ frozen = NoPair /\ art = [r \in Roles |-> None] /\ bundle = None /\ brief = FALSE
  /\ machine \in {"IDLE", "REVISION_REQUIRED"}
  /\ step = "idle" /\ turn = 1 /\ hash = NoPair /\ packet = NoPair /\ call = NoCall
  /\ results = [r \in Roles |-> None] /\ outcome = "" /\ runs = 0

\* The report of a run; a failure of a review leaves the machine where it is.
Return(o) == step' = "idle" /\ outcome' = o
Continue(s) == step' = s /\ UNCHANGED outcome

-----------------------------------------------------------------------------
(* Entry *)

\* A machine lost with its process is replaced by the caller's.
Start ==
  /\ step = "idle" /\ runs < MaxRuns
  /\ runs' = runs + 1
  /\ turn' = 1 /\ call' = NoCall /\ packet' = NoPair /\ hash' = NoPair
  /\ results' = [r \in Roles |-> None]
  /\ \E p \in IF machine = "LOST" THEN ResumeEntry ELSE {machine} :
       IF p \in ResumeEntry
       THEN /\ machine' = CASE p = "IDLE" -> "SOURCE_VALIDATION"
                            [] p = "REVISION_REQUIRED" -> "SCIENTIFIC_REVIEW"
                            [] OTHER -> p
            /\ step' = "validate" /\ outcome' = ""
       ELSE machine' = p /\ Return("REVIEW_FAILED")
  /\ UNCHANGED <<doc, files>>

\* Fingerprint and snapshot, or any of the defects of the sources.
ValidateSources ==
  /\ step = "validate"
  /\ \/ /\ hash' = [pr |-> doc.pr, bp |-> 0] /\ packet' = doc
        /\ Continue("freeze proposal") /\ UNCHANGED machine
     \/ /\ machine' = IF machine = "SOURCE_VALIDATION" THEN "FAILED" ELSE machine
        /\ Return("SOURCE_VALIDATION_FAILED") /\ UNCHANGED <<hash, packet>>
  /\ UNCHANGED <<doc, files, turn, call, results, runs>>

\* The exact bytes and their sidecar are written, or both are already there.
FreezeProposal ==
  /\ step = "freeze proposal"
  /\ \/ /\ doc.pr = hash.pr /\ frozen.pr \in {0, hash.pr}
        /\ frozen' = [frozen EXCEPT !.pr = hash.pr]
        /\ Continue("freeze blueprint")
     \/ /\ frozen' \in {frozen, [frozen EXCEPT !.pr = IF @ = 0 /\ doc.pr = hash.pr THEN Half ELSE @]}
        /\ Return("ARTIFACT_CONFLICT")
  /\ UNCHANGED <<doc, art, bundle, brief, machine, turn, hash, packet, call, results, runs>>

FreezeBlueprint ==
  /\ step = "freeze blueprint"
  /\ hash' = [hash EXCEPT !.bp = doc.bp]
  /\ \/ /\ doc.bp = 0 \/ frozen.bp \in {0, doc.bp}
        /\ frozen' = [frozen EXCEPT !.bp = IF doc.bp = 0 THEN @ ELSE doc.bp]
        /\ machine' = IF machine = "SOURCE_VALIDATION" THEN "SCIENTIFIC_REVIEW" ELSE machine
        /\ Continue("guard")
     \/ /\ doc.bp # 0
        /\ frozen' \in {frozen, [frozen EXCEPT !.bp = IF @ = 0 THEN Half ELSE @]}
        /\ Return("ARTIFACT_CONFLICT") /\ UNCHANGED machine
  /\ UNCHANGED <<doc, art, bundle, brief, turn, packet, call, results, runs>>

-----------------------------------------------------------------------------
(* One reviewer *)

\* Mutant: whoever is next is called, whatever its file says.
Existing_Ignored ==
  IF turn < Position THEN IF art[Role] = None THEN "missing" ELSE "reuse"
  ELSE "none"

\* The durable review of the role against the machine's position.
Existing ==
  IF art[Role] # None /\ art[Role].pr # hash.pr THEN "identity"
  ELSE IF turn < Position THEN IF art[Role] = None THEN "missing" ELSE "reuse"
  ELSE IF art[Role] # None THEN "mismatch"
  ELSE "none"

\* The text is the snapshot's, the blueprint's hash is read for each packet.
BuildPacket == packet' = [packet EXCEPT !.bp = IF @ = 0 THEN 0 ELSE doc.bp]

\* Nobody is launched over another revision or against the evidence.
Guard ==
  /\ step = "guard"
  /\ CASE doc.pr # hash.pr -> Return("STALE_PROPOSAL") /\ UNCHANGED <<turn, results, packet>>
       [] doc.pr = hash.pr /\ Existing = "reuse" ->
            /\ results' = [results EXCEPT ![Role] = art[Role]]
            /\ turn' = turn + 1
            /\ UNCHANGED <<packet, step, outcome>>
       [] doc.pr = hash.pr /\ Existing = "none" ->
            /\ BuildPacket
            /\ Continue("call") /\ UNCHANGED <<turn, results>>
       [] OTHER -> Return("ARTIFACT_CONFLICT") /\ UNCHANGED <<turn, results, packet>>
  /\ UNCHANGED <<doc, files, machine, hash, call, runs>>

\* execute_review_call reads the fingerprint again; unreadable is stale.
BeginCall ==
  /\ step = "call"
  /\ \/ call' = [before |-> doc.pr, seen |-> {doc}] /\ Continue("running")
     \/ Return("STALE_PROPOSAL") /\ UNCHANGED call
  /\ UNCHANGED <<doc, files, machine, turn, hash, packet, results, runs>>

Mutated == doc.pr # call.before \/ (packet.bp # 0 /\ doc.bp # packet.bp)

\* The machine moves on a valid review before the review is durable.
EndCall ==
  /\ step = "running"
  /\ \/ Return("REVIEW_FAILED") /\ UNCHANGED <<machine, results>>
     \/ Mutated /\ Return("STALE_PROPOSAL") /\ UNCHANGED <<machine, results>>
     \/ \E verdict \in {"PASS", "BLOCKED"} :
          /\ ~Mutated
          /\ results' = [results EXCEPT ![Role] = [pr |-> hash.pr, verdict |-> verdict, seen |-> call.seen]]
          /\ machine' = IF verdict = "BLOCKED" THEN "BLOCKED" ELSE PHASES[turn + 1]
          /\ Continue("write")
  /\ UNCHANGED <<doc, files, turn, hash, packet, call, runs>>

\* A new file carries the result under the identity of the cycle.
Persist(r) == art[r] \in {None, results[r]} /\ art' = [art EXCEPT ![r] = results[r]]

WriteReview ==
  /\ step = "write"
  /\ \/ /\ Persist(Role)
        /\ IF results[Role].verdict = "BLOCKED" THEN Return("BLOCKED") /\ UNCHANGED turn
           ELSE /\ turn' = IF turn < 3 THEN turn + 1 ELSE turn
                /\ Continue(IF turn < 3 THEN "guard" ELSE "reverify")
     \/ Return("RAISED") /\ UNCHANGED <<art, turn>>
  /\ UNCHANGED <<doc, frozen, bundle, brief, machine, hash, packet, call, results, runs>>

-----------------------------------------------------------------------------
(* Aggregation *)

\* Mutant: the third review is followed by the aggregation at once.
StillCurrent_Trusted == TRUE

\* The proposal is still the one the cycle is bound to.
StillCurrent == doc.pr = hash.pr

Reverify ==
  /\ step = "reverify"
  /\ IF StillCurrent THEN Continue("bundle") ELSE Return("STALE_PROPOSAL")
  /\ UNCHANGED <<doc, files, machine, turn, hash, packet, call, results, runs>>

Aggregated == [hash |-> hash, reviews |-> results]

\* Neither of the two files of a cycle is ever written over.
WriteBundle ==
  /\ step = "bundle"
  /\ \/ bundle = None /\ bundle' = Aggregated /\ Continue("brief")
     \/ bundle # None /\ Return("ARTIFACT_CONFLICT") /\ UNCHANGED bundle
     \/ bundle = None /\ Return("RAISED") /\ UNCHANGED bundle
  /\ UNCHANGED <<doc, frozen, art, brief, machine, turn, hash, packet, call, results, runs>>

WriteBrief ==
  /\ step = "brief"
  /\ \/ ~brief /\ brief' = TRUE /\ Continue("integrate")
     \/ brief /\ Return("ARTIFACT_CONFLICT") /\ UNCHANGED brief
     \/ ~brief /\ Return("RAISED") /\ UNCHANGED brief
  /\ UNCHANGED <<doc, frozen, art, bundle, machine, turn, hash, packet, call, results, runs>>

-----------------------------------------------------------------------------
(* The integration and what run_iteration makes of it *)

\* The proposal is replaced only at INTEGRATION and only over the revision that
\* was read; the same bytes may come back.
ReplaceMaster ==
  /\ machine = "INTEGRATION" /\ doc.pr = hash.pr
  /\ doc' \in {doc, [doc EXCEPT !.pr = @ + 1]}

\* Records after the write may conflict, when the machine has moved on.
Integrate ==
  /\ step = "integrate"
  /\ \/ Return("INTEGRATION_FAILED") /\ UNCHANGED <<doc, machine>>
     \/ /\ ReplaceMaster
        /\ machine' = "HARD_GATE_VALIDATION"
        /\ Continue("freshness") \/ Return("ARTIFACT_CONFLICT")
  /\ UNCHANGED <<files, turn, hash, packet, call, results, runs>>

\* A reviewed proposal goes to the gates, a changed one to the next iteration.
Freshness ==
  /\ step = "freshness"
  /\ \/ /\ doc.pr = bundle.hash.pr
        /\ Return("READY_FOR_HARD_GATES") /\ UNCHANGED machine
     \/ /\ doc.pr # bundle.hash.pr
        /\ \/ Return("INTEGRATION_FAILED") /\ UNCHANGED machine
           \/ Return("ARTIFACT_CONFLICT") /\ UNCHANGED machine
           \/ Return("READY_FOR_NEXT_ITERATION") /\ machine' = "REVISION_REQUIRED"
  /\ UNCHANGED <<doc, files, turn, hash, packet, call, results, runs>>

-----------------------------------------------------------------------------
(* The editor and the crash *)

Seen(d) == IF step = "running" THEN [call EXCEPT !.seen = @ \cup {d}] ELSE call

Edit ==
  /\ \/ doc.pr <= MaxEdits /\ doc' = [doc EXCEPT !.pr = @ + 1]
     \/ doc.bp <= MaxEdits /\ doc' = [doc EXCEPT !.bp = @ + 1]
  /\ call' = Seen(doc')
  /\ UNCHANGED <<files, machine, step, turn, hash, packet, results, outcome, runs>>

\* Between two writes of one freeze the process leaves half of it.
Crash ==
  /\ step # "idle"
  /\ machine' = "LOST"
  /\ Return("CRASHED")
  /\ frozen' \in {frozen,
                  [frozen EXCEPT !.pr = IF @ = 0 /\ step = "freeze proposal" THEN Half ELSE @],
                  [frozen EXCEPT !.bp = IF @ = 0 /\ step = "freeze blueprint" THEN Half ELSE @]}
  /\ UNCHANGED <<doc, art, bundle, brief, turn, hash, packet, call, results, runs>>

Next ==
  \/ Start \/ ValidateSources \/ FreezeProposal \/ FreezeBlueprint
  \/ Guard \/ BeginCall \/ EndCall \/ WriteReview
  \/ Reverify \/ WriteBundle \/ WriteBrief \/ Integrate \/ Freshness
  \/ Edit \/ Crash

Spec == Init /\ [][Next]_vars

-----------------------------------------------------------------------------
(* Properties *)

\* A bundle consists of the three durable reviews of its iteration, each about
\* the revision the bundle names, and nothing else was the proposal while any
\* of them ran: through edits at every moment, failures, crashes and resumes
\* from any machine (review_loop.py, "ONLY over three same-revision results").
BundleIsEvidence ==
  bundle # None =>
    /\ bundle.reviews = art
    /\ frozen.pr = bundle.hash.pr
    /\ \A r \in Roles : art[r].pr = bundle.hash.pr /\ \A d \in art[r].seen : d.pr = bundle.hash.pr

\* Evidence is never rewritten, and a reviewer whose review is durable is never
\* called again (review_artifacts.py, "never a silent clobber").
EvidenceKept ==
  [][ /\ \A r \in Roles : art[r] # None => art'[r] = art[r]
      /\ bundle # None => bundle' = bundle
      /\ \A d \in {"pr", "bp"} : frozen[d] # 0 => frozen'[d] = frozen[d]
      /\ step' = "running" /\ step # "running" => art[Role] = None ]_vars

\* "no failure path ever reaches INTEGRATION" (run_review_cycle).
StaleStopsShort ==
  outcome = "STALE_PROPOSAL" => machine # "INTEGRATION"

\* "bind the PAIR into the bundle" (run_review_cycle): the blueprint the bundle
\* names is the one that was there while the three reviews ran.
BundleBindsPair ==
  bundle # None /\ bundle.hash.bp # 0 =>
    \A r \in Roles : \A d \in art[r].seen : d.bp = bundle.hash.bp

=============================================================================
