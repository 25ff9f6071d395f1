-------------------------- MODULE ProposalCampaign --------------------------
(***************************************************************************)
(* Proposal mode: one worker thread runs a campaign, one panel iteration,  *)
(* the hard gates or the initial generation over a workspace directory.    *)
(* The in-memory phase machine and the durable evidence of every iteration *)
(* move together; the operator, or an editor, may change the two documents *)
(* at any time, and the process may die between any two steps.             *)
(*                                                                         *)
(* A document revision is a number standing for its SHA-256.  One step is  *)
(* the code between two model calls or two durable writes.                 *)
(***************************************************************************)
EXTENDS Naturals, Sequences, FiniteSetsExt

CONSTANTS
  MaxIterations,      \* config.max_iterations; also the highest iteration number
  MaxModelCalls,      \* config.max_model_calls
  NoImprovementLimit, \* config.no_improvement_limit
  Readiness,          \* what a consensus round may compute; Unscored: no assessment
  TargetReadiness,    \* config.target_readiness
  MayFail,            \* whether a model call or a write may fail
  MaxRuns,            \* bound: runs the operator launches
  MaxEdits,           \* bound: edits made outside the program
  MaxCrashes          \* bound: times the process dies

ASSUME CampaignAssumption ==
  /\ MaxIterations \in Nat \ {0}
  /\ MaxModelCalls \in Nat \ {0}
  /\ NoImprovementLimit \in Nat \ {0}
  /\ Readiness \subseteq Nat
  /\ TargetReadiness \in Nat \ {0}
  /\ MayFail \in BOOLEAN
  /\ MaxRuns \in Nat \ {0}
  /\ MaxEdits \in Nat
  /\ MaxCrashes \in Nat

Iterations == 1..MaxIterations
Unscored   == 0                       \* readiness is None
NoPair     == [bp |-> 0, pr |-> 0]    \* pr = 0: MASTER_PROPOSAL is empty
NoResult   == [from |-> 0, to |-> 0]
NoGates    == [outcome |-> "none", doc |-> NoPair]
NoHandoff  == [prev |-> 0, reviewed |-> 0, revised |-> 0]
NoChair    == [kind |-> "none", calls |-> 0, ready |-> Unscored]

\* The durable evidence of one iteration: 04_REVIEWS/iteration_N, 06_VERSIONS.
NoEvidence == [frozen |-> NoPair, by |-> "", reviews |-> FALSE, bundle |-> FALSE,
               clean |-> FALSE, post |-> NoPair, result |-> NoResult,
               gates |-> NoGates]

\* CAMPAIGN_STATE.json; hist keeps the last two entries of readiness_history.
NoCampaign  == [status |-> "NOT_STARTED", iter |-> 0, calls |-> 0, hist |-> <<>>,
                last |-> Unscored]

VARIABLES
  doc,      \* CURRENT_BLUEPRINT.md and MASTER_PROPOSAL.md on disk
  rev,      \* revisions produced so far
  art,      \* art[n]: evidence of iteration n
  next,     \* 05_CONTROL/NEXT_ITERATION.json
  camp,     \* 05_CONTROL/CAMPAIGN_STATE.json
  machine,  \* ProposalStateMachine.phase ("NONE": no machine recovered)
  job,      \* the ProposalWorkerAction running
  pc,       \* where the worker thread stands
  it,       \* iteration_number of the running panel or gates
  inp,      \* fingerprints taken by the running step; base: input_hash
  chair,    \* PanelChairReport: outcome, model_calls_used, readiness
  cs,       \* campaign_state, the copy in memory
  noImp,    \* no_improvement_count
  stop, pause,  \* CampaignControl flags
  late,     \* history: panels begun since STOP was requested
  runs, edits, crashes

documents == <<doc, rev, edits>>
evidence  == <<art, next>>
local     == <<it, inp, chair, cs, noImp>>
controls  == <<stop, pause, late>>
history   == <<runs, crashes>>
vars == <<documents, evidence, camp, machine, job, pc, local, controls, runs, crashes>>

NoInput == [bp |-> 0, pr |-> 0, base |-> 0]

ResetLocal == /\ it' = 0 /\ inp' = NoInput /\ chair' = NoChair
              /\ cs' = NoCampaign /\ noImp' = 0
              /\ stop' = FALSE /\ pause' = FALSE /\ late' = 0

Init ==
  /\ doc \in {[bp |-> 1, pr |-> 0], [bp |-> 1, pr |-> 1]}
  /\ rev = 1
  /\ art = [n \in Iterations |-> NoEvidence]
  /\ next = NoHandoff /\ camp = NoCampaign
  /\ machine = "NONE" /\ job = "none" /\ pc = "idle"
  /\ it = 0 /\ inp = NoInput /\ chair = NoChair /\ cs = NoCampaign /\ noImp = 0
  /\ stop = FALSE /\ pause = FALSE /\ late = 0
  /\ runs = 0 /\ edits = 0 /\ crashes = 0

-----------------------------------------------------------------------------
(* What the durable evidence says: recovery, the next iteration, freshness. *)

MaxOr0(S) == IF S = {} THEN 0 ELSE Max(S)

Latest   == MaxOr0({n \in Iterations : art[n].frozen # NoPair})
Reviewed == MaxOr0({n \in Iterations : art[n].reviews})

\* Mutant: only the proposal is compared.
ReviewCurrent_ProposalOnly == doc.pr = art[Reviewed].frozen.pr

\* Freshness compares both documents with the latest review bundle.
ReviewCurrent == doc = art[Reviewed].frozen

\* Mutant: the revised hash of the handoff is not compared.
HandoffVerdict_AnyRevision(n) ==
  CASE next = NoHandoff -> IF doc.pr # art[n].frozen.pr THEN "ambiguous" ELSE "absent"
    [] next.prev = n    -> "valid"
    [] OTHER            -> "ambiguous"

\* Does NEXT_ITERATION.json explain the position after iteration n?
HandoffVerdict(n) ==
  LET changed == doc.pr # art[n].frozen.pr IN
  CASE next = NoHandoff  -> IF changed THEN "ambiguous" ELSE "absent"
    [] next.prev = n     -> IF next.revised = doc.pr /\ next.reviewed = art[n].frozen.pr
                              THEN "valid" ELSE "ambiguous"
    [] next.prev < n     -> IF ~art[next.prev + 1].bundle \/ changed
                              THEN "ambiguous" ELSE "consumed"
    [] OTHER             -> "ambiguous"

\* Mutant: the name of the outcome is taken for the phase.
PhaseOfGates_ByName == [COMPLETE |-> "COMPLETE", REVISION_REQUIRED |-> "REVISION_REQUIRED",
                        BLOCKED |-> "BLOCKED", INCOMPLETE |-> "INCOMPLETE"]

PhaseOfGates == [COMPLETE |-> "COMPLETE", REVISION_REQUIRED |-> "REVISION_REQUIRED",
                 BLOCKED |-> "BLOCKED", INCOMPLETE |-> "HARD_GATE_VALIDATION"]

Ambiguous == "NONE"     \* an ambiguous recovery fabricates no machine

Recovered ==
  LET n == Latest IN
  CASE n = 0                            -> "IDLE"
    [] n # 0 /\ art[n].gates # NoGates  -> PhaseOfGates[art[n].gates.outcome]
    [] n # 0 /\ art[n].gates = NoGates /\ ~art[n].bundle -> Ambiguous
    [] n # 0 /\ art[n].gates = NoGates /\ art[n].bundle /\ art[n].result = NoResult
                                        -> "INTEGRATION"
    [] OTHER -> CASE HandoffVerdict(n) = "valid"     -> "REVISION_REQUIRED"
                  [] HandoffVerdict(n) = "ambiguous" -> Ambiguous
                  [] OTHER                           -> "HARD_GATE_VALIDATION"

\* The iteration number RUN PANEL and RUN HARD GATES use.
NextIterationHint ==
  LET n == Latest
      handedOff == /\ n # 0 /\ art[n].gates = NoGates /\ art[n].bundle
                   /\ art[n].result # NoResult /\ HandoffVerdict(n) = "valid"
  IN IF handedOff THEN n + 1 ELSE IF n = 0 THEN 1 ELSE n

-----------------------------------------------------------------------------
(* The operator. *)

Idle == pc = "idle"
\* Mutant: a panel may also be entered where an integration was interrupted.
PanelPhases_Interrupted == {"IDLE", "REVISION_REQUIRED", "INTEGRATION"}

PanelPhases == {"IDLE", "REVISION_REQUIRED"}
Resumable   == {"PAUSED", "WAITING_FOR_OPERATOR", "STOPPED", "BOUND_REACHED", "CONVERGED"}

Recover ==
  /\ Idle /\ machine = "NONE" /\ Recovered # Ambiguous
  /\ machine' = Recovered
  /\ UNCHANGED <<documents, evidence, camp, job, pc, local, controls, history>>

Launch(what, at) ==
  /\ Idle /\ machine # "NONE" /\ runs < MaxRuns
  /\ runs' = runs + 1
  /\ job' = what /\ pc' = at
  /\ stop' = FALSE /\ pause' = FALSE /\ late' = 0
  /\ UNCHANGED <<documents, evidence, camp, machine, crashes>>

StartCampaign ==
  /\ camp.status \notin {"RUNNING", "PAUSED"}
  /\ Launch("campaign", "begin")
  /\ cs' = [NoCampaign EXCEPT !.status = "RUNNING"]
  /\ UNCHANGED <<it, inp, chair, noImp>>

ResumeCampaign ==
  /\ camp.status \in Resumable
  /\ Launch("campaign", "begin")
  /\ cs' = [camp EXCEPT !.status = "RUNNING"]
  /\ UNCHANGED <<it, inp, chair, noImp>>

RunPanel ==
  /\ machine \in PanelPhases /\ doc.pr # 0
  /\ NextIterationHint \in Iterations
  /\ Launch("panel", "enter")
  /\ it' = NextIterationHint
  /\ UNCHANGED <<inp, chair, cs, noImp>>

RunHardGates ==
  /\ machine = "HARD_GATE_VALIDATION"
  /\ NextIterationHint \in Iterations
  /\ Launch("gates", "gates")
  /\ it' = NextIterationHint
  /\ UNCHANGED <<inp, chair, cs, noImp>>

GenerateInitial ==
  /\ machine = "IDLE" /\ doc.pr = 0
  /\ Launch("generate", "generate")
  /\ UNCHANGED local

RequestStop ==
  /\ job = "campaign" /\ ~stop
  /\ stop' = TRUE
  /\ UNCHANGED <<documents, evidence, camp, machine, job, pc, local, pause, late, history>>

RequestPause ==
  /\ job = "campaign" /\ ~pause
  /\ pause' = TRUE
  /\ UNCHANGED <<documents, evidence, camp, machine, job, pc, local, stop, late, history>>

\* An editor saves another revision of one of the documents.
Edit ==
  /\ edits < MaxEdits
  /\ edits' = edits + 1 /\ rev' = rev + 1
  /\ \/ doc' = [doc EXCEPT !.pr = rev + 1]
     \/ doc' = [doc EXCEPT !.bp = rev + 1]
  /\ UNCHANGED <<evidence, camp, machine, job, pc, local, controls, history>>

-----------------------------------------------------------------------------
(* The worker: how a run ends. *)

GoesIdle == pc' = "idle" /\ job' = "none" /\ ResetLocal

\* run_campaign._finish: the status is persisted with the state in memory.
Finish(state, status) ==
  /\ camp' = [state EXCEPT !.status = status]
  /\ GoesIdle

\* An exception leaves run(): nothing more is persisted.
Dies == GoesIdle /\ UNCHANGED camp

\* run_panel_chair_iteration returns.  "text": an error text instead of an outcome.
ChairReturns(kind, calls, ready) ==
  IF job = "campaign"
  THEN /\ chair' = [kind |-> kind, calls |-> calls, ready |-> ready]
       /\ pc' = "account" /\ inp' = NoInput
       /\ UNCHANGED <<camp, job, it, cs, noImp, controls>>
  ELSE GoesIdle /\ UNCHANGED camp

PanelFails == ChairReturns("failed", 3, Unscored)

Continue(where) == pc' = where /\ UNCHANGED <<camp, job, it, cs, noImp, controls>>

-----------------------------------------------------------------------------
(* The worker: campaign start and initial generation. *)

Begin ==
  /\ pc = "begin"
  /\ IF doc.pr = 0 THEN camp' = cs /\ pc' = "generate"
                   ELSE UNCHANGED camp /\ pc' = "loop"
  /\ UNCHANGED <<documents, evidence, machine, job, local, controls, history>>

GenerationFails ==
  IF job = "campaign" THEN \E counted \in {0, 4} :
                             Finish([cs EXCEPT !.calls = @ + counted], "FAILED")
                      ELSE GoesIdle /\ UNCHANGED camp

GenerationDone ==
  IF job # "campaign" THEN GoesIdle /\ UNCHANGED camp
  ELSE LET counted == [cs EXCEPT !.calls = @ + 4] IN
       IF stop THEN Finish(counted, "STOPPED")
       ELSE IF pause THEN Finish(counted, "PAUSED")
       ELSE /\ cs' = counted /\ camp' = counted
            /\ pc' = "loop"
            /\ UNCHANGED <<job, it, inp, chair, noImp, controls>>

Generated(bp) == /\ doc' = [bp |-> bp, pr |-> rev + 1] /\ rev' = rev + 1
                 /\ UNCHANGED edits

Generate ==
  /\ pc = "generate"
  /\ \/ /\ machine # "IDLE" \/ doc.pr # 0 \/ MayFail    \* refused, or a call failed
        /\ GenerationFails
        /\ UNCHANGED <<documents, machine>>
     \/ /\ machine = "IDLE" /\ doc.pr = 0 /\ MayFail     \* the pair commit failed
        /\ GenerationFails
        /\ machine' = "INTEGRATION"
        /\ UNCHANGED documents
     \/ /\ machine = "IDLE" /\ doc.pr = 0
        /\ \E bp \in {doc.bp, rev + 1} : Generated(bp)
        /\ GenerationDone \/ (MayFail /\ GenerationFails)  \* its record may not be written
        /\ UNCHANGED machine
  /\ UNCHANGED <<evidence, history>>

-----------------------------------------------------------------------------
(* The worker: the campaign loop. *)

\* Mutant: the calls are not bounded.
BoundBreached_NoCallBound == cs.iter >= MaxIterations

BoundBreached ==
  cs.iter >= MaxIterations \/ cs.calls >= MaxModelCalls

\* MAX_HOURS may pass at any loop head.
LoopHead ==
  /\ pc = "loop"
  /\ \/ Finish(cs, "BOUND_REACHED")
     \/ /\ ~BoundBreached
        /\ camp' = cs
        /\ it' = cs.iter + 1 /\ chair' = NoChair
        /\ late' = IF stop THEN late + 1 ELSE late
        /\ pc' = "enter"
        /\ UNCHANGED <<job, inp, cs, noImp, stop, pause>>
  /\ UNCHANGED <<documents, evidence, machine, history>>

LastTwo(s) == IF Len(s) <= 2 THEN s ELSE SubSeq(s, Len(s) - 1, Len(s))

\* Readiness is compared in steps of at least half a point.
Improvement(hist, count) ==
  IF Len(hist) = 2 /\ hist[2] <= hist[1] THEN count + 1 ELSE 0

Accounted ==
  [cs EXCEPT !.calls = @ + chair.calls, !.iter = it,
             !.last = IF chair.ready = Unscored THEN @ ELSE chair.ready,
             !.hist = IF chair.ready = Unscored THEN @
                      ELSE LastTwo(Append(@, chair.ready))]

Account ==
  /\ pc = "account"
  /\ CASE chair.kind = "blocked" -> Finish(Accounted, "WAITING_FOR_OPERATOR")
       [] chair.kind = "failed"  -> Finish(Accounted, "FAILED")
       [] OTHER ->
            /\ cs' = Accounted
            /\ noImp' = Improvement(Accounted.hist, noImp)
            /\ IF machine = "HARD_GATE_VALIDATION"
               THEN camp' = Accounted /\ pc' = "gates"
               ELSE UNCHANGED camp /\ pc' = "tail"
            /\ UNCHANGED <<job, it, inp, chair, controls>>
  /\ UNCHANGED <<documents, evidence, machine, history>>

\* Mutant: only PAUSE is sampled at the boundary.
TailStatus_StopIgnored ==
  IF noImp >= NoImprovementLimit THEN "CONVERGED"
  ELSE IF pause                  THEN "PAUSED"
  ELSE "RUNNING"

TailStatus ==
  IF /\ cs.last # Unscored /\ cs.last >= TargetReadiness
     /\ machine = "HARD_GATE_VALIDATION"      THEN "WAITING_FOR_OPERATOR"
  ELSE IF noImp >= NoImprovementLimit         THEN "CONVERGED"
  ELSE IF stop                                THEN "STOPPED"
  ELSE IF pause                               THEN "PAUSED"
  ELSE "RUNNING"

IterationDone ==
  /\ pc = "tail"
  /\ IF TailStatus # "RUNNING" THEN Finish(cs, TailStatus)
     ELSE /\ camp' = cs /\ pc' = "loop"
          /\ UNCHANGED <<job, local, controls>>
  /\ UNCHANGED <<documents, evidence, machine, history>>

-----------------------------------------------------------------------------
(* The worker: one panel iteration. *)

Author == IF job = "campaign" THEN "campaign" ELSE "rev"   \* proposal_revision

\* Mutant: the sidecar is compared, the frozen bytes are not.
CanFreeze_RevisionOnly(n) == art[n].frozen = NoPair \/ art[n].by = Author

\* 06_VERSIONS: a frozen version is reused only by the same revision and bytes.
CanFreeze(n) == art[n].frozen = NoPair \/ (art[n].frozen = doc /\ art[n].by = Author)

Entered == IF machine = "IDLE" THEN "SOURCE_VALIDATION" ELSE "SCIENTIFIC_REVIEW"

EnterPanel ==
  /\ pc = "enter"
  /\ \/ /\ machine \notin PanelPhases                      \* refused
        /\ PanelFails
        /\ UNCHANGED <<machine, art>>
     \/ /\ machine \in PanelPhases /\ (MayFail \/ doc.pr = 0)  \* sources or budget
        /\ PanelFails
        /\ machine' \in IF machine = "IDLE" THEN {"FAILED", "SOURCE_VALIDATION"}
                                            ELSE {"SCIENTIFIC_REVIEW"}
        /\ UNCHANGED art
     \/ /\ machine \in PanelPhases /\ doc.pr # 0 /\ ~CanFreeze(it)
        /\ PanelFails
        /\ machine' = Entered
        /\ UNCHANGED art
     \/ /\ machine \in PanelPhases /\ doc.pr # 0 /\ CanFreeze(it)
        /\ art' = [art EXCEPT ![it].frozen = doc, ![it].by = Author]
        /\ machine' = "SCIENTIFIC_REVIEW"
        /\ inp' = [bp |-> doc.bp, pr |-> doc.pr, base |-> doc.pr]
        /\ Continue("reviews") /\ UNCHANGED chair
  /\ UNCHANGED <<documents, next, history>>

\* The three reviews have joined: artifacts, then the walk of the graph.
Reviews ==
  /\ pc = "reviews"
  /\ \/ /\ MayFail \/ doc.pr # inp.pr \/ art[it].reviews  \* failed, stale, conflicting
        /\ PanelFails
        /\ UNCHANGED <<machine, art>>
     \/ /\ doc.pr = inp.pr                                \* a reviewer says BLOCKED
        /\ art' = [art EXCEPT ![it].reviews = TRUE]
        /\ machine' = "BLOCKED"
        /\ ChairReturns("blocked", 3, Unscored)
     \/ /\ doc.pr = inp.pr
        /\ art' = [art EXCEPT ![it].reviews = TRUE]
        /\ Continue("bundle") /\ UNCHANGED <<machine, inp, chair>>
  /\ UNCHANGED <<documents, next, history>>

\* The consensus round fingerprints the blueprint again before its calls.
Bundle ==
  /\ pc = "bundle"
  /\ machine' = "INTEGRATION"
  /\ \/ art[it].bundle /\ PanelFails /\ UNCHANGED art
     \/ /\ ~art[it].bundle
        /\ \E clean \in BOOLEAN :
             art' = [art EXCEPT ![it].bundle = TRUE, ![it].clean = clean]
        /\ \/ MayFail /\ PanelFails                       \* the docket is not written
           \/ /\ inp' = [inp EXCEPT !.bp = doc.bp]
              /\ Continue("consensus") /\ UNCHANGED chair
  /\ UNCHANGED <<documents, next, history>>

Unchanged == doc = [bp |-> inp.bp, pr |-> inp.pr]

Consensus ==
  /\ pc = "consensus"
  /\ \/ /\ MayFail \/ ~Unchanged
        /\ PanelFails
     \/ /\ Unchanged
        /\ \E r \in Readiness : chair' = [NoChair EXCEPT !.ready = r]
        /\ Continue("chair") /\ UNCHANGED inp
  /\ UNCHANGED <<documents, evidence, machine, history>>

-----------------------------------------------------------------------------
(* The worker: the chair's integration of one iteration. *)

\* Every refusal of run_integration comes back as its error text.
IntegrationFails == ChairReturns("text", 7, chair.ready)

BeginIntegration ==
  /\ pc = "chair"
  /\ \/ /\ MayFail \/ doc.pr # art[it].frozen.pr           \* STALE_INPUT
        /\ IntegrationFails
        /\ UNCHANGED <<art, machine>>
     \/ /\ doc.pr = art[it].frozen.pr /\ art[it].clean     \* zero-AI bypass
        /\ \/ /\ art' = [art EXCEPT ![it].result = [from |-> doc.pr, to |-> doc.pr]]
              /\ machine' = "HARD_GATE_VALIDATION"
              /\ Continue("fresh") /\ UNCHANGED <<inp, chair>>
           \/ MayFail /\ Dies /\ UNCHANGED <<art, machine>>
     \/ /\ doc.pr = art[it].frozen.pr /\ ~art[it].clean
        /\ inp' = [bp |-> doc.bp, pr |-> doc.pr, base |-> doc.pr]
        /\ Continue("answer") /\ UNCHANGED <<art, machine, chair>>
  /\ UNCHANGED <<documents, next, history>>

\* The answer is parsed and both documents are fingerprinted before any write.
Answer ==
  /\ pc = "answer"
  /\ \/ (MayFail \/ ~Unchanged) /\ IntegrationFails
     \/ Unchanged /\ Continue("commit") /\ UNCHANGED <<inp, chair>>
  /\ UNCHANGED <<documents, evidence, machine, history>>

\* commit_document_pair: both documents are replaced, or neither is.  A
\* proposal the chair left alone is rewritten from the prompt, a blueprint it
\* left alone from the file.
CommitPair ==
  /\ pc = "commit"
  /\ \/ MayFail /\ IntegrationFails /\ UNCHANGED documents
     \/ \E newBp, newPr \in BOOLEAN :
          LET pair == [bp |-> IF newBp THEN rev + 1 ELSE doc.bp,
                       pr |-> IF newPr THEN rev + 1 ELSE inp.pr] IN
          /\ doc' = pair
          /\ rev' = IF newBp \/ newPr THEN rev + 1 ELSE rev
          /\ inp' = [bp |-> pair.bp, pr |-> pair.pr, base |-> inp.base]
          /\ Continue("post") /\ UNCHANGED <<edits, chair>>
  /\ UNCHANGED <<evidence, machine, history>>

\* Mutant: the version frozen is the file on disk.
Committed_FromDisk == doc

\* The version frozen after the integration is the text that was committed.
Committed == [bp |-> inp.bp, pr |-> inp.pr]

PostFreeze ==
  /\ pc = "post"
  /\ \/ /\ MayFail \/ art[it].post # NoPair
        /\ machine' = "HARD_GATE_VALIDATION"
        /\ IntegrationFails
        /\ UNCHANGED art
     \/ /\ art[it].post = NoPair
        /\ art' = [art EXCEPT ![it].post = Committed]
        /\ Continue("result") /\ UNCHANGED <<machine, inp, chair>>
  /\ UNCHANGED <<documents, next, history>>

RecordResult ==
  /\ pc = "result"
  /\ \/ MayFail /\ Dies /\ UNCHANGED <<art, machine>>
     \/ /\ art' = [art EXCEPT ![it].result = [from |-> inp.base, to |-> inp.pr]]
        /\ machine' = "HARD_GATE_VALIDATION"
        /\ Continue("fresh") /\ UNCHANGED <<inp, chair>>
  /\ UNCHANGED <<documents, next, history>>

\* Freshness after integration, and the handoff when the pair changed.
IntegrationCalls == IF art[it].clean THEN 6 ELSE 7

Freshness ==
  LET payload == [prev |-> it, reviewed |-> art[Reviewed].frozen.pr, revised |-> doc.pr] IN
  /\ pc = "fresh"
  /\ \/ /\ ReviewCurrent
        /\ ChairReturns("gates", IntegrationCalls, chair.ready)
        /\ UNCHANGED <<machine, next>>
     \/ /\ MayFail \/ (~ReviewCurrent /\ (art[it].clean \/ next \notin {NoHandoff, payload}))
        /\ ChairReturns("failed", IntegrationCalls, chair.ready)
        /\ UNCHANGED <<machine, next>>
     \/ /\ ~ReviewCurrent /\ ~art[it].clean
        /\ next \in {NoHandoff, payload}
        /\ next' = payload
        /\ machine' = "REVISION_REQUIRED"
        /\ ChairReturns("next", IntegrationCalls, chair.ready)
  /\ UNCHANGED <<documents, art, history>>

-----------------------------------------------------------------------------
(* The worker: the hard gates. *)

\* Mutant: an INCOMPLETE run of the gates is repeated at once.
GatesReturn_Retry(outcome) ==
  IF outcome = "INCOMPLETE" THEN Continue("gates") /\ inp' = NoInput /\ UNCHANGED chair
  ELSE IF job # "campaign" THEN GoesIdle /\ UNCHANGED camp
  ELSE Finish(cs, "WAITING_FOR_OPERATOR")

GatesReturn(outcome) ==
  IF job # "campaign" THEN GoesIdle /\ UNCHANGED camp
  ELSE CASE outcome = "COMPLETE" -> Finish(cs, "COMPLETE")
         [] outcome = "BLOCKED"  -> Finish(cs, "WAITING_FOR_OPERATOR")
         [] OTHER                -> Continue("tail") /\ inp' = NoInput /\ UNCHANGED chair

Gates ==
  /\ pc = "gates"
  /\ \/ /\ MayFail \/ ~art[Reviewed].bundle
        /\ GatesReturn("RUN_FAILED")
        /\ UNCHANGED machine
     \/ /\ art[Reviewed].bundle /\ ~ReviewCurrent
        /\ machine' = "REVISION_REQUIRED"
        /\ GatesReturn("STALE_REVIEW")
     \/ /\ art[Reviewed].bundle /\ ReviewCurrent
        /\ inp' = [bp |-> doc.bp, pr |-> doc.pr, base |-> doc.pr]
        /\ Continue("verdict") /\ UNCHANGED <<machine, chair>>
  /\ UNCHANGED <<documents, evidence, history>>

\* The operator's evidence document decides; an audit record is never replaced.
Verdict ==
  /\ pc = "verdict"
  /\ \/ /\ machine' = "BLOCKED"                         \* evidence missing or stale
        /\ GatesReturn("BLOCKED")
        /\ UNCHANGED art
     \/ /\ MayFail \/ art[it].gates # NoGates            \* another record exists
        /\ GatesReturn("ARTIFACT_CONFLICT")
        /\ UNCHANGED <<machine, art>>
     \/ \E outcome \in DOMAIN PhaseOfGates :
          LET record == [outcome |-> outcome, doc |-> [bp |-> inp.bp, pr |-> inp.pr]] IN
          /\ art[it].gates \in {NoGates, record}
          /\ art' = [art EXCEPT ![it].gates = record]
          /\ \/ machine' = PhaseOfGates[outcome] /\ GatesReturn(outcome)
             \/ /\ MayFail /\ outcome = "REVISION_REQUIRED"   \* feedback not written
                /\ machine' = "BLOCKED" /\ GatesReturn("ARTIFACT_CONFLICT")
  /\ UNCHANGED <<documents, next, history>>

-----------------------------------------------------------------------------
Crash ==
  /\ crashes < MaxCrashes
  /\ crashes' = crashes + 1
  /\ machine' = "NONE" /\ Dies
  /\ UNCHANGED <<documents, evidence, runs>>

OperatorStep ==
  \/ Recover \/ StartCampaign \/ ResumeCampaign \/ RunPanel \/ RunHardGates
  \/ GenerateInitial \/ RequestStop \/ RequestPause

WorkerStep ==
  \/ Begin \/ Generate \/ LoopHead \/ EnterPanel \/ Reviews \/ Bundle \/ Consensus
  \/ BeginIntegration \/ Answer \/ CommitPair \/ PostFreeze \/ RecordResult
  \/ Freshness \/ Account \/ Gates \/ Verdict \/ IterationDone

Next == OperatorStep \/ WorkerStep \/ Edit \/ Crash

Spec     == Init /\ [][Next]_vars
FairSpec == Spec /\ WF_vars(WorkerStep)
-----------------------------------------------------------------------------
(* Properties. *)

Pairs == [bp : 0..rev, pr : 0..rev]

Evidence == [frozen : Pairs, by : {"", "campaign", "rev"}, reviews : BOOLEAN,
             bundle : BOOLEAN, clean : BOOLEAN, post : Pairs,
             result : [from : 0..rev, to : 0..rev],
             gates : [outcome : DOMAIN PhaseOfGates \cup {"none"}, doc : Pairs]]

Phases == PanelPhases \cup {"NONE", "SOURCE_VALIDATION", "SCIENTIFIC_REVIEW", "INTEGRATION",
          "HARD_GATE_VALIDATION", "COMPLETE", "BLOCKED", "FAILED"}

Campaigns == [status : Resumable \cup {"NOT_STARTED", "RUNNING", "COMPLETE", "FAILED"},
              iter : 0..MaxIterations, calls : Nat,
              hist : Seq(Readiness), last : Readiness \cup {Unscored}]

\* Every variable keeps its type: the fields of the evidence files, of
\* CAMPAIGN_STATE.json, of the phase machine and of the worker.
TypeOK ==
  /\ doc \in Pairs /\ rev \in Nat
  /\ art \in [Iterations -> Evidence]
  /\ next \in [prev : 0..MaxIterations, reviewed : 0..rev, revised : 0..rev]
  /\ camp \in Campaigns /\ cs \in Campaigns
  /\ machine \in Phases
  /\ job \in {"none", "campaign", "panel", "gates", "generate"}
  /\ pc \in {"idle", "begin", "generate", "loop", "enter", "reviews", "bundle",
             "consensus", "chair", "answer", "commit", "post", "result", "fresh",
             "account", "gates", "verdict", "tail"}
  /\ it \in 0..MaxIterations
  /\ inp \in [bp : 0..rev, pr : 0..rev, base : 0..rev]
  /\ chair \in [kind : {"none", "blocked", "failed", "text", "gates", "next"},
                calls : 0..7, ready : Readiness \cup {Unscored}]
  /\ noImp \in Nat
  /\ stop \in BOOLEAN /\ pause \in BOOLEAN /\ late \in Nat
  /\ runs \in 0..MaxRuns /\ edits \in 0..MaxEdits /\ crashes \in 0..MaxCrashes

\* run_hard_gates: an audit record of iteration n, COMPLETE included, is about
\* exactly the pair of documents the panel reviewed in n, whatever was edited,
\* integrated or restarted in between.
GatesJudgeReviewedPair ==
  \A n \in Iterations : art[n].gates # NoGates =>
    art[n].bundle /\ art[n].gates.doc = art[n].frozen

\* The evidence of an iteration is a chain: no bundle without reviews of a frozen
\* pair, no result without a bundle, a result starts from the reviewed revision
\* and ends in the one frozen after the integration (or changes nothing).
EvidenceChain ==
  \A n \in Iterations :
    /\ art[n].reviews => art[n].frozen # NoPair
    /\ art[n].bundle => art[n].reviews
    /\ art[n].post # NoPair => art[n].bundle
    /\ art[n].result # NoResult =>
         /\ art[n].bundle
         /\ art[n].result.from = art[n].frozen.pr
         /\ IF art[n].clean THEN art[n].result.to = art[n].frozen.pr
                            ELSE art[n].result.to = art[n].post.pr

\* Nothing a run does rewrites review evidence: frozen versions, bundles,
\* integration results and gate records, once written, stay as they are.
EvidenceIsImmutable ==
  [][\A n \in Iterations :
       /\ art[n].frozen # NoPair => art'[n].frozen = art[n].frozen /\ art'[n].by = art[n].by
       /\ art[n].bundle => art'[n].bundle /\ art'[n].clean = art[n].clean
       /\ art[n].post # NoPair => art'[n].post = art[n].post
       /\ art[n].result # NoResult => art'[n].result = art[n].result
       /\ art[n].gates # NoGates => art'[n].gates = art[n].gates]_vars

\* load_workspace_status: a restart that recovers HARD_GATE_VALIDATION before any
\* gate ran finds the proposal the panel reviewed, and one that recovers
\* REVISION_REQUIRED from a handoff leads to an iteration nobody has begun.
RecoveryIsHonest ==
  LET n == Latest IN
  n # 0 /\ art[n].gates = NoGates =>
    /\ Recovered = "HARD_GATE_VALIDATION" =>
         art[n].result # NoResult /\ doc.pr = art[n].frozen.pr
    /\ Recovered = "REVISION_REQUIRED" =>
         /\ NextIterationHint = n + 1
         /\ doc.pr = next.revised /\ next.reviewed = art[n].frozen.pr

\* The campaign stays within its bounds through every pause, resume and restart:
\* it begins no iteration past max_iterations, and the last one begun may carry
\* the call count at most one iteration (7 calls) past max_model_calls - 1.
CampaignWithinBounds ==
  \A c \in {camp, cs} : c.iter <= MaxIterations /\ c.calls < MaxModelCalls + 7

\* After STOP at most the iteration the loop had already decided on begins.
StopCostsOneIteration == late <= 1

\* The walk of the phase machine: transition_to raises on any other edge, in the
\* middle of the runtime, after the durable writes were made.
ProposalEdges ==
  [ IDLE                 |-> {"SOURCE_VALIDATION", "SCIENTIFIC_REVIEW", "FAILED", "INTEGRATION"},
    SOURCE_VALIDATION    |-> {"SCIENTIFIC_REVIEW", "BLOCKED", "FAILED"},
    SCIENTIFIC_REVIEW    |-> {"INTEGRATION", "BLOCKED", "FAILED"},
    INTEGRATION          |-> {"HARD_GATE_VALIDATION", "BLOCKED", "FAILED"},
    HARD_GATE_VALIDATION |-> {"COMPLETE", "REVISION_REQUIRED", "BLOCKED", "FAILED"},
    REVISION_REQUIRED    |-> {"SCIENTIFIC_REVIEW", "BLOCKED", "FAILED"},
    BLOCKED              |-> {"SOURCE_VALIDATION", "SCIENTIFIC_REVIEW",
                              "HARD_GATE_VALIDATION", "FAILED"},
    COMPLETE             |-> {},
    FAILED               |-> {} ]

\* No step of the runtime asks the machine for an edge the graph does not have.
WalksLegalEdges ==
  [][machine' = machine \/ machine = "NONE" \/ machine' = "NONE"
     \/ machine' \in ProposalEdges[machine]]_vars

\* campaign.py "NEVER an infinite loop": every run comes to its stop boundary.
RunsEnd == pc # "idle" ~> pc = "idle"

\* panel_chair.py:14, "changed proposal => revision handoff": with every call and
\* every write succeeding and nobody else touching the files, an iteration whose
\* integration changed the pair ends in REVISION_REQUIRED.
ChangeIsHandedOff ==
  [][pc = "fresh" /\ pc' # "fresh" /\ ~ReviewCurrent => machine' = "REVISION_REQUIRED"]_vars

\* proposal_mode.py:2194, the hint is "the iteration number the NEXT operation
\* legitimately uses": a panel that may be started is not aimed at an iteration
\* whose review bundle already exists.
HintIsFree ==
  Idle /\ machine \in PanelPhases /\ NextIterationHint \in Iterations
    => ~art[NextIterationHint].bundle

\* campaign.py:29, FAILED is the operational failure: a chair that returned an
\* error is not followed by another panel.
ErrorsStopTheCampaign ==
  [][pc = "loop" /\ pc' = "enter" => chair.kind # "text"]_vars
=============================================================================
