----------------------- MODULE ProposalCampaignProofs -----------------------
(***************************************************************************)
(* Proofs about ProposalCampaign, for any number of iterations, calls,     *)
(* edits and crashes: what the evidence of an iteration says, that nothing *)
(* rewrites it, that the gates judge the pair the panel reviewed, and that *)
(* a campaign keeps its bounds.                                            *)
(***************************************************************************)
EXTENDS ProposalCampaign, SequenceTheorems, WellFoundedInduction, TLAPS

Frozen(n) == art[n].frozen # NoPair

\* The worker has frozen the pair of iteration it, resp. written its bundle.
BeforeBundle == {"reviews", "bundle"}
Integrating  == {"answer", "commit", "post", "result"}
AfterBundle  == Integrating \cup {"consensus", "chair"}
AfterFreeze  == BeforeBundle \cup AfterBundle \cup {"fresh"}
Iterating    == AfterFreeze \cup {"enter", "account"}

\* No iteration above n has begun.
IsLast(n) == \A k \in Iterations : k > n => ~Frozen(k)

\* What the evidence files say of each other and of the documents.
ChainInv ==
  /\ EvidenceChain /\ GatesJudgeReviewedPair
  /\ \A m, n \in Iterations : m < n /\ Frozen(n) => art[m].bundle
  /\ \A n \in Iterations : Frozen(n) => art[n].frozen.pr # 0 /\ doc.pr # 0
  /\ \A n \in Iterations : art[n].gates.outcome = "none" => art[n].gates = NoGates

\* What the phase machine, and a handoff, say of the evidence.
StandingInv ==
  /\ machine \in {"IDLE", "REVISION_REQUIRED", "HARD_GATE_VALIDATION"} =>
       \A n \in Iterations : Frozen(n) => art[n].bundle
  /\ machine = "HARD_GATE_VALIDATION" => \E n \in Iterations : Frozen(n)
  /\ next # NoHandoff =>
       /\ next.prev \in Iterations /\ art[next.prev].result # NoResult
       /\ art[next.prev].gates = NoGates
       /\ machine = "HARD_GATE_VALIDATION" => ~IsLast(next.prev)

\* Where the worker stands.
JobInv ==
  /\ pc = "idle" => job = "none"
  /\ pc \in {"begin", "loop", "account", "tail"} => job = "campaign"
  /\ pc \in Iterating => job \in {"campaign", "panel"}
  /\ pc \in {"gates", "verdict"} => job \in {"campaign", "gates"}
  /\ pc = "generate" => job \in {"campaign", "generate"}

MachineInv ==
  /\ pc \in BeforeBundle => machine = "SCIENTIFIC_REVIEW"
  /\ pc \in AfterBundle => machine = "INTEGRATION"
  /\ pc \in {"fresh", "gates", "verdict"} => machine = "HARD_GATE_VALIDATION"

PlaceInv ==
  /\ pc \in Iterating => it \in Iterations /\ \A m \in Iterations : m < it => Frozen(m)
  /\ pc \in AfterFreeze => Frozen(it) /\ inp.pr # 0
  /\ pc = "bundle" => art[it].reviews
  /\ pc \in AfterBundle \cup {"fresh", "gates", "verdict"} =>
       it \in Iterations /\ art[it].bundle /\ IsLast(it)
  /\ pc \in AfterBundle => art[it].result = NoResult
  /\ pc \in AfterBundle \cup {"fresh"} => art[it].gates = NoGates
  /\ pc \in Integrating => ~art[it].clean /\ inp.base = art[it].frozen.pr
  /\ pc = "result" => art[it].post.pr = inp.pr
  /\ pc = "fresh" => art[it].result # NoResult
  /\ pc = "verdict" => art[it].frozen = [bp |-> inp.bp, pr |-> inp.pr]
  /\ pc = "account" /\ chair.kind # "failed" => Frozen(it)
  /\ pc = "account" /\ chair.kind \notin {"failed", "blocked"} => art[it].bundle /\ IsLast(it)

\* The iterations a campaign has counted have begun, and its calls are bounded.
Counted(c) == /\ \A m \in Iterations : m <= c.iter => Frozen(m)
              /\ c.calls # 0 => doc.pr # 0

BoundsInv ==
  /\ camp.status # "FAILED" => Counted(camp)
  /\ job = "campaign" => Counted(cs)
  /\ camp.calls < MaxModelCalls + 7 /\ cs.calls < MaxModelCalls + 7
  /\ job = "campaign" /\ pc \in Iterating => cs.calls < MaxModelCalls
  /\ job = "campaign" /\ pc = "generate" => cs.calls = 0

StopInv ==
  /\ late <= 1 /\ (~stop => late = 0)
  /\ pc \in {"idle", "begin", "generate", "loop"} => late = 0

\* TypeOK in three parts: the files, the campaign, the worker and its machine.
FileTypes ==
  /\ doc \in Pairs /\ rev \in Nat /\ art \in [Iterations -> Evidence]
  /\ next \in [prev : 0..MaxIterations, reviewed : 0..rev, revised : 0..rev]

CampTypes == camp \in Campaigns /\ cs \in Campaigns

Places == Iterating \cup {"idle", "begin", "generate", "loop", "gates", "verdict", "tail"}

RunTypes ==
  /\ machine \in Phases /\ pc \in Places
  /\ job \in {"none", "campaign", "panel", "gates", "generate"}
  /\ it \in 0..MaxIterations /\ inp \in [bp : 0..rev, pr : 0..rev, base : 0..rev]
  /\ chair \in [kind : {"none", "blocked", "failed", "text", "gates", "next"},
                calls : 0..7, ready : Readiness \cup {Unscored}]
  /\ noImp \in Nat /\ stop \in BOOLEAN /\ pause \in BOOLEAN /\ late \in Nat
  /\ runs \in 0..MaxRuns /\ edits \in 0..MaxEdits /\ crashes \in 0..MaxCrashes

CampaignInv ==
  /\ FileTypes /\ CampTypes /\ RunTypes
  /\ ChainInv /\ StandingInv /\ JobInv /\ MachineInv /\ PlaceInv /\ BoundsInv /\ StopInv

-----------------------------------------------------------------------------
(* The iterations *)

LEMMA Numbers ==
  /\ MaxIterations \in Nat \ {0} /\ MaxModelCalls \in Nat \ {0} /\ NoImprovementLimit \in Nat \ {0}
  /\ Readiness \subseteq Nat /\ TargetReadiness \in Nat \ {0} /\ MayFail \in BOOLEAN
  /\ MaxRuns \in Nat \ {0} /\ MaxEdits \in Nat /\ MaxCrashes \in Nat
  /\ Iterations \subseteq Nat \ {0} /\ \A n \in Iterations : n <= MaxIterations
  /\ \A n \in Nat \ {0} : n <= MaxIterations => n \in Iterations
BY CampaignAssumption DEF CampaignAssumption, Iterations

\* Numbers have a least one.
LEMMA LeastOf ==
  ASSUME NEW T, T \subseteq Nat, T # {} PROVE \E x \in T : \A y \in T : x <= y
<1> DEFINE R == {ss \in Nat \X Nat : ss[1] < ss[2]}
<1>1. IsWellFoundedOn(R, Nat)
  BY NatLessThanWellFounded DEF OpToRel
<1>2. PICK x \in T : \A y \in T : ~ (<<y, x>> \in R)
  <2> HIDE DEF R
  <2> QED BY <1>1, WFMin
<1>3. \A y \in T : ~(y < x)
  BY <1>2
<1> QED BY <1>3

\* The latest of some iterations is one of them, or there is none.
LEMMA MaxOK ==
  ASSUME NEW T, T \subseteq Iterations
  PROVE  \/ T = {} /\ MaxOr0(T) = 0
         \/ T # {} /\ MaxOr0(T) \in T /\ \A y \in T : y <= MaxOr0(T)
<1>1. CASE T = {}
  BY <1>1 DEF MaxOr0
<1>2. CASE T # {}
  <2>1. PICK D : D = {MaxIterations - x : x \in T}
    OBVIOUS
  <2>2. \A x \in T : x \in Nat /\ MaxIterations - x \in Nat
    BY Numbers
  <2>3. D \subseteq Nat /\ D # {}
    BY <1>2, <2>1, <2>2
  <2>4. PICK d \in D : \A e \in D : d <= e
    BY <2>3, LeastOf
  <2>5. PICK x \in T : d = MaxIterations - x
    BY <2>1
  <2>6. \A y \in T : MaxIterations - x <= MaxIterations - y
    BY <2>1, <2>4, <2>5
  <2>7. \A y \in T : x >= y
    BY <2>2, <2>6, Numbers
  <2>8. Max(T) \in T /\ \A y \in T : Max(T) >= y
    BY <2>7 DEF Max
  <2>9. \A y \in T : y <= Max(T)
    BY <2>2, <2>8
  <2> QED BY <1>2, <2>8, <2>9 DEF MaxOr0
<1> QED BY <1>1, <1>2

\* The latest iteration that was frozen.
LEMMA LatestOK ==
  /\ Latest = 0 \/ Latest \in Iterations
  /\ Latest = 0 => \A n \in Iterations : ~Frozen(n)
  /\ Latest # 0 => Frozen(Latest) /\ IsLast(Latest)
<1>1. PICK T : T = {n \in Iterations : art[n].frozen # NoPair}
  OBVIOUS
<1>2. T \subseteq Iterations /\ Latest = MaxOr0(T) /\ 0 \notin Iterations
  BY <1>1, Numbers DEF Latest
<1>3. \/ T = {} /\ Latest = 0
      \/ T # {} /\ Latest \in T /\ \A y \in T : y <= Latest
  BY <1>2, MaxOK
<1>4. \A n \in Iterations : n \in T <=> Frozen(n)
  BY <1>1 DEF Frozen
<1>5. CASE T = {} /\ Latest = 0
  BY <1>4, <1>5
<1>6. CASE T # {} /\ Latest \in T /\ \A y \in T : y <= Latest
  <2>1. \A k \in Iterations : k > Latest => k \notin T
    BY <1>2, <1>6, Numbers
  <2> QED BY <1>2, <1>4, <1>6, <2>1 DEF IsLast
<1> QED BY <1>3, <1>5, <1>6

\* A last iteration that was reviewed is the latest review.
LEMMA ReviewedIs ==
  ASSUME EvidenceChain, NEW n \in Iterations, IsLast(n), art[n].reviews
  PROVE  Reviewed = n
<1>1. PICK T : T = {k \in Iterations : art[k].reviews}
  OBVIOUS
<1>2. T \subseteq Iterations /\ Reviewed = MaxOr0(T) /\ n \in T
  BY <1>1 DEF Reviewed
<1>3. Reviewed \in T /\ \A y \in T : y <= Reviewed
  BY <1>2, MaxOK
<1>4. ~(Reviewed > n)
  BY <1>1, <1>2, <1>3 DEF EvidenceChain, IsLast, Frozen
<1> QED BY <1>2, <1>3, <1>4, Numbers

LEMMA LatestIs ==
  ASSUME NEW n \in Iterations, IsLast(n), Frozen(n) PROVE Latest = n
<1>1. Latest # 0
  BY LatestOK
<1>2. Latest \in Iterations /\ Frozen(Latest) /\ IsLast(Latest)
  BY <1>1, LatestOK
<1>3. ~(Latest > n) /\ ~(n > Latest)
  BY <1>2 DEF IsLast
<1> QED BY <1>2, <1>3, Numbers

-----------------------------------------------------------------------------
(* What the steps have in common *)

\* What was frozen stays, and the proposal does not become empty.
Kept == /\ \A n \in Iterations : Frozen(n) => Frozen(n)'
        /\ doc.pr # 0 => doc'.pr # 0

\* A larger revision only adds to the types.
LEMMA Widens ==
  ASSUME rev \in Nat, rev' \in Nat, rev <= rev'
  PROVE  /\ 0..rev \subseteq 0..rev' /\ Pairs \subseteq Pairs' /\ Evidence \subseteq Evidence'
         /\ [bp : 0..rev, pr : 0..rev, base : 0..rev] \subseteq [bp : 0..rev', pr : 0..rev', base : 0..rev']
<1>1. 0..rev \subseteq 0..rev'
  OBVIOUS
<1>2. Pairs \subseteq Pairs'
  BY <1>1 DEF Pairs
<1>3. Evidence \subseteq Evidence'
  <2> SUFFICES ASSUME NEW e \in Evidence PROVE e \in Evidence'
    OBVIOUS
  <2> QED BY <1>1, <1>2 DEF Evidence
<1>4. [bp : 0..rev, pr : 0..rev, base : 0..rev] \subseteq [bp : 0..rev', pr : 0..rev', base : 0..rev']
  BY <1>1
<1> QED BY <1>1, <1>2, <1>3, <1>4

\* The evidence is left alone.
LEMMA ChainFrame ==
  ASSUME ChainInv, art' = art, doc.pr # 0 => doc'.pr # 0
  PROVE  ChainInv' /\ Kept
BY DEF ChainInv, Kept, Frozen, EvidenceChain, GatesJudgeReviewedPair

\* The phase machine goes where nothing is said of the evidence.
LEMMA StandingFrame ==
  ASSUME StandingInv, art' = art, next' = next,
         \/ machine' = machine
         \/ machine' \notin {"IDLE", "REVISION_REQUIRED", "HARD_GATE_VALIDATION"}
  PROVE  StandingInv'
BY DEF StandingInv, Frozen, IsLast

\* The campaign is at the same iteration of the same run.
LEMMA BoundsFrame ==
  ASSUME BoundsInv, UNCHANGED <<camp, cs, job>>, Kept,
         pc' \in Iterating => pc \in Iterating, pc' = "generate" => pc = "generate"
  PROVE  BoundsInv'
BY DEF BoundsInv, Counted, Kept

LEMMA StopFrame ==
  ASSUME StopInv, UNCHANGED <<late, stop>>,
         pc' \in {"idle", "begin", "generate", "loop"} => pc \in {"idle", "begin", "generate", "loop"}
  PROVE  StopInv'
BY DEF StopInv

\* The worker ends: what is left is the files, the machine and the campaign.
LEMMA EndStep ==
  ASSUME CampaignInv, GoesIdle, FileTypes', ChainInv', StandingInv', Kept, machine' \in Phases,
         camp' \in Campaigns, camp'.calls < MaxModelCalls + 7,
         camp'.status # "FAILED" => Counted(camp)',
         runs' \in 0..MaxRuns, edits' \in 0..MaxEdits, crashes' \in 0..MaxCrashes
  PROVE  CampaignInv'
<1>1. /\ pc' = "idle" /\ job' = "none" /\ it' = 0 /\ inp' = NoInput /\ chair' = NoChair
      /\ cs' = NoCampaign /\ noImp' = 0 /\ stop' = FALSE /\ pause' = FALSE /\ late' = 0
  BY DEF GoesIdle, ResetLocal
<1>2. cs' \in Campaigns /\ cs'.calls = 0
  <2>1. /\ "NOT_STARTED" \in Resumable \cup {"NOT_STARTED", "RUNNING", "COMPLETE", "FAILED"}
        /\ 0 \in 0..MaxIterations /\ <<>> \in Seq(Readiness) /\ Unscored \in Readiness \cup {Unscored}
    BY Numbers, EmptySeq
  <2> QED BY <1>1, <2>1 DEF NoCampaign, Campaigns
<1>3. CampTypes'
  BY <1>2 DEF CampTypes, Campaigns
<1>4. RunTypes'
  <2>1. rev' \in Nat
    BY DEF FileTypes
  <2>2. inp' \in [bp : 0..rev', pr : 0..rev', base : 0..rev']
    BY <1>1, <2>1 DEF NoInput
  <2>3. chair' \in [kind : {"none", "blocked", "failed", "text", "gates", "next"},
                    calls : 0..7, ready : Readiness \cup {Unscored}]
    BY <1>1 DEF NoChair
  <2>4. it' \in 0..MaxIterations
    BY <1>1, Numbers
  <2> QED BY <1>1, <2>2, <2>3, <2>4 DEF RunTypes, Places, Phases, PanelPhases
<1>5. JobInv' /\ MachineInv' /\ PlaceInv' /\ StopInv'
  BY <1>1 DEF JobInv, MachineInv, PlaceInv, StopInv, Iterating, AfterFreeze, BeforeBundle,
              AfterBundle, Integrating
<1>6. BoundsInv'
  BY <1>1, <1>2, Numbers DEF BoundsInv
<1> QED BY <1>3, <1>4, <1>5, <1>6 DEF CampaignInv

\* What a campaign has counted stays counted.
LEMMA CountedFrame ==
  ASSUME BoundsInv, Kept, camp' = camp
  PROVE  camp'.calls < MaxModelCalls + 7 /\ (camp'.status # "FAILED" => Counted(camp)')
BY DEF BoundsInv, Counted, Kept

\* run_campaign._finish.
LEMMA FinishStep ==
  ASSUME CampaignInv, NEW state \in Campaigns,
         NEW status \in Resumable \cup {"NOT_STARTED", "RUNNING", "COMPLETE", "FAILED"},
         Finish(state, status), state.calls < MaxModelCalls + 7,
         status # "FAILED" =>
           /\ \A m \in Iterations : m <= state.iter => Frozen(m)'
           /\ state.calls # 0 => doc'.pr # 0,
         FileTypes', ChainInv', StandingInv', Kept, machine' \in Phases,
         runs' \in 0..MaxRuns, edits' \in 0..MaxEdits, crashes' \in 0..MaxCrashes
  PROVE  CampaignInv'
<1>1. GoesIdle /\ camp' = [state EXCEPT !.status = status]
  BY DEF Finish
<1>2. /\ camp' \in Campaigns /\ camp'.status = status /\ camp'.calls = state.calls
      /\ camp'.iter = state.iter
  BY <1>1 DEF Campaigns
<1>3. camp'.status # "FAILED" => Counted(camp)'
  BY <1>2 DEF Counted, Frozen
<1> QED BY <1>1, <1>2, <1>3, EndStep

\* run_panel_chair_iteration returns, to the campaign or to the operator.
LEMMA ChairStep ==
  ASSUME CampaignInv, pc \in Iterating \ {"account"},
         NEW kind \in {"blocked", "failed", "text", "gates", "next"}, NEW calls \in 0..7,
         NEW ready \in Readiness \cup {Unscored}, ChairReturns(kind, calls, ready),
         FileTypes', ChainInv', StandingInv', Kept, machine' \in Phases, UNCHANGED <<runs, crashes, edits>>,
         kind # "failed" => art'[it].frozen # NoPair,
         kind \notin {"failed", "blocked"} =>
           art'[it].bundle /\ \A k \in Iterations : k > it => art'[k].frozen = NoPair
  PROVE  CampaignInv'
<1>1. /\ runs' \in 0..MaxRuns /\ edits' \in 0..MaxEdits /\ crashes' \in 0..MaxCrashes
  BY DEF CampaignInv, RunTypes
<1>2. CASE job # "campaign"
  <2>1. GoesIdle /\ camp' = camp
    BY <1>2 DEF ChairReturns
  <2>2. camp' \in Campaigns /\ camp'.calls < MaxModelCalls + 7 /\ (camp'.status # "FAILED" => Counted(camp)')
    <3>1. camp' \in Campaigns
      BY <2>1 DEF CampaignInv, CampTypes, Campaigns
    <3> QED BY <2>1, <3>1, CountedFrame DEF CampaignInv
  <2> QED BY <1>1, <2>1, <2>2, EndStep
<1>3. CASE job = "campaign"
  <2>1. /\ chair' = [kind |-> kind, calls |-> calls, ready |-> ready] /\ pc' = "account"
        /\ inp' = NoInput /\ UNCHANGED <<camp, job, it, cs, noImp, stop, pause, late>>
    BY <1>3 DEF ChairReturns, controls
  <2>2. RunTypes'
    <3>1. rev' \in Nat
      BY DEF FileTypes
    <3>2. inp' \in [bp : 0..rev', pr : 0..rev', base : 0..rev']
      BY <2>1, <3>1 DEF NoInput
    <3>3. chair' \in [kind : {"none", "blocked", "failed", "text", "gates", "next"},
                      calls : 0..7, ready : Readiness \cup {Unscored}]
      BY <2>1
    <3>4. pc' \in Places
      BY <2>1 DEF Places, Iterating
    <3> QED BY <1>1, <2>1, <3>2, <3>3, <3>4 DEF CampaignInv, RunTypes, Phases
  <2>3. CampTypes'
    BY <2>1 DEF CampaignInv, CampTypes, Campaigns
  <2>4. JobInv' /\ MachineInv'
    BY <1>3, <2>1 DEF JobInv, MachineInv, Iterating, AfterFreeze, BeforeBundle, AfterBundle, Integrating
  <2>5. PlaceInv'
    <3>1. it' = it /\ it \in Iterations /\ \A m \in Iterations : m < it => Frozen(m)'
      BY <2>1 DEF CampaignInv, PlaceInv, Kept
    <3>2. pc' = "account" /\ chair'.kind = kind
      BY <2>1
    <3> QED BY <3>1, <3>2 DEF PlaceInv, IsLast, Frozen, Iterating, AfterFreeze, BeforeBundle,
                              AfterBundle, Integrating
  <2>6. BoundsInv' /\ StopInv'
    BY <2>1, BoundsFrame, StopFrame DEF CampaignInv
  <2> QED BY <2>2, <2>3, <2>4, <2>5, <2>6 DEF CampaignInv
<1> QED BY <1>2, <1>3

\* The worker goes on within its iteration, or from the gates.
LEMMA ContinueStep ==
  ASSUME CampaignInv, NEW where \in Places, Continue(where),
         \/ pc \in Iterating /\ where \in AfterFreeze
         \/ pc = "gates" /\ where = "verdict"
         \/ job = "campaign" /\ where = "tail",
         FileTypes', ChainInv', StandingInv', Kept, machine' \in Phases, UNCHANGED <<runs, crashes, edits>>,
         inp' \in [bp : 0..rev', pr : 0..rev', base : 0..rev'],
         chair' \in [kind : {"none", "blocked", "failed", "text", "gates", "next"},
                     calls : 0..7, ready : Readiness \cup {Unscored}],
         MachineInv', PlaceInv'
  PROVE  CampaignInv'
<1>1. pc' = where /\ UNCHANGED <<camp, job, it, cs, noImp, stop, pause, late>>
  BY DEF Continue, controls
<1>2. RunTypes'
  BY <1>1 DEF CampaignInv, RunTypes, Phases, Places, Iterating, AfterFreeze, BeforeBundle, AfterBundle, Integrating
<1>3. CampTypes'
  BY <1>1 DEF CampaignInv, CampTypes, Campaigns
<1>4. JobInv'
  BY <1>1 DEF CampaignInv, JobInv, Iterating, AfterFreeze, BeforeBundle, AfterBundle, Integrating
<1>5. BoundsInv'
  <2>1. pc' \in Iterating => pc \in Iterating
    BY <1>1 DEF Iterating, AfterFreeze, BeforeBundle, AfterBundle, Integrating
  <2>2. pc' # "generate"
    BY <1>1 DEF AfterFreeze, BeforeBundle, AfterBundle, Integrating
  <2> QED BY <1>1, <2>1, <2>2, BoundsFrame DEF CampaignInv
<1>6. StopInv'
  <2>1. pc' \notin {"idle", "begin", "generate", "loop"}
    BY <1>1 DEF AfterFreeze, BeforeBundle, AfterBundle, Integrating
  <2> QED BY <1>1, <2>1, StopFrame DEF CampaignInv
<1> QED BY <1>2, <1>3, <1>4, <1>5, <1>6 DEF CampaignInv

-----------------------------------------------------------------------------
(* Recovery and the next iteration *)

\* What each verdict on the handoff says.
LEMMA VerdictOK ==
  ASSUME NEW n \in Iterations
  PROVE  /\ HandoffVerdict(n) \in {"valid", "absent", "consumed", "ambiguous"}
         /\ HandoffVerdict(n) = "valid" =>
              /\ next # NoHandoff /\ next.prev = n
              /\ next.revised = doc.pr /\ next.reviewed = art[n].frozen.pr
         /\ HandoffVerdict(n) \in {"absent", "consumed"} => doc.pr = art[n].frozen.pr
         /\ next # NoHandoff /\ next.prev = n => HandoffVerdict(n) \in {"valid", "ambiguous"}
<1>1. n # 0 /\ n \in Nat /\ NoHandoff.prev = 0
  BY Numbers DEF NoHandoff
<1>2. CASE next = NoHandoff
  BY <1>1, <1>2 DEF HandoffVerdict
<1>3. CASE next # NoHandoff /\ next.prev = n
  <2>1. HandoffVerdict(n) = IF next.revised = doc.pr /\ next.reviewed = art[n].frozen.pr
                            THEN "valid" ELSE "ambiguous"
    BY <1>1, <1>3 DEF HandoffVerdict
  <2> QED BY <1>3, <2>1
<1>4. CASE next # NoHandoff /\ next.prev # n
  <2>1. CASE next.prev < n
    <3>1. HandoffVerdict(n) = IF ~art[next.prev + 1].bundle \/ doc.pr # art[n].frozen.pr
                              THEN "ambiguous" ELSE "consumed"
      BY <1>1, <1>4, <2>1 DEF HandoffVerdict
    <3> QED BY <1>4, <3>1
  <2>2. CASE ~(next.prev < n)
    <3>1. HandoffVerdict(n) = "ambiguous"
      BY <1>1, <1>4, <2>2 DEF HandoffVerdict
    <3> QED BY <1>4, <3>1
  <2> QED BY <2>1, <2>2
<1> QED BY <1>2, <1>3, <1>4

\* The hint is the latest iteration, or the next one after a handoff.
LEMMA HintOK ==
  ASSUME ChainInv, StandingInv
  PROVE  /\ NextIterationHint \in Nat \ {0}
         /\ \A m \in Iterations : m < NextIterationHint => Frozen(m)
         /\ machine = "HARD_GATE_VALIDATION" =>
              /\ NextIterationHint \in Iterations /\ art[NextIterationHint].bundle
              /\ IsLast(NextIterationHint)
<1>1. CASE Latest = 0
  <2>1. NextIterationHint = 1 /\ \A n \in Iterations : ~Frozen(n)
    BY <1>1, LatestOK DEF NextIterationHint
  <2>2. \A m \in Iterations : ~(m < 1)
    BY Numbers
  <2> QED BY <2>1, <2>2 DEF StandingInv
<1>2. CASE Latest # 0
  <2>1. PICK n : n = Latest
    OBVIOUS
  <2>2. n \in Iterations /\ n \in Nat \ {0} /\ Frozen(n) /\ IsLast(n)
    BY <1>2, <2>1, LatestOK, Numbers
  <2>3. \A m \in Iterations : m < n => Frozen(m)
    BY <2>2 DEF ChainInv, EvidenceChain, Frozen
  <2>4. \A m \in Iterations : m < n + 1 => m < n \/ m = n
    BY <2>2, Numbers
  <2>5. machine = "HARD_GATE_VALIDATION" => art[n].bundle
    BY <2>2 DEF StandingInv
  <2>6. CASE art[n].gates = NoGates /\ art[n].bundle /\ art[n].result # NoResult /\ HandoffVerdict(n) = "valid"
    <3>1. NextIterationHint = n + 1
      BY <1>2, <2>1, <2>6 DEF NextIterationHint
    <3>2. next # NoHandoff /\ next.prev = n
      BY <2>2, <2>6, VerdictOK
    <3>3. machine # "HARD_GATE_VALIDATION"
      BY <2>2, <3>2 DEF StandingInv
    <3> QED BY <2>2, <2>3, <2>4, <3>1, <3>3
  <2>7. CASE ~(art[n].gates = NoGates /\ art[n].bundle /\ art[n].result # NoResult /\ HandoffVerdict(n) = "valid")
    <3>1. NextIterationHint = n
      BY <1>2, <2>1, <2>7 DEF NextIterationHint
    <3> QED BY <2>2, <2>3, <2>5, <3>1
  <2> QED BY <2>6, <2>7
<1> QED BY <1>1, <1>2

LEMMA GatePhases ==
  /\ DOMAIN PhaseOfGates = {"COMPLETE", "REVISION_REQUIRED", "BLOCKED", "INCOMPLETE"}
  /\ PhaseOfGates["COMPLETE"] = "COMPLETE" /\ PhaseOfGates["BLOCKED"] = "BLOCKED"
  /\ PhaseOfGates["REVISION_REQUIRED"] = "REVISION_REQUIRED"
  /\ PhaseOfGates["INCOMPLETE"] = "HARD_GATE_VALIDATION"
BY DEF PhaseOfGates

\* What recovery reads in the evidence.
LEMMA RecoveredOK ==
  ASSUME FileTypes, ChainInv, StandingInv
  PROVE  /\ Recovered \in {"IDLE", "NONE", "INTEGRATION", "REVISION_REQUIRED", "BLOCKED", "COMPLETE",
                           "HARD_GATE_VALIDATION"}
         /\ Recovered \in {"IDLE", "REVISION_REQUIRED", "HARD_GATE_VALIDATION"} =>
              \A n \in Iterations : Frozen(n) => art[n].bundle
         /\ Recovered = "HARD_GATE_VALIDATION" =>
              Latest # 0 /\ (next # NoHandoff => ~IsLast(next.prev))
<1>1. CASE Latest = 0
  <2>1. Recovered = "IDLE" /\ \A n \in Iterations : ~Frozen(n)
    BY <1>1, LatestOK DEF Recovered
  <2> QED BY <2>1
<1>2. CASE Latest # 0
  <2>1. PICK n : n = Latest
    OBVIOUS
  <2>2. n \in Iterations /\ n # 0 /\ Frozen(n) /\ IsLast(n) /\ art[n] \in Evidence
    BY <1>2, <2>1, LatestOK, Numbers DEF FileTypes
  <2>3. art[n].bundle => \A m \in Iterations : Frozen(m) => art[m].bundle
    <3> SUFFICES ASSUME art[n].bundle, NEW m \in Iterations, Frozen(m) PROVE art[m].bundle
      OBVIOUS
    <3>1. m < n \/ m = n
      <4>1. ~(m > n)
        BY <2>2 DEF IsLast
      <4> QED BY <2>2, <4>1, Numbers
    <3> QED BY <2>2, <3>1 DEF ChainInv
  <2>4. next # NoHandoff /\ IsLast(next.prev) => next.prev = n
    <3> SUFFICES ASSUME next # NoHandoff, IsLast(next.prev) PROVE next.prev = n
      OBVIOUS
    <3>1. next.prev \in Iterations /\ art[next.prev].result # NoResult
      BY DEF StandingInv
    <3>2. Frozen(next.prev)
      BY <3>1 DEF ChainInv, EvidenceChain, Frozen
    <3>3. ~(next.prev > n) /\ ~(n > next.prev)
      BY <2>2, <3>1, <3>2 DEF IsLast
    <3>4. n \in Nat /\ next.prev \in Nat
      BY <2>2, <3>1, Numbers
    <3> QED BY <3>3, <3>4
  <2>5. CASE art[n].gates # NoGates
    <3>1. Recovered = PhaseOfGates[art[n].gates.outcome]
      BY <2>1, <2>2, <2>5 DEF Recovered
    <3>2. art[n].gates.outcome \in DOMAIN PhaseOfGates \cup {"none"} /\ art[n].bundle
      BY <2>2, <2>5 DEF Evidence, ChainInv, GatesJudgeReviewedPair
    <3>3. art[n].gates.outcome # "none"
      BY <2>2, <2>5 DEF ChainInv
    <3>4. next # NoHandoff => ~IsLast(next.prev)
      BY <2>4, <2>5 DEF StandingInv
    <3> QED BY <1>2, <2>3, <3>1, <3>2, <3>3, <3>4, GatePhases
  <2>6. CASE art[n].gates = NoGates /\ ~art[n].bundle
    <3>1. Recovered = "NONE"
      BY <2>1, <2>2, <2>6 DEF Recovered, Ambiguous
    <3> QED BY <3>1
  <2>7. CASE art[n].gates = NoGates /\ art[n].bundle /\ art[n].result = NoResult
    <3>1. Recovered = "INTEGRATION"
      BY <2>1, <2>2, <2>7 DEF Recovered
    <3> QED BY <3>1
  <2>8. CASE art[n].gates = NoGates /\ art[n].bundle /\ art[n].result # NoResult
    <3>1. Recovered = CASE HandoffVerdict(n) = "valid"     -> "REVISION_REQUIRED"
                        [] HandoffVerdict(n) = "ambiguous" -> "NONE"
                        [] OTHER                           -> "HARD_GATE_VALIDATION"
      BY <2>1, <2>2, <2>8 DEF Recovered, Ambiguous
    <3>2. Recovered = "HARD_GATE_VALIDATION" => HandoffVerdict(n) \notin {"valid", "ambiguous"}
      BY <3>1
    <3>3. Recovered \in {"REVISION_REQUIRED", "NONE", "HARD_GATE_VALIDATION"}
      BY <3>1
    <3>4. Recovered = "HARD_GATE_VALIDATION" => (next # NoHandoff => ~IsLast(next.prev))
      BY <2>2, <2>4, <3>2, VerdictOK
    <3> QED BY <1>2, <2>3, <2>8, <3>3, <3>4
  <2>9. art[n].bundle \in BOOLEAN
    BY <2>2 DEF Evidence
  <2> QED BY <2>5, <2>6, <2>7, <2>8
<1> QED BY <1>1, <1>2

-----------------------------------------------------------------------------
(* The operator *)

\* The files, the campaign record and the machine are left alone.
LEMMA QuietFrame ==
  ASSUME CampaignInv, UNCHANGED <<documents, evidence, camp>>
  PROVE  FileTypes' /\ ChainInv' /\ Kept /\ camp' \in Campaigns /\ rev' = rev
<1>1. UNCHANGED <<doc, rev, art, next, camp>>
  BY DEF documents, evidence
<1>2. FileTypes'
  BY <1>1 DEF CampaignInv, FileTypes, Pairs, Evidence
<1>3. ChainInv' /\ Kept
  BY <1>1, ChainFrame DEF CampaignInv
<1> QED BY <1>1, <1>2, <1>3 DEF CampaignInv, CampTypes, Campaigns

\* A run is launched.
LEMMA LaunchStep ==
  ASSUME CampaignInv, NEW what, NEW at, Launch(what, at),
         \/ what = "campaign" /\ at = "begin" /\ Counted(cs)'
         \/ what = "panel" /\ at = "enter"
         \/ what = "gates" /\ at = "gates"
         \/ what = "generate" /\ at = "generate",
         cs' \in Campaigns, cs'.calls < MaxModelCalls + 7,
         it' \in 0..MaxIterations, UNCHANGED <<inp, chair, noImp>>, PlaceInv', MachineInv'
  PROVE  CampaignInv'
<1>1. /\ runs' = runs + 1 /\ runs < MaxRuns /\ job' = what /\ pc' = at
      /\ stop' = FALSE /\ pause' = FALSE /\ late' = 0
      /\ UNCHANGED <<documents, evidence, camp, machine, crashes, doc, rev, edits, art, next>>
  BY DEF Launch, documents, evidence
<1>2. FileTypes' /\ ChainInv' /\ Kept /\ camp' \in Campaigns /\ rev' = rev
  BY <1>1, QuietFrame
<1>3. runs' \in 0..MaxRuns
  BY <1>1, Numbers DEF CampaignInv, RunTypes
<1>4. RunTypes'
  <2>1. pc' \in Places /\ job' \in {"none", "campaign", "panel", "gates", "generate"}
    BY <1>1 DEF Places, Iterating
  <2> QED BY <1>1, <1>2, <1>3, <2>1 DEF CampaignInv, RunTypes, Phases
<1>5. CampTypes'
  BY <1>2 DEF CampTypes, Campaigns
<1>6. StandingInv'
  BY <1>1, StandingFrame DEF CampaignInv
<1>7. JobInv'
  BY <1>1 DEF JobInv, Iterating, AfterFreeze, BeforeBundle, AfterBundle, Integrating
<1>8. StopInv'
  BY <1>1 DEF StopInv
<1>9. BoundsInv'
  <2>1. camp'.calls < MaxModelCalls + 7 /\ (camp'.status # "FAILED" => Counted(camp)')
    BY <1>1, <1>2, CountedFrame DEF CampaignInv
  <2>2. job' = "campaign" => Counted(cs)' /\ pc' = "begin"
    BY <1>1
  <2> QED BY <2>1, <2>2 DEF BoundsInv, Iterating, AfterFreeze, BeforeBundle, AfterBundle, Integrating
<1> QED BY <1>2, <1>4, <1>5, <1>6, <1>7, <1>8, <1>9 DEF CampaignInv

\* A worker that begins a campaign or a generation stands nowhere yet.
LEMMA NoPlace ==
  ASSUME pc' \in {"idle", "begin", "generate", "loop", "tail"} PROVE PlaceInv' /\ MachineInv'
BY DEF PlaceInv, MachineInv, Iterating, AfterFreeze, BeforeBundle, AfterBundle, Integrating

LEMMA StartCampaignStep == ASSUME CampaignInv, StartCampaign PROVE CampaignInv'
<1>1. /\ Launch("campaign", "begin") /\ cs' = [NoCampaign EXCEPT !.status = "RUNNING"]
      /\ UNCHANGED <<it, inp, chair, noImp>>
  BY DEF StartCampaign
<1>2. cs' \in Campaigns /\ cs'.calls = 0 /\ cs'.iter = 0
  <2>1. /\ 0 \in 0..MaxIterations /\ <<>> \in Seq(Readiness) /\ Unscored \in Readiness \cup {Unscored}
        /\ cs' = [status |-> "RUNNING", iter |-> 0, calls |-> 0, hist |-> <<>>, last |-> Unscored]
    BY <1>1, Numbers, EmptySeq DEF NoCampaign
  <2> QED BY <2>1 DEF Campaigns
<1>3. Counted(cs)' /\ cs'.calls < MaxModelCalls + 7
  BY <1>2, Numbers DEF Counted
<1>4. PlaceInv' /\ MachineInv'
  BY <1>1, NoPlace DEF Launch
<1>5. it' \in 0..MaxIterations
  BY <1>1 DEF CampaignInv, RunTypes
<1> QED BY <1>1, <1>2, <1>3, <1>4, <1>5, LaunchStep

LEMMA ResumeCampaignStep == ASSUME CampaignInv, ResumeCampaign PROVE CampaignInv'
<1>1. /\ Launch("campaign", "begin") /\ cs' = [camp EXCEPT !.status = "RUNNING"]
      /\ UNCHANGED <<it, inp, chair, noImp>> /\ camp.status # "FAILED"
  BY DEF ResumeCampaign, Resumable
<1>2. cs' \in Campaigns /\ cs'.calls = camp.calls /\ cs'.iter = camp.iter
  BY <1>1 DEF CampaignInv, CampTypes, Campaigns
<1>3. Counted(cs)' /\ cs'.calls < MaxModelCalls + 7
  <2>1. doc' = doc /\ art' = art
    BY <1>1 DEF Launch, documents, evidence
  <2> QED BY <1>1, <1>2, <2>1 DEF CampaignInv, BoundsInv, Counted, Frozen
<1>4. PlaceInv' /\ MachineInv'
  BY <1>1, NoPlace DEF Launch
<1>5. it' \in 0..MaxIterations
  BY <1>1 DEF CampaignInv, RunTypes
<1> QED BY <1>1, <1>2, <1>3, <1>4, <1>5, LaunchStep

LEMMA RunPanelStep == ASSUME CampaignInv, RunPanel PROVE CampaignInv'
<1>1. /\ Launch("panel", "enter") /\ it' = NextIterationHint /\ NextIterationHint \in Iterations
      /\ UNCHANGED <<inp, chair, cs, noImp>>
  BY DEF RunPanel
<1>2. pc' = "enter" /\ art' = art
  BY <1>1 DEF Launch, evidence
<1>3. \A m \in Iterations : m < it' => Frozen(m)'
  BY <1>1, <1>2, HintOK DEF CampaignInv, Frozen
<1>4. PlaceInv' /\ MachineInv'
  BY <1>1, <1>2, <1>3 DEF PlaceInv, MachineInv, AfterFreeze, BeforeBundle, AfterBundle, Integrating
<1>5. it' \in 0..MaxIterations /\ cs' \in Campaigns /\ cs'.calls < MaxModelCalls + 7
  BY <1>1, Numbers DEF CampaignInv, CampTypes, Campaigns, BoundsInv
<1> QED BY <1>1, <1>4, <1>5, LaunchStep

LEMMA RunHardGatesStep == ASSUME CampaignInv, RunHardGates PROVE CampaignInv'
<1>1. /\ Launch("gates", "gates") /\ it' = NextIterationHint /\ NextIterationHint \in Iterations
      /\ UNCHANGED <<inp, chair, cs, noImp>> /\ machine = "HARD_GATE_VALIDATION"
  BY DEF RunHardGates
<1>2. pc' = "gates" /\ art' = art /\ machine' = machine
  BY <1>1 DEF Launch, evidence
<1>3. it' \in Iterations /\ art'[it'].bundle /\ IsLast(it)'
  BY <1>1, <1>2, HintOK DEF CampaignInv, IsLast, Frozen
<1>4. PlaceInv' /\ MachineInv'
  BY <1>1, <1>2, <1>3 DEF PlaceInv, MachineInv, Iterating, AfterFreeze, BeforeBundle, AfterBundle, Integrating
<1>5. it' \in 0..MaxIterations /\ cs' \in Campaigns /\ cs'.calls < MaxModelCalls + 7
  BY <1>1, Numbers DEF CampaignInv, CampTypes, Campaigns, BoundsInv
<1> QED BY <1>1, <1>4, <1>5, LaunchStep

LEMMA GenerateInitialStep == ASSUME CampaignInv, GenerateInitial PROVE CampaignInv'
<1>1. Launch("generate", "generate") /\ UNCHANGED <<it, inp, chair, cs, noImp>>
  BY DEF GenerateInitial, local
<1>2. PlaceInv' /\ MachineInv'
  BY <1>1, NoPlace DEF Launch
<1>3. it' \in 0..MaxIterations /\ cs' \in Campaigns /\ cs'.calls < MaxModelCalls + 7
  BY <1>1 DEF CampaignInv, CampTypes, Campaigns, BoundsInv, RunTypes
<1> QED BY <1>1, <1>2, <1>3, LaunchStep

\* Recovery finds the machine in the evidence.
LEMMA RecoverStep == ASSUME CampaignInv, Recover PROVE CampaignInv'
<1>1. /\ pc = "idle" /\ Recovered # "NONE" /\ machine' = Recovered
      /\ UNCHANGED <<documents, evidence, camp, job, pc, it, inp, chair, cs, noImp, stop, pause, late,
                     runs, crashes, doc, rev, edits, art, next>>
  BY DEF Recover, Ambiguous, Idle, documents, evidence, local, controls, history
<1>2. FileTypes' /\ ChainInv' /\ Kept /\ camp' \in Campaigns /\ rev' = rev
  BY <1>1, QuietFrame
<1>3. Recovered \in Phases
  BY RecoveredOK DEF CampaignInv, Phases, PanelPhases
<1>4. RunTypes' /\ CampTypes'
  BY <1>1, <1>2, <1>3 DEF CampaignInv, RunTypes, CampTypes, Phases, Campaigns
<1>5. StandingInv'
  <2>1. Recovered \in {"IDLE", "REVISION_REQUIRED", "HARD_GATE_VALIDATION"} =>
          \A n \in Iterations : Frozen(n) => art[n].bundle
    BY RecoveredOK DEF CampaignInv
  <2>2. Recovered = "HARD_GATE_VALIDATION" =>
          (\E n \in Iterations : Frozen(n)) /\ (next # NoHandoff => ~IsLast(next.prev))
    BY RecoveredOK, LatestOK DEF CampaignInv
  <2> QED BY <1>1, <2>1, <2>2 DEF CampaignInv, StandingInv, Frozen, IsLast
<1>6. PlaceInv' /\ MachineInv'
  BY <1>1, NoPlace
<1>7. JobInv'
  BY <1>1 DEF CampaignInv, JobInv
<1>8. BoundsInv' /\ StopInv'
  BY <1>1, <1>2, BoundsFrame, StopFrame DEF CampaignInv
<1> QED BY <1>2, <1>4, <1>5, <1>6, <1>7, <1>8 DEF CampaignInv

\* STOP and PAUSE are flags.
LEMMA RequestStep ==
  ASSUME CampaignInv, RequestStop \/ RequestPause PROVE CampaignInv'
<1>1. /\ UNCHANGED <<documents, evidence, camp, machine, job, pc, it, inp, chair, cs, noImp, late,
                     runs, crashes, doc, rev, edits, art, next>>
      /\ stop' \in {stop, TRUE} /\ pause' \in {pause, TRUE}
  BY DEF RequestStop, RequestPause, documents, evidence, local, history
<1>2. FileTypes' /\ ChainInv' /\ Kept /\ camp' \in Campaigns /\ rev' = rev
  BY <1>1, QuietFrame
<1>3. RunTypes' /\ CampTypes'
  <2>1. stop' \in BOOLEAN /\ pause' \in BOOLEAN
    BY <1>1 DEF CampaignInv, RunTypes
  <2> QED BY <1>1, <1>2, <2>1 DEF CampaignInv, RunTypes, CampTypes, Phases, Campaigns
<1>4. StandingInv'
  BY <1>1, StandingFrame DEF CampaignInv
<1>5. JobInv' /\ MachineInv'
  BY <1>1 DEF CampaignInv, JobInv, MachineInv
<1>6. PlaceInv'
  BY <1>1 DEF CampaignInv, PlaceInv, Frozen, IsLast
<1>7. BoundsInv'
  BY <1>1, <1>2, BoundsFrame DEF CampaignInv
<1>8. StopInv'
  <2>1. ~stop' => ~stop
    BY <1>1 DEF CampaignInv, RunTypes
  <2> QED BY <1>1, <2>1 DEF CampaignInv, StopInv
<1> QED BY <1>2, <1>3, <1>4, <1>5, <1>6, <1>7, <1>8 DEF CampaignInv

\* An editor changes a document, whatever is running.
LEMMA EditStep == ASSUME CampaignInv, Edit PROVE CampaignInv'
<1>1. /\ edits < MaxEdits /\ edits' = edits + 1 /\ rev' = rev + 1
      /\ UNCHANGED <<art, next, camp, machine, job, pc, it, inp, chair, cs, noImp, stop, pause, late,
                     runs, crashes>>
      /\ \/ doc' = [doc EXCEPT !.pr = rev + 1]
         \/ doc' = [doc EXCEPT !.bp = rev + 1]
  BY DEF Edit, evidence, local, controls, history
<1>2. /\ rev \in Nat /\ rev' \in Nat /\ rev <= rev' /\ rev' # 0 /\ rev' \in 0..rev'
      /\ doc \in Pairs
  BY <1>1 DEF CampaignInv, FileTypes
<1>3. Pairs \subseteq Pairs' /\ Evidence \subseteq Evidence' /\ 0..rev \subseteq 0..rev'
  BY <1>2, Widens
<1>4. doc' \in Pairs' /\ (doc.pr # 0 => doc'.pr # 0)
  <2>1. doc \in [bp : 0..rev', pr : 0..rev']
    BY <1>2, <1>3 DEF Pairs
  <2> QED BY <1>1, <1>2, <2>1 DEF Pairs
<1>5. FileTypes'
  <2>1. art' \in [Iterations -> Evidence'] /\ next' \in [prev : 0..MaxIterations, reviewed : 0..rev', revised : 0..rev']
    BY <1>1, <1>3 DEF CampaignInv, FileTypes
  <2> QED BY <1>2, <1>4, <2>1 DEF FileTypes
<1>6. ChainInv' /\ Kept
  BY <1>1, <1>4, ChainFrame DEF CampaignInv
<1>7. RunTypes' /\ CampTypes'
  <2>1. inp' \in [bp : 0..rev', pr : 0..rev', base : 0..rev']
    BY <1>1, <1>2, Widens DEF CampaignInv, RunTypes
  <2>2. edits' \in 0..MaxEdits
    BY <1>1, Numbers DEF CampaignInv, RunTypes
  <2> QED BY <1>1, <2>1, <2>2 DEF CampaignInv, RunTypes, CampTypes, Phases, Campaigns
<1>8. StandingInv' /\ BoundsInv' /\ StopInv'
  BY <1>1, <1>6, StandingFrame, BoundsFrame, StopFrame DEF CampaignInv
<1>9. JobInv' /\ MachineInv'
  BY <1>1 DEF CampaignInv, JobInv, MachineInv
<1>10. PlaceInv'
  BY <1>1 DEF CampaignInv, PlaceInv, Frozen, IsLast
<1> QED BY <1>5, <1>6, <1>7, <1>8, <1>9, <1>10 DEF CampaignInv

\* The process dies: the machine is not recovered yet.
LEMMA CrashStep == ASSUME CampaignInv, Crash PROVE CampaignInv'
<1>1. /\ crashes < MaxCrashes /\ crashes' = crashes + 1 /\ machine' = "NONE" /\ GoesIdle
      /\ UNCHANGED <<documents, evidence, camp, runs, doc, rev, edits, art, next>>
  BY DEF Crash, Dies, documents, evidence
<1>2. FileTypes' /\ ChainInv' /\ Kept /\ camp' \in Campaigns /\ rev' = rev
  BY <1>1, QuietFrame
<1>3. StandingInv'
  BY <1>1, StandingFrame DEF CampaignInv
<1>4. /\ crashes' \in 0..MaxCrashes /\ runs' \in 0..MaxRuns /\ edits' \in 0..MaxEdits
      /\ machine' \in Phases
  BY <1>1, Numbers DEF CampaignInv, RunTypes, Phases
<1>5. camp'.calls < MaxModelCalls + 7 /\ (camp'.status # "FAILED" => Counted(camp)')
  BY <1>1, <1>2, CountedFrame DEF CampaignInv
<1> QED BY <1>1, <1>2, <1>3, <1>4, <1>5, EndStep

-----------------------------------------------------------------------------
(* The worker: the campaign *)

\* A campaign that starts generates the proposal first, if there is none.
LEMMA BeginStep == ASSUME CampaignInv, Begin PROVE CampaignInv'
<1>1. /\ pc = "begin" /\ job = "campaign"
      /\ UNCHANGED <<machine, job, it, inp, chair, cs, noImp, stop, pause, late, runs, crashes,
                     doc, rev, edits, art, next>>
      /\ \/ doc.pr = 0 /\ camp' = cs /\ pc' = "generate"
         \/ doc.pr # 0 /\ camp' = camp /\ pc' = "loop"
  BY DEF Begin, CampaignInv, JobInv, documents, evidence, local, controls, history
<1>2. FileTypes'
  BY <1>1 DEF CampaignInv, FileTypes, Pairs, Evidence
<1>3. ChainInv' /\ Kept /\ StandingInv'
  BY <1>1, ChainFrame, StandingFrame DEF CampaignInv
<1>4. RunTypes' /\ CampTypes'
  BY <1>1 DEF CampaignInv, RunTypes, CampTypes, Phases, Campaigns, Places
<1>5. JobInv'
  BY <1>1 DEF JobInv, Iterating, AfterFreeze, BeforeBundle, AfterBundle, Integrating
<1>6. PlaceInv' /\ MachineInv'
  BY <1>1, NoPlace
<1>7. StopInv'
  BY <1>1, StopFrame DEF CampaignInv
<1>8. BoundsInv'
  <2>1. pc' \notin Iterating
    BY <1>1 DEF Iterating, AfterFreeze, BeforeBundle, AfterBundle, Integrating
  <2>2. Counted(cs)' /\ cs'.calls < MaxModelCalls + 7
    BY <1>1, <1>3 DEF CampaignInv, BoundsInv, Counted, Kept
  <2>3. camp'.calls < MaxModelCalls + 7 /\ (camp'.status # "FAILED" => Counted(camp)')
    BY <1>1, <1>3 DEF CampaignInv, BoundsInv, Counted, Kept
  <2>4. pc' = "generate" => cs'.calls = 0
    BY <1>1 DEF CampaignInv, BoundsInv, Counted
  <2> QED BY <2>1, <2>2, <2>3, <2>4 DEF BoundsInv
<1> QED BY <1>2, <1>3, <1>4, <1>5, <1>6, <1>7, <1>8 DEF CampaignInv

\* An iteration begins within the bounds, or the campaign ends at one.
LEMMA LoopHeadStep == ASSUME CampaignInv, LoopHead PROVE CampaignInv'
<1>1. /\ pc = "loop" /\ job = "campaign"
      /\ UNCHANGED <<machine, runs, crashes, doc, rev, edits, art, next>>
      /\ Counted(cs) /\ cs \in Campaigns /\ cs.calls < MaxModelCalls + 7
      /\ cs.iter \in Nat /\ cs.calls \in Nat
  BY DEF LoopHead, CampaignInv, JobInv, BoundsInv, CampTypes, Campaigns, documents, evidence, history
<1>2. /\ FileTypes' /\ ChainInv' /\ Kept /\ StandingInv' /\ machine' \in Phases
      /\ runs' \in 0..MaxRuns /\ edits' \in 0..MaxEdits /\ crashes' \in 0..MaxCrashes
  <2>1. FileTypes'
    BY <1>1 DEF CampaignInv, FileTypes, Pairs, Evidence
  <2>2. ChainInv' /\ Kept /\ StandingInv'
    BY <1>1, ChainFrame, StandingFrame DEF CampaignInv
  <2> QED BY <1>1, <2>1, <2>2 DEF CampaignInv, RunTypes, Phases
<1>3. CASE Finish(cs, "BOUND_REACHED")
  <2>1. "BOUND_REACHED" \in Resumable
    BY DEF Resumable
  <2>2. /\ \A m \in Iterations : m <= cs.iter => Frozen(m)'
        /\ cs.calls # 0 => doc'.pr # 0
    BY <1>1, <1>2 DEF Counted, Kept
  <2> QED BY <1>1, <1>2, <1>3, <2>1, <2>2, FinishStep
<1>4. CASE /\ ~BoundBreached /\ camp' = cs /\ it' = cs.iter + 1 /\ chair' = NoChair
           /\ late' = IF stop THEN late + 1 ELSE late
           /\ pc' = "enter" /\ UNCHANGED <<job, inp, cs, noImp, stop, pause>>
  <2>1. cs.iter < MaxIterations /\ cs.calls < MaxModelCalls
    BY <1>1, <1>4, Numbers DEF BoundBreached
  <2>2. it' \in Iterations /\ it' \in 0..MaxIterations /\ \A m \in Iterations : m < it' => m <= cs.iter
    BY <1>1, <1>4, <2>1, Numbers
  <2>3. late' \in Nat /\ late' <= 1 /\ (~stop' => late' = 0)
    <3>1. late = 0 /\ stop \in BOOLEAN
      BY <1>1 DEF CampaignInv, StopInv, RunTypes
    <3> QED BY <1>4, <3>1
  <2>4. RunTypes'
    <3>1. chair' \in [kind : {"none", "blocked", "failed", "text", "gates", "next"},
                      calls : 0..7, ready : Readiness \cup {Unscored}]
      BY <1>4 DEF NoChair
    <3>2. pc' \in Places
      BY <1>4 DEF Places, Iterating
    <3>3. inp' \in [bp : 0..rev', pr : 0..rev', base : 0..rev']
      BY <1>1, <1>4 DEF CampaignInv, RunTypes
    <3> QED BY <1>1, <1>2, <1>4, <2>2, <2>3, <3>1, <3>2, <3>3 DEF CampaignInv, RunTypes, Phases
  <2>5. CampTypes'
    BY <1>1, <1>4 DEF CampTypes, Campaigns
  <2>6. JobInv' /\ MachineInv'
    BY <1>1, <1>4 DEF JobInv, MachineInv, AfterFreeze, BeforeBundle, AfterBundle, Integrating
  <2>7. PlaceInv'
    <3>1. \A m \in Iterations : m < it' => Frozen(m)'
      BY <1>1, <1>2, <2>2 DEF Counted, Kept
    <3> QED BY <1>4, <2>2, <3>1 DEF PlaceInv, AfterFreeze, BeforeBundle, AfterBundle, Integrating
  <2>8. BoundsInv'
    <3>1. Counted(cs)' /\ Counted(camp)'
      BY <1>1, <1>2, <1>4 DEF Counted, Kept
    <3> QED BY <1>1, <1>4, <2>1, <3>1 DEF BoundsInv
  <2>9. StopInv'
    BY <1>4, <2>3 DEF StopInv
  <2> QED BY <1>2, <2>4, <2>5, <2>6, <2>7, <2>8, <2>9 DEF CampaignInv
<1> QED BY <1>3, <1>4 DEF LoopHead

\* The iteration boundary: STOP is honoured before another iteration begins.
LEMMA IterationDoneStep == ASSUME CampaignInv, IterationDone PROVE CampaignInv'
<1>1. /\ pc = "tail" /\ job = "campaign"
      /\ UNCHANGED <<machine, runs, crashes, doc, rev, edits, art, next>>
      /\ Counted(cs) /\ cs \in Campaigns /\ cs.calls < MaxModelCalls + 7
      /\ TailStatus \in {"WAITING_FOR_OPERATOR", "CONVERGED", "STOPPED", "PAUSED", "RUNNING"}
      /\ TailStatus = "RUNNING" => ~stop
  BY DEF IterationDone, CampaignInv, JobInv, BoundsInv, CampTypes, documents, evidence, history, TailStatus
<1>2. /\ FileTypes' /\ ChainInv' /\ Kept /\ StandingInv' /\ machine' \in Phases
      /\ runs' \in 0..MaxRuns /\ edits' \in 0..MaxEdits /\ crashes' \in 0..MaxCrashes
  <2>1. FileTypes'
    BY <1>1 DEF CampaignInv, FileTypes, Pairs, Evidence
  <2>2. ChainInv' /\ Kept /\ StandingInv'
    BY <1>1, ChainFrame, StandingFrame DEF CampaignInv
  <2> QED BY <1>1, <2>1, <2>2 DEF CampaignInv, RunTypes, Phases
<1>3. CASE TailStatus # "RUNNING"
  <2>1. Finish(cs, TailStatus) /\ TailStatus \in Resumable
    BY <1>1, <1>3 DEF IterationDone, Resumable
  <2>2. /\ \A m \in Iterations : m <= cs.iter => Frozen(m)'
        /\ cs.calls # 0 => doc'.pr # 0
    BY <1>1, <1>2 DEF Counted, Kept
  <2> QED BY <1>1, <1>2, <2>1, <2>2, FinishStep
<1>4. CASE TailStatus = "RUNNING"
  <2>1. camp' = cs /\ pc' = "loop" /\ UNCHANGED <<job, it, inp, chair, cs, noImp, stop, pause, late>>
    BY <1>4 DEF IterationDone, local, controls
  <2>2. RunTypes' /\ CampTypes'
    BY <1>1, <1>2, <2>1 DEF CampaignInv, RunTypes, CampTypes, Phases, Campaigns, Places
  <2>3. JobInv'
    BY <1>1, <2>1 DEF JobInv, Iterating, AfterFreeze, BeforeBundle, AfterBundle, Integrating
  <2>4. PlaceInv' /\ MachineInv'
    BY <2>1, NoPlace
  <2>5. BoundsInv'
    <3>1. Counted(cs)' /\ Counted(camp)'
      BY <1>1, <1>2, <2>1 DEF Counted, Kept
    <3> QED BY <1>1, <2>1, <3>1 DEF BoundsInv, Iterating, AfterFreeze, BeforeBundle, AfterBundle, Integrating
  <2>6. StopInv'
    BY <1>1, <1>4, <2>1 DEF CampaignInv, StopInv
  <2> QED BY <1>2, <2>2, <2>3, <2>4, <2>5, <2>6 DEF CampaignInv
<1> QED BY <1>3, <1>4

\* readiness_history keeps its last two entries.
LEMMA LastTwoOK ==
  ASSUME NEW s \in Seq(Readiness) PROVE LastTwo(s) \in Seq(Readiness)
<1>1. Len(s) \in Nat
  BY LenProperties
<1>2. CASE Len(s) <= 2
  BY <1>2 DEF LastTwo
<1>3. CASE ~(Len(s) <= 2)
  <2>1. Len(s) - 1 \in 1..(Len(s) + 1) /\ Len(s) \in ((Len(s) - 1) - 1)..Len(s)
    BY <1>1, <1>3
  <2>2. SubSeq(s, Len(s) - 1, Len(s)) \in Seq(Readiness)
    BY <2>1, SubSeqProperties
  <2> QED BY <1>3, <2>2 DEF LastTwo
<1> QED BY <1>2, <1>3

\* The campaign's state once an iteration is accounted for.
LEMMA AccountedOK ==
  ASSUME CampaignInv, pc = "account"
  PROVE  /\ Accounted \in Campaigns /\ Accounted.iter = it
         /\ Accounted.calls = cs.calls + chair.calls /\ Accounted.calls < MaxModelCalls + 7
         /\ chair.kind # "failed" => \A m \in Iterations : m <= Accounted.iter => Frozen(m)
         /\ chair.kind # "failed" => doc.pr # 0
<1>1. /\ cs \in Campaigns /\ it \in Iterations /\ it \in 0..MaxIterations /\ job = "campaign"
      /\ chair \in [kind : {"none", "blocked", "failed", "text", "gates", "next"},
                    calls : 0..7, ready : Readiness \cup {Unscored}]
      /\ cs.calls < MaxModelCalls /\ cs.calls \in Nat
  <2>1. pc \in Iterating /\ job = "campaign"
    BY DEF CampaignInv, JobInv, Iterating
  <2> QED BY <2>1 DEF CampaignInv, CampTypes, RunTypes, PlaceInv, BoundsInv, Campaigns
<1>2. PICK h \in Seq(Readiness) : h = IF chair.ready = Unscored THEN cs.hist
                                      ELSE LastTwo(Append(cs.hist, chair.ready))
  <2>1. cs.hist \in Seq(Readiness)
    BY <1>1 DEF Campaigns
  <2>2. chair.ready # Unscored => LastTwo(Append(cs.hist, chair.ready)) \in Seq(Readiness)
    BY <1>1, <2>1, AppendProperties, LastTwoOK
  <2> QED BY <2>1, <2>2
<1>3. PICK l \in Readiness \cup {Unscored} : l = IF chair.ready = Unscored THEN cs.last ELSE chair.ready
  BY <1>1 DEF Campaigns
<1>4. cs.calls + chair.calls \in Nat /\ cs.calls + chair.calls < MaxModelCalls + 7
  BY <1>1, Numbers
<1>5. Accounted = [cs EXCEPT !.calls = cs.calls + chair.calls, !.iter = it, !.last = l, !.hist = h]
  BY <1>1, <1>2, <1>3 DEF Accounted, Campaigns
<1>6. /\ Accounted \in Campaigns /\ Accounted.iter = it
      /\ Accounted.calls = cs.calls + chair.calls
  BY <1>1, <1>4, <1>5 DEF Campaigns
<1>7. chair.kind # "failed" => \A m \in Iterations : m <= Accounted.iter => Frozen(m)
  <2>1. pc \in Iterating
    BY DEF Iterating
  <2>2. \A m \in Iterations : m <= it => m < it \/ m = it
    BY <1>1, Numbers
  <2> QED BY <1>6, <2>1, <2>2 DEF CampaignInv, PlaceInv
<1>8. chair.kind # "failed" => doc.pr # 0
  BY <1>1 DEF CampaignInv, PlaceInv, ChainInv
<1> QED BY <1>4, <1>6, <1>7, <1>8

\* The outcome of the panel is accounted for, and decides where the campaign goes.
LEMMA AccountStep == ASSUME CampaignInv, Account PROVE CampaignInv'
<1>1. /\ pc = "account" /\ job = "campaign" /\ it \in Iterations
      /\ UNCHANGED <<machine, runs, crashes, doc, rev, edits, art, next>>
  BY DEF Account, CampaignInv, JobInv, PlaceInv, Iterating, documents, evidence, history
<1>2. /\ FileTypes' /\ ChainInv' /\ Kept /\ StandingInv' /\ machine' \in Phases
      /\ runs' \in 0..MaxRuns /\ edits' \in 0..MaxEdits /\ crashes' \in 0..MaxCrashes
  <2>1. FileTypes'
    BY <1>1 DEF CampaignInv, FileTypes, Pairs, Evidence
  <2>2. ChainInv' /\ Kept /\ StandingInv'
    BY <1>1, ChainFrame, StandingFrame DEF CampaignInv
  <2> QED BY <1>1, <2>1, <2>2 DEF CampaignInv, RunTypes, Phases
<1>3. PICK a : a = Accounted
  OBVIOUS
<1>4. /\ a \in Campaigns /\ a.iter = it /\ a.calls < MaxModelCalls + 7
      /\ chair.kind # "failed" => \A m \in Iterations : m <= a.iter => Frozen(m)
      /\ chair.kind # "failed" => doc.pr # 0
  BY <1>1, <1>3, AccountedOK
<1>5. CASE chair.kind = "blocked"
  <2>1. Finish(a, "WAITING_FOR_OPERATOR") /\ "WAITING_FOR_OPERATOR" \in Resumable
    BY <1>3, <1>5 DEF Account, Resumable
  <2>2. (\A m \in Iterations : m <= a.iter => Frozen(m)') /\ doc'.pr # 0
    BY <1>1, <1>2, <1>4, <1>5 DEF Kept
  <2> QED BY <1>2, <1>4, <2>1, <2>2, FinishStep
<1>6. CASE chair.kind = "failed"
  <2>1. Finish(a, "FAILED")
    BY <1>3, <1>6 DEF Account
  <2> QED BY <1>2, <1>4, <2>1, FinishStep
<1>7. CASE chair.kind \notin {"blocked", "failed"}
  <2>1. /\ cs' = a /\ noImp' = Improvement(a.hist, noImp)
        /\ UNCHANGED <<job, it, inp, chair, stop, pause, late>>
        /\ \/ machine = "HARD_GATE_VALIDATION" /\ camp' = a /\ pc' = "gates"
           \/ machine # "HARD_GATE_VALIDATION" /\ camp' = camp /\ pc' = "tail"
    BY <1>3, <1>7 DEF Account, controls
  <2>2. noImp' \in Nat
    BY <2>1 DEF Improvement, CampaignInv, RunTypes
  <2>3. RunTypes' /\ CampTypes'
    <3>1. pc' \in Places
      BY <2>1 DEF Places
    <3>2. RunTypes'
      BY <1>1, <1>2, <2>1, <2>2, <3>1 DEF CampaignInv, RunTypes, Phases
    <3>3. camp' \in Campaigns /\ cs' \in Campaigns
      BY <1>4, <2>1 DEF CampaignInv, CampTypes
    <3> QED BY <3>2, <3>3 DEF CampTypes, Campaigns
  <2>4. JobInv' /\ MachineInv'
    BY <1>1, <2>1 DEF JobInv, MachineInv, Iterating, AfterFreeze, BeforeBundle, AfterBundle, Integrating
  <2>5. PlaceInv'
    <3>1. art[it].bundle /\ IsLast(it)
      BY <1>1, <1>7 DEF CampaignInv, PlaceInv
    <3>2. it' = it /\ art'[it].bundle /\ IsLast(it)'
      BY <1>1, <2>1, <3>1 DEF IsLast, Frozen
    <3>3. pc' \in {"gates", "tail"}
      BY <2>1
    <3> QED BY <1>1, <3>2, <3>3 DEF PlaceInv, Iterating, AfterFreeze, BeforeBundle, AfterBundle, Integrating
  <2>6. StopInv'
    BY <2>1, StopFrame DEF CampaignInv
  <2>7. BoundsInv'
    <3>1. Counted(cs)'
      BY <1>1, <1>2, <1>4, <1>7, <2>1 DEF Counted, Kept
    <3>2. camp'.calls < MaxModelCalls + 7 /\ (camp'.status # "FAILED" => Counted(camp)')
      <4>1. CASE camp' = a
        BY <1>4, <2>1, <3>1, <4>1 DEF Counted
      <4>2. CASE camp' = camp
        BY <1>2, <4>2, CountedFrame DEF CampaignInv
      <4> QED BY <2>1, <4>1, <4>2
    <3>3. pc' \notin Iterating /\ pc' # "generate"
      BY <2>1 DEF Iterating, AfterFreeze, BeforeBundle, AfterBundle, Integrating
    <3> QED BY <1>4, <2>1, <3>1, <3>2, <3>3 DEF BoundsInv
  <2> QED BY <1>2, <2>3, <2>4, <2>5, <2>6, <2>7 DEF CampaignInv
<1> QED BY <1>5, <1>6, <1>7

\* The calls of a generation are counted before any other.
LEMMA GenerationCalls ==
  ASSUME CampaignInv, pc = "generate", job = "campaign", NEW counted \in {0, 4},
         NEW c, c = [cs EXCEPT !.calls = @ + counted]
  PROVE  /\ c \in Campaigns /\ c.calls < MaxModelCalls + 7
         /\ \A m \in Iterations : m <= c.iter => Frozen(m)
<1>1. cs \in Campaigns /\ cs.calls = 0 /\ Counted(cs)
  BY DEF CampaignInv, CampTypes, BoundsInv
<1>2. c \in Campaigns /\ c.calls = counted /\ c.iter = cs.iter
  BY <1>1 DEF Campaigns
<1>3. c.calls < MaxModelCalls + 7
  BY <1>2, Numbers
<1> QED BY <1>1, <1>2, <1>3 DEF Counted

LEMMA GenerationFailsStep ==
  ASSUME CampaignInv, pc = "generate", GenerationFails,
         FileTypes', ChainInv', StandingInv', Kept, machine' \in Phases,
         runs' \in 0..MaxRuns, edits' \in 0..MaxEdits, crashes' \in 0..MaxCrashes
  PROVE  CampaignInv'
<1>1. CASE job = "campaign"
  <2>1. PICK counted \in {0, 4} : Finish([cs EXCEPT !.calls = @ + counted], "FAILED")
    BY <1>1 DEF GenerationFails
  <2>2. PICK c : c = [cs EXCEPT !.calls = @ + counted]
    OBVIOUS
  <2>3. c \in Campaigns /\ c.calls < MaxModelCalls + 7
    BY <1>1, <2>2, GenerationCalls
  <2>4. Finish(c, "FAILED")
    BY <2>1, <2>2
  <2> QED BY <2>3, <2>4, FinishStep
<1>2. CASE job # "campaign"
  <2>1. GoesIdle /\ camp' = camp
    BY <1>2 DEF GenerationFails
  <2>2. camp' \in Campaigns
    BY <2>1 DEF CampaignInv, CampTypes, Campaigns
  <2>3. camp'.calls < MaxModelCalls + 7 /\ (camp'.status # "FAILED" => Counted(camp)')
    BY <2>1, CountedFrame DEF CampaignInv
  <2> QED BY <2>1, <2>2, <2>3, EndStep
<1> QED BY <1>1, <1>2

LEMMA GenerationDoneStep ==
  ASSUME CampaignInv, pc = "generate", GenerationDone, doc'.pr # 0,
         FileTypes', ChainInv', StandingInv', Kept, machine' \in Phases, rev <= rev',
         UNCHANGED <<runs, edits, crashes>>
  PROVE  CampaignInv'
<1>1. /\ runs' \in 0..MaxRuns /\ edits' \in 0..MaxEdits /\ crashes' \in 0..MaxCrashes
  BY DEF CampaignInv, RunTypes
<1>2. CASE job # "campaign"
  <2>1. GoesIdle /\ camp' = camp
    BY <1>2 DEF GenerationDone
  <2>2. camp' \in Campaigns
    BY <2>1 DEF CampaignInv, CampTypes, Campaigns
  <2>3. camp'.calls < MaxModelCalls + 7 /\ (camp'.status # "FAILED" => Counted(camp)')
    BY <2>1, CountedFrame DEF CampaignInv
  <2> QED BY <1>1, <2>1, <2>2, <2>3, EndStep
<1>3. CASE job = "campaign"
  <2>1. PICK c : c = [cs EXCEPT !.calls = @ + 4]
    OBVIOUS
  <2>2. /\ c \in Campaigns /\ c.calls < MaxModelCalls + 7
        /\ \A m \in Iterations : m <= c.iter => Frozen(m)
    BY <1>3, <2>1, GenerationCalls
  <2>3. \A m \in Iterations : m <= c.iter => Frozen(m)'
    BY <2>2 DEF Kept
  <2>4. CASE stop
    <3>1. Finish(c, "STOPPED") /\ "STOPPED" \in Resumable
      BY <1>3, <2>1, <2>4 DEF GenerationDone, Resumable
    <3> QED BY <1>1, <2>2, <2>3, <3>1, FinishStep
  <2>5. CASE ~stop /\ pause
    <3>1. Finish(c, "PAUSED") /\ "PAUSED" \in Resumable
      BY <1>3, <2>1, <2>5 DEF GenerationDone, Resumable
    <3> QED BY <1>1, <2>2, <2>3, <3>1, FinishStep
  <2>6. CASE ~stop /\ ~pause
    <3>1. /\ cs' = c /\ camp' = c /\ pc' = "loop"
          /\ UNCHANGED <<job, it, inp, chair, noImp, stop, pause, late>>
      BY <1>3, <2>1, <2>6 DEF GenerationDone, controls
    <3>2. inp' \in [bp : 0..rev', pr : 0..rev', base : 0..rev']
      BY <3>1, Widens DEF CampaignInv, FileTypes, RunTypes
    <3>3. RunTypes'
      BY <1>1, <3>1, <3>2 DEF CampaignInv, RunTypes, Phases, Places
    <3>4. CampTypes'
      BY <2>2, <3>1 DEF CampTypes, Campaigns
    <3>5. JobInv'
      BY <1>3, <3>1 DEF JobInv, Iterating, AfterFreeze, BeforeBundle, AfterBundle, Integrating
    <3>6. PlaceInv' /\ MachineInv'
      BY <3>1, NoPlace
    <3>7. StopInv'
      BY <3>1, StopFrame DEF CampaignInv
    <3>8. Counted(cs)' /\ Counted(camp)'
      BY <2>3, <3>1 DEF Counted
    <3>9. BoundsInv'
      BY <2>2, <3>1, <3>8 DEF BoundsInv, Iterating, AfterFreeze, BeforeBundle, AfterBundle, Integrating
    <3> QED BY <3>3, <3>4, <3>5, <3>6, <3>7, <3>9 DEF CampaignInv
  <2> QED BY <2>4, <2>5, <2>6
<1> QED BY <1>2, <1>3

\* The initial proposal is generated, refused, or left half done.
LEMMA GenerateStep == ASSUME CampaignInv, Generate PROVE CampaignInv'
<1>1. pc = "generate" /\ UNCHANGED <<art, next, runs, crashes>>
  BY DEF Generate, evidence, history
<1>2. runs' \in 0..MaxRuns /\ crashes' \in 0..MaxCrashes
  BY <1>1 DEF CampaignInv, RunTypes
<1>3. ASSUME UNCHANGED <<doc, rev, edits>>, GenerationFails, machine' \in {machine, "INTEGRATION"}
      PROVE  CampaignInv'
  <2>1. FileTypes'
    BY <1>1, <1>3 DEF CampaignInv, FileTypes, Pairs, Evidence
  <2>2. ChainInv' /\ Kept /\ StandingInv'
    BY <1>1, <1>3, ChainFrame, StandingFrame DEF CampaignInv
  <2>3. machine' \in Phases /\ edits' \in 0..MaxEdits
    BY <1>3 DEF CampaignInv, RunTypes, Phases
  <2> QED BY <1>1, <1>2, <1>3, <2>1, <2>2, <2>3, GenerationFailsStep
<1>4. ASSUME NEW bp \in {doc.bp, rev + 1}, Generated(bp), machine' = machine,
             GenerationDone \/ GenerationFails
      PROVE  CampaignInv'
  <2>1. /\ doc' = [bp |-> bp, pr |-> rev + 1] /\ rev' = rev + 1 /\ edits' = edits
        /\ rev \in Nat /\ rev' \in Nat /\ rev <= rev' /\ doc \in Pairs /\ rev + 1 # 0
    BY <1>4 DEF Generated, CampaignInv, FileTypes
  <2>2. Pairs \subseteq Pairs' /\ Evidence \subseteq Evidence' /\ 0..rev \subseteq 0..rev'
    BY <2>1, Widens
  <2>3. FileTypes'
    <3>1. doc' \in Pairs'
      <4>1. rev + 1 \in 0..rev' /\ doc.bp \in 0..rev'
        BY <2>1, <2>2 DEF Pairs
      <4> QED BY <1>4, <2>1, <4>1 DEF Pairs
    <3>2. art' \in [Iterations -> Evidence'] /\ next' \in [prev : 0..MaxIterations, reviewed : 0..rev', revised : 0..rev']
      BY <1>1, <2>2 DEF CampaignInv, FileTypes
    <3> QED BY <2>1, <3>1, <3>2 DEF FileTypes
  <2>4. doc'.pr # 0
    BY <2>1
  <2>5. ChainInv' /\ Kept /\ StandingInv'
    BY <1>1, <1>4, <2>4, ChainFrame, StandingFrame DEF CampaignInv
  <2>6. machine' \in Phases /\ edits' \in 0..MaxEdits
    BY <1>4, <2>1 DEF CampaignInv, RunTypes, Phases
  <2> QED BY <1>1, <1>2, <1>4, <2>1, <2>3, <2>4, <2>5, <2>6, GenerationFailsStep, GenerationDoneStep
<1> QED BY <1>3, <1>4 DEF Generate, documents


-----------------------------------------------------------------------------
(* The worker: writing the evidence of its iteration *)

\* What the evidence of a begun iteration says by itself.
ChainOf(e) ==
  /\ e.frozen # NoPair /\ e.frozen.pr # 0
  /\ e.bundle => e.reviews
  /\ e.post # NoPair => e.bundle
  /\ e.result # NoResult =>
       /\ e.bundle /\ e.result.from = e.frozen.pr
       /\ IF e.clean THEN e.result.to = e.frozen.pr ELSE e.result.to = e.post.pr
  /\ e.gates # NoGates => e.bundle /\ e.gates.doc = e.frozen
  /\ e.gates.outcome = "none" => e.gates = NoGates

LEMMA ChainHolds ==
  ASSUME ChainInv, NEW n \in Iterations, Frozen(n) PROVE ChainOf(art[n])
BY DEF ChainInv, ChainOf, EvidenceChain, GatesJudgeReviewedPair, Frozen

\* Nothing is written: the machine stays, or goes where it says nothing.
LEMMA FilesFrame ==
  ASSUME CampaignInv, UNCHANGED <<doc, rev, art, next>>, machine' \in Phases,
         \/ machine' = machine
         \/ machine' \notin {"IDLE", "REVISION_REQUIRED", "HARD_GATE_VALIDATION"}
  PROVE  FileTypes' /\ ChainInv' /\ StandingInv' /\ Kept
<1>1. FileTypes'
  BY DEF CampaignInv, FileTypes, Pairs, Evidence
<1> QED BY <1>1, ChainFrame, StandingFrame DEF CampaignInv

\* The worker writes evidence of its iteration.
LEMMA WriteStep ==
  ASSUME CampaignInv, it \in Iterations, NEW e \in Evidence, art' = [art EXCEPT ![it] = e],
         UNCHANGED <<doc, rev, next>>, ChainOf(e), doc.pr # 0,
         \A m \in Iterations : m < it => art[m].bundle, e.bundle \/ IsLast(it)
  PROVE  FileTypes' /\ ChainInv' /\ Kept
<1>1. art'[it] = e /\ \A n \in Iterations : n # it => art'[n] = art[n]
  BY DEF CampaignInv, FileTypes
<1>2. FileTypes'
  <2>1. art' \in [Iterations -> Evidence]
    BY DEF CampaignInv, FileTypes
  <2> QED BY <2>1 DEF CampaignInv, FileTypes, Pairs, Evidence
<1>3. \A n \in Iterations : Frozen(n)' => ChainOf(art'[n])
  <2> SUFFICES ASSUME NEW n \in Iterations, Frozen(n)' PROVE ChainOf(art'[n])
    OBVIOUS
  <2>1. CASE n = it
    BY <1>1, <2>1
  <2>2. CASE n # it
    <3>1. Frozen(n) /\ art'[n] = art[n]
      BY <1>1, <2>2 DEF Frozen
    <3>2. ChainOf(art[n])
      BY <3>1, ChainHolds DEF CampaignInv
    <3> QED BY <3>1, <3>2
  <2> QED BY <2>1, <2>2
<1>4. \A n \in Iterations : ~Frozen(n)' =>
        /\ ~art'[n].reviews /\ ~art'[n].bundle /\ art'[n].post = NoPair /\ art'[n].result = NoResult
        /\ art'[n].gates = NoGates
  <2> SUFFICES ASSUME NEW n \in Iterations, ~Frozen(n)'
               PROVE  /\ ~art'[n].reviews /\ ~art'[n].bundle /\ art'[n].post = NoPair
                      /\ art'[n].result = NoResult /\ art'[n].gates = NoGates
    OBVIOUS
  <2>1. n # it
    BY <1>1 DEF Frozen, ChainOf
  <2>2. art'[n] = art[n] /\ ~Frozen(n)
    BY <1>1, <2>1 DEF Frozen
  <2> QED BY <2>2 DEF CampaignInv, ChainInv, EvidenceChain, GatesJudgeReviewedPair, Frozen
<1>5. \A m, n \in Iterations : m < n /\ Frozen(n)' => art'[m].bundle
  <2> SUFFICES ASSUME NEW m \in Iterations, NEW n \in Iterations, m < n, Frozen(n)' PROVE art'[m].bundle
    OBVIOUS
  <2>1. m \in Nat /\ n \in Nat /\ m # n
    BY Numbers
  <2>2. CASE n = it
    BY <1>1, <2>1, <2>2
  <2>3. CASE n # it
    <3>1. Frozen(n) /\ art[m].bundle
      BY <1>1, <2>3 DEF Frozen, CampaignInv, ChainInv
    <3>2. m = it => e.bundle
      BY <2>1, <3>1 DEF IsLast
    <3> QED BY <1>1, <3>1, <3>2
  <2> QED BY <2>2, <2>3
<1>6. Kept
  BY <1>1 DEF Kept, Frozen, ChainOf
<1>7. EvidenceChain'
  <2> SUFFICES ASSUME NEW n \in Iterations
               PROVE  /\ art'[n].reviews => art'[n].frozen # NoPair
                      /\ art'[n].bundle => art'[n].reviews
                      /\ art'[n].post # NoPair => art'[n].bundle
                      /\ art'[n].result # NoResult =>
                           /\ art'[n].bundle
                           /\ art'[n].result.from = art'[n].frozen.pr
                           /\ IF art'[n].clean THEN art'[n].result.to = art'[n].frozen.pr
                                              ELSE art'[n].result.to = art'[n].post.pr
    BY DEF EvidenceChain
  <2>1. CASE Frozen(n)'
    BY <1>3, <2>1 DEF ChainOf
  <2>2. CASE ~Frozen(n)'
    BY <1>4, <2>2
  <2> QED BY <2>1, <2>2
<1>8. GatesJudgeReviewedPair'
  BY <1>3, <1>4 DEF GatesJudgeReviewedPair, ChainOf
<1>9. \A n \in Iterations : Frozen(n)' => art'[n].frozen.pr # 0 /\ doc'.pr # 0
  BY <1>3 DEF ChainOf
<1>10. \A n \in Iterations : art'[n].gates.outcome = "none" => art'[n].gates = NoGates
  BY <1>3, <1>4 DEF ChainOf
<1>11. ChainInv'
  BY <1>5, <1>7, <1>8, <1>9, <1>10 DEF ChainInv, Frozen
<1> QED BY <1>2, <1>6, <1>11

\* The bundle of the last iteration is the last bundle.
LEMMA LastBundled ==
  ASSUME CampaignInv, it \in Iterations, art[it].bundle, IsLast(it)
  PROVE  /\ Frozen(it) /\ doc.pr # 0 /\ ChainOf(art[it])
         /\ \A m \in Iterations : m < it => art[m].bundle
         /\ \A n \in Iterations : Frozen(n) => art[n].bundle
         /\ next # NoHandoff /\ next.prev # it => ~IsLast(next.prev)
<1>1. Frozen(it)
  BY DEF CampaignInv, ChainInv, EvidenceChain, Frozen
<1>2. doc.pr # 0 /\ ChainOf(art[it])
  BY <1>1, ChainHolds DEF CampaignInv, ChainInv
<1>3. \A m \in Iterations : m < it => art[m].bundle
  BY <1>1 DEF CampaignInv, ChainInv
<1>4. \A n \in Iterations : Frozen(n) => n < it \/ n = it
  BY Numbers DEF IsLast
<1>5. \A n \in Iterations : Frozen(n) => art[n].bundle
  BY <1>3, <1>4
<1>6. ASSUME next # NoHandoff, next.prev # it PROVE ~IsLast(next.prev)
  <2>1. next.prev \in Iterations /\ art[next.prev].result # NoResult
    BY <1>6 DEF CampaignInv, StandingInv
  <2>2. Frozen(next.prev)
    BY <2>1 DEF CampaignInv, ChainInv, EvidenceChain, Frozen
  <2>3. next.prev < it
    BY <1>4, <1>6, <2>1, <2>2
  <2> QED BY <1>1, <2>3 DEF IsLast
<1> QED BY <1>1, <1>2, <1>3, <1>5, <1>6


\* What the iteration writes leaves a handoff true.
LEMMA StandingWrite ==
  ASSUME CampaignInv, it \in Iterations, NEW e \in Evidence, art' = [art EXCEPT ![it] = e], next' = next,
         art[it].result # NoResult => e.result # NoResult /\ e.gates = art[it].gates,
         machine' \notin {"IDLE", "REVISION_REQUIRED", "HARD_GATE_VALIDATION"}
  PROVE  StandingInv'
<1>1. art'[it] = e /\ \A n \in Iterations : n # it => art'[n] = art[n]
  BY DEF CampaignInv, FileTypes
<1>2. next # NoHandoff => /\ next.prev \in Iterations /\ art'[next.prev].result # NoResult
                          /\ art'[next.prev].gates = NoGates
  BY <1>1 DEF CampaignInv, StandingInv
<1> QED BY <1>2 DEF StandingInv

\* The panel freezes the pair it reviews, unless its iteration is taken.
LEMMA EnterPanelStep == ASSUME CampaignInv, EnterPanel PROVE CampaignInv'
<1>1. /\ pc = "enter" /\ pc \in Iterating \ {"account"} /\ UNCHANGED <<doc, rev, edits, next, runs, crashes>>
      /\ it \in Iterations /\ \A m \in Iterations : m < it => Frozen(m)
  BY DEF EnterPanel, documents, history, CampaignInv, PlaceInv, Iterating
<1>2. ASSUME PanelFails, art' = art,
             machine' \in {machine, "FAILED", "SOURCE_VALIDATION", "SCIENTIFIC_REVIEW"}
      PROVE  CampaignInv'
  <2>1. machine' \in Phases
    BY <1>2 DEF CampaignInv, RunTypes, Phases
  <2>2. FileTypes' /\ ChainInv' /\ StandingInv' /\ Kept
    BY <1>1, <1>2, <2>1, FilesFrame
  <2> QED BY <1>1, <1>2, <2>1, <2>2, ChairStep DEF PanelFails
<1>3. ASSUME machine \in PanelPhases, doc.pr # 0, CanFreeze(it),
             art' = [art EXCEPT ![it].frozen = doc, ![it].by = Author],
             machine' = "SCIENTIFIC_REVIEW", chair' = chair,
             inp' = [bp |-> doc.bp, pr |-> doc.pr, base |-> doc.pr], Continue("reviews")
      PROVE  CampaignInv'
  <2>1. PICK e : e = [art[it] EXCEPT !.frozen = doc, !.by = Author]
    OBVIOUS
  <2>2. art' = [art EXCEPT ![it] = e]
    BY <1>3, <2>1
  <2>3. /\ e \in Evidence /\ e.frozen = doc /\ e.reviews = art[it].reviews
        /\ e.bundle = art[it].bundle /\ e.clean = art[it].clean /\ e.post = art[it].post
        /\ e.result = art[it].result /\ e.gates = art[it].gates
    <3>1. art[it] \in Evidence /\ doc \in Pairs /\ Author \in {"", "campaign", "rev"}
      BY <1>1 DEF CampaignInv, FileTypes, Author
    <3> QED BY <2>1, <3>1 DEF Evidence
  <2>4. doc # NoPair
    BY <1>3 DEF NoPair
  <2>5. ~Frozen(it) => /\ ~art[it].reviews /\ ~art[it].bundle /\ art[it].post = NoPair
                       /\ art[it].result = NoResult /\ art[it].gates = NoGates
    BY <1>1 DEF CampaignInv, ChainInv, EvidenceChain, GatesJudgeReviewedPair, Frozen
  <2>6. ChainOf(e)
    <3>1. CASE Frozen(it)
      <4>1. ChainOf(art[it]) /\ art[it].frozen = doc
        BY <1>1, <1>3, <3>1, ChainHolds DEF CampaignInv, CanFreeze, Frozen
      <4> QED BY <2>3, <4>1 DEF ChainOf
    <3>2. CASE ~Frozen(it)
      <4>1. art[it].gates = NoGates
        BY <2>5, <3>2
      <4> QED BY <1>3, <2>3, <2>4, <2>5, <3>2, <4>1 DEF ChainOf
    <3> QED BY <3>1, <3>2
  <2>7. \A n \in Iterations : Frozen(n) => art[n].bundle
    BY <1>3 DEF CampaignInv, StandingInv, PanelPhases
  <2>8. e.bundle \/ IsLast(it)
    <3>1. CASE Frozen(it)
      BY <1>1, <2>3, <2>7, <3>1
    <3>2. CASE ~Frozen(it)
      <4>1. ~art[it].bundle
        BY <2>5, <3>2
      <4>2. \A k \in Iterations : k > it => ~Frozen(k)
        BY <1>1, <4>1, Numbers DEF CampaignInv, ChainInv
      <4> QED BY <4>2 DEF IsLast
    <3> QED BY <3>1, <3>2
  <2>9. \A m \in Iterations : m < it => art[m].bundle
    BY <1>1, <2>7
  <2>10. FileTypes' /\ ChainInv' /\ Kept
    BY <1>1, <1>3, <2>2, <2>3, <2>6, <2>8, <2>9, WriteStep
  <2>11. StandingInv'
    BY <1>1, <1>3, <2>2, <2>3, StandingWrite
  <2>12. it' = it /\ pc' = "reviews" /\ art'[it] = e
    BY <1>1, <1>3, <2>2 DEF Continue, CampaignInv, FileTypes
  <2>13. inp' \in [bp : 0..rev', pr : 0..rev', base : 0..rev']
    BY <1>1, <1>3 DEF CampaignInv, FileTypes, Pairs
  <2>14. chair' \in [kind : {"none", "blocked", "failed", "text", "gates", "next"},
                     calls : 0..7, ready : Readiness \cup {Unscored}]
    BY <1>3 DEF CampaignInv, RunTypes
  <2>15. PlaceInv'
    <3>1. art'[it'].frozen # NoPair /\ inp'.pr # 0
      BY <1>3, <2>3, <2>4, <2>12
    <3>2. \A m \in Iterations : m < it' => Frozen(m)'
      BY <1>1, <2>10, <2>12 DEF Kept
    <3> QED BY <1>1, <2>12, <3>1, <3>2 DEF Frozen, PlaceInv, BeforeBundle, AfterBundle, Integrating
  <2>16. MachineInv'
    BY <1>3, <2>12 DEF MachineInv, AfterBundle, Integrating
  <2>17. machine' \in Phases /\ "reviews" \in Places /\ "reviews" \in AfterFreeze
    BY <1>3 DEF Phases, Places, Iterating, AfterFreeze, BeforeBundle
  <2> QED BY <1>1, <1>3, <2>10, <2>11, <2>13, <2>14, <2>15, <2>16, <2>17, ContinueStep
<1> QED BY <1>2, <1>3 DEF EnterPanel, Entered, PanelPhases

\* The reviews are recorded, or the iteration ends without them.
LEMMA ReviewsStep == ASSUME CampaignInv, Reviews PROVE CampaignInv'
<1>1. /\ pc = "reviews" /\ pc \in Iterating \ {"account"} /\ UNCHANGED <<doc, rev, edits, next, runs, crashes>>
      /\ it \in Iterations /\ (\A m \in Iterations : m < it => Frozen(m)) /\ Frozen(it) /\ inp.pr # 0
      /\ machine = "SCIENTIFIC_REVIEW"
  BY DEF Reviews, documents, history, CampaignInv, PlaceInv, MachineInv, Iterating, AfterFreeze, BeforeBundle
<1>2. CASE PanelFails /\ UNCHANGED <<machine, art>>
  <2>1. machine' \in Phases
    BY <1>2 DEF CampaignInv, RunTypes
  <2>2. FileTypes' /\ ChainInv' /\ StandingInv' /\ Kept
    BY <1>1, <1>2, <2>1, FilesFrame
  <2> QED BY <1>1, <1>2, <2>1, <2>2, ChairStep DEF PanelFails
<1>3. ASSUME doc.pr = inp.pr, art' = [art EXCEPT ![it].reviews = TRUE], machine' \in {machine, "BLOCKED"},
             \/ ChairReturns("blocked", 3, Unscored)
             \/ machine' = machine /\ Continue("bundle") /\ UNCHANGED <<inp, chair>>
      PROVE  CampaignInv'
  <2>1. PICK e : e = [art[it] EXCEPT !.reviews = TRUE]
    OBVIOUS
  <2>2. art' = [art EXCEPT ![it] = e]
    BY <1>3, <2>1
  <2>3. /\ e \in Evidence /\ e.frozen = art[it].frozen /\ e.reviews
        /\ e.bundle = art[it].bundle /\ e.clean = art[it].clean /\ e.post = art[it].post
        /\ e.result = art[it].result /\ e.gates = art[it].gates
    <3>1. art[it] \in Evidence
      BY <1>1 DEF CampaignInv, FileTypes
    <3> QED BY <2>1, <3>1 DEF Evidence
  <2>4. ChainOf(e)
    <3>1. ChainOf(art[it])
      BY <1>1, ChainHolds DEF CampaignInv
    <3> QED BY <2>3, <3>1 DEF ChainOf
  <2>5. e.bundle \/ IsLast(it)
    BY <1>1, <2>3, Numbers DEF CampaignInv, ChainInv, IsLast
  <2>6. \A m \in Iterations : m < it => art[m].bundle
    BY <1>1 DEF CampaignInv, ChainInv
  <2>7. FileTypes' /\ ChainInv' /\ Kept
    BY <1>1, <1>3, <2>2, <2>3, <2>4, <2>5, <2>6, WriteStep
  <2>8. machine' \notin {"IDLE", "REVISION_REQUIRED", "HARD_GATE_VALIDATION"} /\ machine' \in Phases
    BY <1>1, <1>3 DEF Phases
  <2>9. StandingInv'
    BY <1>1, <2>2, <2>3, <2>8, StandingWrite
  <2>10. art'[it] = e /\ art'[it].reviews /\ art'[it].frozen # NoPair
    BY <1>1, <2>2, <2>3 DEF CampaignInv, FileTypes, Frozen
  <2>11. CASE ChairReturns("blocked", 3, Unscored)
    BY <1>1, <2>7, <2>8, <2>9, <2>10, <2>11, ChairStep
  <2>12. CASE machine' = machine /\ Continue("bundle") /\ UNCHANGED <<inp, chair>>
    <3>1. it' = it /\ pc' = "bundle" /\ inp' = inp
      BY <2>12 DEF Continue
    <3>2. inp' \in [bp : 0..rev', pr : 0..rev', base : 0..rev']
      BY <1>1, <2>12 DEF CampaignInv, RunTypes
    <3>3. chair' \in [kind : {"none", "blocked", "failed", "text", "gates", "next"},
                      calls : 0..7, ready : Readiness \cup {Unscored}]
      BY <2>12 DEF CampaignInv, RunTypes
    <3>4. PlaceInv'
      <4>1. Frozen(it)' /\ \A m \in Iterations : m < it' => Frozen(m)'
        BY <1>1, <2>7, <2>10, <3>1 DEF Kept, Frozen
      <4>2. art'[it'].reviews
        BY <2>10, <3>1
      <4> QED BY <1>1, <3>1, <4>1, <4>2 DEF PlaceInv, BeforeBundle, AfterBundle, Integrating
    <3>5. MachineInv'
      BY <1>1, <2>12, <3>1 DEF MachineInv, AfterBundle, Integrating
    <3>6. "bundle" \in Places /\ "bundle" \in AfterFreeze
      BY DEF Places, Iterating, AfterFreeze, BeforeBundle
    <3> QED BY <1>1, <2>7, <2>8, <2>9, <2>12, <3>2, <3>3, <3>4, <3>5, <3>6, ContinueStep
  <2> QED BY <1>3, <2>11, <2>12
<1> QED BY <1>2, <1>3 DEF Reviews


\* The review bundle closes the reviews; the consensus round follows.
LEMMA BundleStep == ASSUME CampaignInv, Bundle PROVE CampaignInv'
<1>1. /\ pc = "bundle" /\ pc \in Iterating \ {"account"} /\ UNCHANGED <<doc, rev, edits, next, runs, crashes>>
      /\ it \in Iterations /\ (\A m \in Iterations : m < it => Frozen(m)) /\ Frozen(it) /\ inp.pr # 0
      /\ machine = "SCIENTIFIC_REVIEW" /\ art[it].reviews /\ machine' = "INTEGRATION"
  BY DEF Bundle, documents, history, CampaignInv, PlaceInv, MachineInv, Iterating, AfterFreeze, BeforeBundle
<1>2. machine' \in Phases /\ machine' \notin {"IDLE", "REVISION_REQUIRED", "HARD_GATE_VALIDATION"}
  BY <1>1 DEF Phases
<1>3. CASE PanelFails /\ UNCHANGED art
  <2>1. FileTypes' /\ ChainInv' /\ StandingInv' /\ Kept
    BY <1>1, <1>2, <1>3, FilesFrame
  <2> QED BY <1>1, <1>2, <1>3, <2>1, ChairStep DEF PanelFails
<1>4. ASSUME ~art[it].bundle, NEW clean \in BOOLEAN,
             art' = [art EXCEPT ![it].bundle = TRUE, ![it].clean = clean],
             \/ PanelFails
             \/ inp' = [inp EXCEPT !.bp = doc.bp] /\ Continue("consensus") /\ UNCHANGED chair
      PROVE  CampaignInv'
  <2>1. PICK e : e = [art[it] EXCEPT !.bundle = TRUE, !.clean = clean]
    OBVIOUS
  <2>2. art' = [art EXCEPT ![it] = e]
    BY <1>1, <1>4, <2>1 DEF CampaignInv, FileTypes
  <2>3. /\ e \in Evidence /\ e.frozen = art[it].frozen /\ e.reviews = art[it].reviews
        /\ e.bundle /\ e.clean = clean /\ e.post = art[it].post
        /\ e.result = art[it].result /\ e.gates = art[it].gates
    <3>1. art[it] \in Evidence
      BY <1>1 DEF CampaignInv, FileTypes
    <3> QED BY <2>1, <3>1 DEF Evidence
  <2>4. art[it].post = NoPair /\ art[it].result = NoResult /\ art[it].gates = NoGates
    BY <1>1, <1>4 DEF CampaignInv, ChainInv, EvidenceChain, GatesJudgeReviewedPair
  <2>5. ChainOf(e)
    <3>1. ChainOf(art[it])
      BY <1>1, ChainHolds DEF CampaignInv
    <3> QED BY <1>1, <2>3, <2>4, <3>1 DEF ChainOf
  <2>6. IsLast(it)
    BY <1>1, <1>4, Numbers DEF CampaignInv, ChainInv, IsLast
  <2>7. doc.pr # 0 /\ \A m \in Iterations : m < it => art[m].bundle
    BY <1>1 DEF CampaignInv, ChainInv
  <2>8. FileTypes' /\ ChainInv' /\ Kept
    BY <1>1, <2>2, <2>3, <2>5, <2>6, <2>7, WriteStep
  <2>9. StandingInv'
    BY <1>1, <1>2, <2>2, <2>3, StandingWrite
  <2>10. art'[it] = e /\ \A k \in Iterations : k > it => art'[k] = art[k]
    BY <1>1, <2>2, Numbers DEF CampaignInv, FileTypes
  <2>11. CASE PanelFails
    BY <1>1, <1>2, <2>8, <2>9, <2>11, ChairStep DEF PanelFails
  <2>12. CASE inp' = [inp EXCEPT !.bp = doc.bp] /\ Continue("consensus") /\ UNCHANGED chair
    <3>1. it' = it /\ pc' = "consensus"
      BY <2>12 DEF Continue
    <3>2. inp' \in [bp : 0..rev', pr : 0..rev', base : 0..rev'] /\ inp'.pr = inp.pr
      <4>1. inp \in [bp : 0..rev, pr : 0..rev, base : 0..rev] /\ doc.bp \in 0..rev
        BY DEF CampaignInv, RunTypes, FileTypes, Pairs
      <4> QED BY <1>1, <2>12, <4>1
    <3>3. chair' \in [kind : {"none", "blocked", "failed", "text", "gates", "next"},
                      calls : 0..7, ready : Readiness \cup {Unscored}]
      BY <2>12 DEF CampaignInv, RunTypes
    <3>4. PlaceInv'
      <4>1. Frozen(it)' /\ IsLast(it)' /\ \A m \in Iterations : m < it' => Frozen(m)'
        BY <1>1, <2>6, <2>8, <2>10, <3>1 DEF Kept, Frozen, IsLast
      <4>2. art'[it'].bundle /\ art'[it'].result = NoResult /\ art'[it'].gates = NoGates
        BY <2>3, <2>4, <2>10, <3>1
      <4> QED BY <1>1, <3>1, <3>2, <4>1, <4>2 DEF PlaceInv, Integrating
    <3>5. MachineInv'
      BY <1>1, <3>1 DEF MachineInv, BeforeBundle
    <3>6. "consensus" \in Places /\ "consensus" \in AfterFreeze
      BY DEF Places, Iterating, AfterFreeze, AfterBundle
    <3> QED BY <1>1, <1>2, <2>8, <2>9, <2>12, <3>2, <3>3, <3>4, <3>5, <3>6, ContinueStep
  <2> QED BY <1>4, <2>11, <2>12
<1> QED BY <1>3, <1>4 DEF Bundle

\* Where the chair works: the iteration is the last one and has its bundle.
LEMMA ChairPlace ==
  ASSUME CampaignInv, pc \in AfterBundle
  PROVE  /\ pc \in Iterating \ {"account"} /\ it \in Iterations /\ machine = "INTEGRATION"
         /\ \A m \in Iterations : m < it => Frozen(m)
         /\ Frozen(it) /\ inp.pr # 0 /\ art[it].bundle /\ IsLast(it)
         /\ art[it].result = NoResult /\ art[it].gates = NoGates
         /\ pc \in Integrating => ~art[it].clean /\ inp.base = art[it].frozen.pr
         /\ machine \in Phases
BY DEF CampaignInv, PlaceInv, MachineInv, Iterating, AfterFreeze, AfterBundle, Integrating, Phases

\* The chair goes on without writing evidence.
LEMMA ChairGoesOn ==
  ASSUME CampaignInv, pc \in AfterBundle, UNCHANGED <<art, next, machine, runs, crashes, edits>>,
         NEW where \in AfterBundle, Continue(where), FileTypes', doc.pr # 0 => doc'.pr # 0,
         inp' \in [bp : 0..rev', pr : 0..rev', base : 0..rev'], inp'.pr # 0,
         where \in Integrating => ~art[it].clean /\ inp'.base = art[it].frozen.pr,
         where = "result" => art[it].post.pr = inp'.pr,
         chair' \in [kind : {"none", "blocked", "failed", "text", "gates", "next"},
                     calls : 0..7, ready : Readiness \cup {Unscored}]
  PROVE  CampaignInv'
<1>1. ChainInv' /\ Kept /\ StandingInv'
  BY ChainFrame, StandingFrame DEF CampaignInv
<1>2. it' = it /\ pc' = where
  BY DEF Continue
<1>3. PlaceInv'
  <2>1. /\ it \in Iterations /\ \A m \in Iterations : m < it => Frozen(m)
        /\ Frozen(it) /\ art[it].bundle /\ IsLast(it)
        /\ art[it].result = NoResult /\ art[it].gates = NoGates
    BY ChairPlace
  <2>2. Frozen(it)' /\ IsLast(it)' /\ \A m \in Iterations : m < it' => Frozen(m)'
    BY <1>2, <2>1 DEF Frozen, IsLast
  <2> QED BY <1>2, <2>1, <2>2 DEF PlaceInv, AfterBundle, Integrating, BeforeBundle
<1>4. MachineInv'
  BY <1>2, ChairPlace DEF MachineInv, AfterBundle, Integrating, BeforeBundle
<1>5. machine' \in Phases
  BY ChairPlace
<1>6. where \in Places /\ where \in AfterFreeze /\ pc \in Iterating
  BY ChairPlace DEF Places, Iterating, AfterFreeze
<1> QED BY <1>1, <1>3, <1>4, <1>5, <1>6, ContinueStep

\* The chair's iteration comes back without an integration.
LEMMA ChairFails ==
  ASSUME CampaignInv, pc \in AfterBundle, UNCHANGED <<art, next, runs, crashes, edits>>,
         machine' \in Phases, StandingInv', FileTypes', doc.pr # 0 => doc'.pr # 0,
         PanelFails \/ IntegrationFails
  PROVE  CampaignInv'
<1>1. ChainInv' /\ Kept
  BY ChainFrame DEF CampaignInv
<1>2. /\ pc \in Iterating \ {"account"} /\ art'[it].frozen # NoPair /\ art'[it].bundle
      /\ \A k \in Iterations : k > it => art'[k].frozen = NoPair
  BY ChairPlace DEF Frozen, IsLast
<1>3. CASE PanelFails
  BY <1>1, <1>2, <1>3, ChairStep DEF PanelFails
<1>4. CASE IntegrationFails
  <2>1. chair.ready \in Readiness \cup {Unscored}
    BY DEF CampaignInv, RunTypes
  <2> QED BY <1>1, <1>2, <1>4, <2>1, ChairStep DEF IntegrationFails
<1> QED BY <1>3, <1>4

LEMMA ConsensusStep == ASSUME CampaignInv, Consensus PROVE CampaignInv'
<1>1. /\ pc = "consensus" /\ pc \in AfterBundle
      /\ UNCHANGED <<doc, rev, edits, art, next, machine, runs, crashes>>
  BY DEF Consensus, documents, evidence, history, AfterBundle
<1>2. FileTypes' /\ StandingInv' /\ machine' \in Phases
  BY <1>1, ChairPlace, FilesFrame
<1>3. CASE PanelFails
  BY <1>1, <1>2, <1>3, ChairFails
<1>4. ASSUME NEW r \in Readiness, chair' = [NoChair EXCEPT !.ready = r], Continue("chair"), UNCHANGED inp
      PROVE  CampaignInv'
  <2>1. chair' \in [kind : {"none", "blocked", "failed", "text", "gates", "next"},
                    calls : 0..7, ready : Readiness \cup {Unscored}]
    BY <1>4 DEF NoChair
  <2>2. inp' \in [bp : 0..rev', pr : 0..rev', base : 0..rev'] /\ inp'.pr # 0
    BY <1>1, <1>4, ChairPlace DEF CampaignInv, RunTypes
  <2>3. "chair" \in AfterBundle /\ "chair" \notin Integrating
    BY DEF AfterBundle, Integrating
  <2> QED BY <1>1, <1>2, <1>4, <2>1, <2>2, <2>3, ChairGoesOn
<1> QED BY <1>3, <1>4 DEF Consensus


\* The machine comes to the gates from the last iteration.
LEMMA GatesAhead ==
  ASSUME CampaignInv, it \in Iterations, art[it].bundle, IsLast(it), art[it].result = NoResult,
         next' = next, \A n \in Iterations : n # it => art'[n] = art[n],
         art'[it].frozen = art[it].frozen, art'[it].bundle
  PROVE  StandingInv'
<1>1. \A n \in Iterations : Frozen(n)' <=> Frozen(n)
  BY DEF Frozen
<1>2. \A n \in Iterations : Frozen(n) => art'[n].bundle
  BY LastBundled
<1>3. ASSUME next # NoHandoff
      PROVE  /\ next.prev \in Iterations /\ art'[next.prev].result # NoResult
             /\ art'[next.prev].gates = NoGates /\ ~IsLast(next.prev)
  <2>1. /\ next.prev \in Iterations /\ art[next.prev].result # NoResult
        /\ art[next.prev].gates = NoGates
    BY <1>3 DEF CampaignInv, StandingInv
  <2>2. next.prev # it
    BY <2>1
  <2> QED BY <1>3, <2>1, <2>2, LastBundled
<1>4. \E n \in Iterations : Frozen(n)'
  BY <1>1, LastBundled
<1>5. next' # NoHandoff => ~IsLast(next.prev)'
  BY <1>1, <1>3 DEF IsLast
<1>6. \A n \in Iterations : Frozen(n)' => art'[n].bundle
  BY <1>1, <1>2
<1> QED BY <1>3, <1>4, <1>5, <1>6 DEF StandingInv

\* The integration of the last iteration is recorded.
LEMMA ResultStep ==
  ASSUME CampaignInv, pc \in AfterBundle, NEW x \in [from : 0..rev, to : 0..rev],
         x.from = art[it].frozen.pr,
         IF art[it].clean THEN x.to = art[it].frozen.pr ELSE x.to = art[it].post.pr,
         art' = [art EXCEPT ![it].result = x], machine' = "HARD_GATE_VALIDATION", Continue("fresh"),
         UNCHANGED <<doc, rev, edits, next, runs, crashes, inp, chair>>
  PROVE  CampaignInv'
<1>1. /\ pc \in Iterating \ {"account"} /\ it \in Iterations
      /\ (\A m \in Iterations : m < it => Frozen(m)) /\ Frozen(it) /\ inp.pr # 0
      /\ art[it].bundle /\ IsLast(it) /\ art[it].result = NoResult /\ art[it].gates = NoGates
  BY ChairPlace
<1>2. PICK e : e = [art[it] EXCEPT !.result = x]
  OBVIOUS
<1>3. art' = [art EXCEPT ![it] = e]
  BY <1>2
<1>4. /\ e \in Evidence /\ e.frozen = art[it].frozen /\ e.reviews = art[it].reviews
      /\ e.bundle = art[it].bundle /\ e.clean = art[it].clean /\ e.post = art[it].post
      /\ e.result = x /\ e.gates = art[it].gates
  <2>1. art[it] \in Evidence
    BY <1>1 DEF CampaignInv, FileTypes
  <2> QED BY <1>2, <2>1 DEF Evidence
<1>5. /\ doc.pr # 0 /\ ChainOf(art[it])
      /\ \A m \in Iterations : m < it => art[m].bundle
  BY <1>1, LastBundled
<1>6. x # NoResult
  BY <1>5 DEF ChainOf, NoResult
<1>7. ChainOf(e)
  BY <1>1, <1>4, <1>5 DEF ChainOf
<1>8. FileTypes' /\ ChainInv' /\ Kept
  BY <1>1, <1>3, <1>4, <1>5, <1>7, WriteStep
<1>9. art'[it] = e /\ \A n \in Iterations : n # it => art'[n] = art[n]
  BY <1>1, <1>3 DEF CampaignInv, FileTypes
<1>10. StandingInv'
  BY <1>1, <1>4, <1>9, GatesAhead
<1>11. it' = it /\ pc' = "fresh"
  BY DEF Continue
<1>12. PlaceInv'
  <2>1. Frozen(it)' /\ IsLast(it)' /\ \A m \in Iterations : m < it' => Frozen(m)'
    <3>1. \A k \in Iterations : k > it => k # it
      BY <1>1, Numbers
    <3> QED BY <1>1, <1>8, <1>9, <1>11, <3>1 DEF Kept, Frozen, IsLast
  <2>2. art'[it'].bundle /\ art'[it'].result # NoResult /\ art'[it'].gates = NoGates
    BY <1>1, <1>4, <1>6, <1>9, <1>11
  <2> QED BY <1>1, <1>11, <2>1, <2>2 DEF PlaceInv, AfterBundle, Integrating
<1>13. MachineInv'
  BY <1>11 DEF MachineInv, BeforeBundle, AfterBundle, Integrating
<1>14. /\ machine' \in Phases /\ "fresh" \in Places /\ "fresh" \in AfterFreeze
       /\ inp' \in [bp : 0..rev', pr : 0..rev', base : 0..rev']
       /\ chair' \in [kind : {"none", "blocked", "failed", "text", "gates", "next"},
                      calls : 0..7, ready : Readiness \cup {Unscored}]
  BY DEF Phases, Places, Iterating, AfterFreeze, CampaignInv, RunTypes
<1> QED BY <1>1, <1>8, <1>10, <1>12, <1>13, <1>14, ContinueStep

\* An exception leaves the worker with nothing written.
LEMMA DiesStep ==
  ASSUME CampaignInv, Dies, UNCHANGED <<doc, rev, edits, art, next, machine, runs, crashes>>
  PROVE  CampaignInv'
<1>1. GoesIdle /\ camp' = camp
  BY DEF Dies
<1>2. /\ machine' \in Phases /\ runs' \in 0..MaxRuns /\ edits' \in 0..MaxEdits
      /\ crashes' \in 0..MaxCrashes
  BY DEF CampaignInv, RunTypes
<1>3. FileTypes' /\ ChainInv' /\ StandingInv' /\ Kept
  BY <1>2, FilesFrame
<1>4. camp' \in Campaigns
  BY <1>1 DEF CampaignInv, CampTypes, Campaigns
<1>5. camp'.calls < MaxModelCalls + 7 /\ (camp'.status # "FAILED" => Counted(camp)')
  BY <1>1, <1>3, CountedFrame DEF CampaignInv
<1> QED BY <1>1, <1>2, <1>3, <1>4, <1>5, EndStep

\* The integration begins from the reviewed proposal, or is bypassed.
LEMMA BeginIntegrationStep == ASSUME CampaignInv, BeginIntegration PROVE CampaignInv'
<1>1. /\ pc = "chair" /\ pc \in AfterBundle /\ UNCHANGED <<doc, rev, edits, next, runs, crashes>>
      /\ it \in Iterations /\ Frozen(it) /\ machine \in Phases
  BY ChairPlace DEF BeginIntegration, documents, history, AfterBundle
<1>2. doc.pr # 0 /\ doc \in Pairs
  BY <1>1 DEF CampaignInv, ChainInv, FileTypes
<1>3. CASE IntegrationFails /\ UNCHANGED <<art, machine>>
  <2>1. FileTypes' /\ StandingInv' /\ machine' \in Phases
    BY <1>1, <1>3, FilesFrame
  <2> QED BY <1>1, <1>3, <2>1, ChairFails
<1>4. CASE Dies /\ UNCHANGED <<art, machine>>
  BY <1>1, <1>4, DiesStep
<1>5. CASE /\ doc.pr = art[it].frozen.pr /\ art[it].clean
           /\ art' = [art EXCEPT ![it].result = [from |-> doc.pr, to |-> doc.pr]]
           /\ machine' = "HARD_GATE_VALIDATION" /\ Continue("fresh") /\ UNCHANGED <<inp, chair>>
  <2>1. PICK x : x = [from |-> doc.pr, to |-> doc.pr]
    OBVIOUS
  <2>2. x \in [from : 0..rev, to : 0..rev] /\ x.from = doc.pr /\ x.to = doc.pr
    BY <1>2, <2>1 DEF Pairs
  <2>3. art' = [art EXCEPT ![it].result = x]
    BY <1>5, <2>1
  <2> QED BY <1>1, <1>5, <2>2, <2>3, ResultStep
<1>6. CASE /\ doc.pr = art[it].frozen.pr /\ ~art[it].clean
           /\ inp' = [bp |-> doc.bp, pr |-> doc.pr, base |-> doc.pr]
           /\ Continue("answer") /\ UNCHANGED <<art, machine, chair>>
  <2>1. FileTypes'
    BY <1>1, <1>6, FilesFrame
  <2>2. inp' \in [bp : 0..rev', pr : 0..rev', base : 0..rev'] /\ inp'.pr = doc.pr /\ inp'.base = doc.pr
    BY <1>1, <1>2, <1>6 DEF Pairs
  <2>3. chair' \in [kind : {"none", "blocked", "failed", "text", "gates", "next"},
                    calls : 0..7, ready : Readiness \cup {Unscored}]
    BY <1>6 DEF CampaignInv, RunTypes
  <2>4. "answer" \in AfterBundle
    BY DEF AfterBundle, Integrating
  <2> QED BY <1>1, <1>2, <1>6, <2>1, <2>2, <2>3, <2>4, ChairGoesOn
<1> QED BY <1>3, <1>4, <1>5, <1>6 DEF BeginIntegration

LEMMA AnswerStep == ASSUME CampaignInv, Answer PROVE CampaignInv'
<1>1. /\ pc = "answer" /\ pc \in AfterBundle /\ pc \in Integrating
      /\ UNCHANGED <<doc, rev, edits, art, next, machine, runs, crashes>>
  BY DEF Answer, documents, evidence, history, AfterBundle, Integrating
<1>2. FileTypes' /\ StandingInv' /\ machine' \in Phases
  BY <1>1, ChairPlace, FilesFrame
<1>3. CASE IntegrationFails
  BY <1>1, <1>2, <1>3, ChairFails
<1>4. CASE Continue("commit") /\ UNCHANGED <<inp, chair>>
  <2>1. /\ inp' \in [bp : 0..rev', pr : 0..rev', base : 0..rev']
        /\ chair' \in [kind : {"none", "blocked", "failed", "text", "gates", "next"},
                       calls : 0..7, ready : Readiness \cup {Unscored}]
    BY <1>1, <1>4 DEF CampaignInv, RunTypes
  <2>2. inp'.pr # 0 /\ ~art[it].clean /\ inp'.base = art[it].frozen.pr
    BY <1>1, <1>4, ChairPlace
  <2>3. "commit" \in AfterBundle
    BY DEF AfterBundle, Integrating
  <2> QED BY <1>1, <1>2, <1>4, <2>1, <2>2, <2>3, ChairGoesOn
<1> QED BY <1>3, <1>4 DEF Answer

\* Both documents are replaced by the integrated pair.
LEMMA CommitPairStep == ASSUME CampaignInv, CommitPair PROVE CampaignInv'
<1>1. /\ pc = "commit" /\ pc \in AfterBundle /\ pc \in Integrating
      /\ UNCHANGED <<art, next, machine, runs, crashes>>
      /\ inp \in [bp : 0..rev, pr : 0..rev, base : 0..rev] /\ doc \in Pairs /\ rev \in Nat
  BY DEF CommitPair, evidence, history, AfterBundle, Integrating, CampaignInv, RunTypes, FileTypes
<1>2. inp.pr # 0 /\ ~art[it].clean /\ inp.base = art[it].frozen.pr
  BY <1>1, ChairPlace
<1>3. CASE IntegrationFails /\ UNCHANGED documents
  <2>1. UNCHANGED <<doc, rev, edits>>
    BY <1>3 DEF documents
  <2>2. FileTypes' /\ StandingInv' /\ machine' \in Phases
    BY <1>1, <2>1, ChairPlace, FilesFrame
  <2> QED BY <1>1, <1>3, <2>1, <2>2, ChairFails
<1>4. ASSUME NEW newBp \in BOOLEAN, NEW newPr \in BOOLEAN, NEW bp, NEW pr,
             bp = IF newBp THEN rev + 1 ELSE doc.bp, pr = IF newPr THEN rev + 1 ELSE inp.pr,
             doc' = [bp |-> bp, pr |-> pr],
             rev' = IF newBp \/ newPr THEN rev + 1 ELSE rev,
             inp' = [bp |-> bp, pr |-> pr, base |-> inp.base],
             Continue("post"), UNCHANGED <<edits, chair>>
      PROVE  CampaignInv'
  <2>1. rev' \in Nat /\ rev <= rev'
    BY <1>1, <1>4
  <2>2. /\ 0..rev \subseteq 0..rev' /\ Pairs \subseteq Pairs' /\ Evidence \subseteq Evidence'
        /\ doc.bp \in 0..rev /\ inp.pr \in 0..rev /\ inp.base \in 0..rev
    BY <1>1, <2>1, Widens DEF Pairs
  <2>3. bp \in 0..rev' /\ pr \in 0..rev' /\ inp.base \in 0..rev' /\ pr # 0
    <3>1. newBp => bp \in 0..rev'
      BY <1>1, <1>4
    <3>2. newPr => pr \in 0..rev' /\ pr # 0
      BY <1>1, <1>4
    <3>3. ~newBp => bp \in 0..rev'
      BY <1>4, <2>2
    <3>4. ~newPr => pr \in 0..rev' /\ pr # 0
      BY <1>2, <1>4, <2>2
    <3> QED BY <2>2, <3>1, <3>2, <3>3, <3>4
  <2>4. FileTypes'
    <3>1. doc' \in Pairs'
      BY <1>4, <2>3 DEF Pairs
    <3>2. art' \in [Iterations -> Evidence'] /\ next' \in [prev : 0..MaxIterations, reviewed : 0..rev', revised : 0..rev']
      BY <1>1, <2>2 DEF CampaignInv, FileTypes
    <3> QED BY <2>1, <3>1, <3>2 DEF FileTypes
  <2>5. inp' \in [bp : 0..rev', pr : 0..rev', base : 0..rev'] /\ inp'.pr # 0 /\ inp'.base = inp.base
    BY <1>4, <2>3
  <2>6. chair' \in [kind : {"none", "blocked", "failed", "text", "gates", "next"},
                    calls : 0..7, ready : Readiness \cup {Unscored}]
    BY <1>4 DEF CampaignInv, RunTypes
  <2>7. "post" \in AfterBundle /\ doc'.pr # 0
    BY <1>4, <2>3 DEF AfterBundle, Integrating
  <2> QED BY <1>1, <1>2, <1>4, <2>4, <2>5, <2>6, <2>7, ChairGoesOn
<1> QED BY <1>3, <1>4 DEF CommitPair


\* The version frozen after the integration is the pair that was committed.
LEMMA PostFreezeStep == ASSUME CampaignInv, PostFreeze PROVE CampaignInv'
<1>1. /\ pc = "post" /\ pc \in AfterBundle /\ pc \in Integrating /\ pc \in Iterating \ {"account"}
      /\ UNCHANGED <<doc, rev, edits, next, runs, crashes>>
      /\ inp \in [bp : 0..rev, pr : 0..rev, base : 0..rev]
      /\ it \in Iterations /\ (\A m \in Iterations : m < it => Frozen(m)) /\ Frozen(it) /\ inp.pr # 0
      /\ art[it].bundle /\ IsLast(it) /\ art[it].result = NoResult /\ art[it].gates = NoGates
      /\ ~art[it].clean /\ inp.base = art[it].frozen.pr /\ machine = "INTEGRATION"
  <2>1. pc = "post" /\ pc \in AfterBundle /\ pc \in Integrating
    BY DEF PostFreeze, AfterBundle, Integrating
  <2> QED BY <2>1, ChairPlace DEF PostFreeze, documents, history, CampaignInv, RunTypes
<1>2. /\ doc.pr # 0 /\ ChainOf(art[it])
      /\ \A m \in Iterations : m < it => art[m].bundle
  BY <1>1, LastBundled
<1>3. CASE machine' = "HARD_GATE_VALIDATION" /\ IntegrationFails /\ UNCHANGED art
  <2>1. FileTypes'
    BY <1>1, <1>3 DEF CampaignInv, FileTypes, Pairs, Evidence
  <2>2. StandingInv'
    BY <1>1, <1>3, GatesAhead
  <2>3. machine' \in Phases
    BY <1>3 DEF Phases
  <2> QED BY <1>1, <1>3, <2>1, <2>2, <2>3, ChairFails
<1>4. CASE /\ art' = [art EXCEPT ![it].post = Committed]
           /\ Continue("result") /\ UNCHANGED <<machine, inp, chair>>
  <2>1. PICK e : e = [art[it] EXCEPT !.post = Committed]
    OBVIOUS
  <2>2. art' = [art EXCEPT ![it] = e]
    BY <1>4, <2>1
  <2>3. Committed \in Pairs /\ Committed # NoPair /\ Committed.pr = inp.pr
    BY <1>1 DEF Committed, Pairs, NoPair
  <2>4. /\ e \in Evidence /\ e.frozen = art[it].frozen /\ e.reviews = art[it].reviews
        /\ e.bundle = art[it].bundle /\ e.clean = art[it].clean /\ e.post = Committed
        /\ e.result = art[it].result /\ e.gates = art[it].gates
    <3>1. art[it] \in Evidence
      BY <1>1 DEF CampaignInv, FileTypes
    <3> QED BY <2>1, <2>3, <3>1 DEF Evidence
  <2>5. ChainOf(e)
    BY <1>1, <1>2, <2>4 DEF ChainOf
  <2>6. FileTypes' /\ ChainInv' /\ Kept
    BY <1>1, <1>2, <2>2, <2>4, <2>5, WriteStep
  <2>7. StandingInv'
    BY <1>1, <1>4, <2>2, <2>4, StandingWrite
  <2>8. art'[it] = e /\ \A n \in Iterations : n # it => art'[n] = art[n]
    BY <1>1, <2>2 DEF CampaignInv, FileTypes
  <2>9. it' = it /\ pc' = "result"
    BY <1>4 DEF Continue
  <2>10. PlaceInv'
    <3>1. Frozen(it)' /\ IsLast(it)' /\ \A m \in Iterations : m < it' => Frozen(m)'
      <4>1. \A k \in Iterations : k > it => k # it
        BY <1>1, Numbers
      <4> QED BY <1>1, <2>6, <2>8, <2>9, <4>1 DEF Kept, Frozen, IsLast
    <3>2. /\ art'[it'].bundle /\ art'[it'].result = NoResult /\ art'[it'].gates = NoGates
          /\ ~art'[it'].clean /\ art'[it'].frozen.pr = inp'.base /\ art'[it'].post.pr = inp'.pr
      BY <1>1, <1>4, <2>3, <2>4, <2>8, <2>9
    <3> QED BY <1>1, <1>4, <2>9, <3>1, <3>2 DEF PlaceInv
  <2>11. MachineInv'
    BY <1>1, <1>4, <2>9 DEF MachineInv, BeforeBundle
  <2>12. /\ machine' \in Phases /\ "result" \in Places /\ "result" \in AfterFreeze
         /\ inp' \in [bp : 0..rev', pr : 0..rev', base : 0..rev']
         /\ chair' \in [kind : {"none", "blocked", "failed", "text", "gates", "next"},
                        calls : 0..7, ready : Readiness \cup {Unscored}]
    BY <1>1, <1>4 DEF Phases, Places, Iterating, AfterFreeze, AfterBundle, Integrating, CampaignInv, RunTypes
  <2> QED BY <1>1, <1>4, <2>6, <2>7, <2>10, <2>11, <2>12, ContinueStep
<1> QED BY <1>3, <1>4 DEF PostFreeze

LEMMA RecordResultStep == ASSUME CampaignInv, RecordResult PROVE CampaignInv'
<1>1. /\ pc = "result" /\ pc \in AfterBundle /\ pc \in Integrating
      /\ UNCHANGED <<doc, rev, edits, next, runs, crashes>>
      /\ inp \in [bp : 0..rev, pr : 0..rev, base : 0..rev]
  BY DEF RecordResult, documents, history, AfterBundle, Integrating, CampaignInv, RunTypes
<1>2. ~art[it].clean /\ inp.base = art[it].frozen.pr /\ art[it].post.pr = inp.pr
  BY <1>1, ChairPlace DEF CampaignInv, PlaceInv
<1>3. CASE Dies /\ UNCHANGED <<art, machine>>
  BY <1>1, <1>3, DiesStep
<1>4. CASE /\ art' = [art EXCEPT ![it].result = [from |-> inp.base, to |-> inp.pr]]
           /\ machine' = "HARD_GATE_VALIDATION" /\ Continue("fresh") /\ UNCHANGED <<inp, chair>>
  <2>1. PICK x : x = [from |-> inp.base, to |-> inp.pr]
    OBVIOUS
  <2>2. x \in [from : 0..rev, to : 0..rev] /\ x.from = art[it].frozen.pr /\ x.to = art[it].post.pr
    BY <1>1, <1>2, <2>1
  <2>3. art' = [art EXCEPT ![it].result = x]
    BY <1>4, <2>1
  <2> QED BY <1>1, <1>2, <1>4, <2>2, <2>3, ResultStep
<1> QED BY <1>3, <1>4 DEF RecordResult

\* A changed pair is handed to the next iteration.
LEMMA FreshnessStep == ASSUME CampaignInv, Freshness PROVE CampaignInv'
<1>1. /\ pc = "fresh" /\ pc \in Iterating \ {"account"}
      /\ UNCHANGED <<doc, rev, edits, art, runs, crashes>>
      /\ it \in Iterations /\ art[it].bundle /\ IsLast(it) /\ art[it].gates = NoGates
      /\ art[it].result # NoResult /\ machine = "HARD_GATE_VALIDATION"
  BY DEF Freshness, documents, history, CampaignInv, PlaceInv, MachineInv, Iterating, AfterFreeze
<1>2. /\ Frozen(it) /\ \A n \in Iterations : Frozen(n) => art[n].bundle
  BY <1>1, LastBundled
<1>3. /\ art'[it].frozen # NoPair /\ art'[it].bundle
      /\ \A k \in Iterations : k > it => art'[k].frozen = NoPair
  BY <1>1, <1>2 DEF Frozen, IsLast
<1>4. IntegrationCalls \in 0..7 /\ chair.ready \in Readiness \cup {Unscored}
  BY DEF IntegrationCalls, CampaignInv, RunTypes
<1>5. ASSUME NEW kind \in {"gates", "failed"}, ChairReturns(kind, IntegrationCalls, chair.ready),
             UNCHANGED <<machine, next>>
      PROVE  CampaignInv'
  <2>1. machine' \in Phases
    BY <1>5 DEF CampaignInv, RunTypes
  <2>2. FileTypes' /\ ChainInv' /\ StandingInv' /\ Kept
    BY <1>1, <1>5, <2>1, FilesFrame
  <2> QED BY <1>1, <1>3, <1>4, <1>5, <2>1, <2>2, ChairStep
<1>6. ASSUME next' = [prev |-> it, reviewed |-> art[Reviewed].frozen.pr, revised |-> doc.pr],
             machine' = "REVISION_REQUIRED", ChairReturns("next", IntegrationCalls, chair.ready)
      PROVE  CampaignInv'
  <2>1. art[it].reviews /\ EvidenceChain
    BY <1>1 DEF CampaignInv, ChainInv, EvidenceChain
  <2>2. Reviewed = it
    BY <1>1, <2>1, ReviewedIs
  <2>3. art[it].frozen.pr \in 0..rev /\ doc.pr \in 0..rev /\ it \in 0..MaxIterations
    <3>1. art[it] \in Evidence /\ doc \in Pairs
      BY <1>1 DEF CampaignInv, FileTypes
    <3>2. art[it].frozen \in Pairs
      BY <3>1 DEF Evidence
    <3>3. it \in 0..MaxIterations
      BY <1>1, Numbers
    <3> QED BY <3>1, <3>2, <3>3 DEF Pairs
  <2>4. next'.prev = it /\ next' \in [prev : 0..MaxIterations, reviewed : 0..rev, revised : 0..rev]
    BY <1>6, <2>2, <2>3
  <2>5. FileTypes'
    BY <1>1, <2>4 DEF CampaignInv, FileTypes, Pairs, Evidence
  <2>6. ChainInv' /\ Kept
    BY <1>1, ChainFrame DEF CampaignInv
  <2>7. StandingInv'
    BY <1>1, <1>2, <1>6, <2>4 DEF StandingInv, Frozen
  <2>8. machine' \in Phases
    BY <1>6 DEF Phases, PanelPhases
  <2> QED BY <1>1, <1>3, <1>4, <1>6, <2>5, <2>6, <2>7, <2>8, ChairStep
<1> QED BY <1>5, <1>6 DEF Freshness

-----------------------------------------------------------------------------
(* The worker: the hard gates *)

\* The gates return to the campaign, or to the operator.
LEMMA GatesReturnStep ==
  ASSUME CampaignInv, pc \in {"gates", "verdict"}, NEW outcome, GatesReturn(outcome),
         FileTypes', ChainInv', StandingInv', Kept, machine' \in Phases,
         UNCHANGED <<doc, runs, crashes, edits>>
  PROVE  CampaignInv'
<1>1. runs' \in 0..MaxRuns /\ edits' \in 0..MaxEdits /\ crashes' \in 0..MaxCrashes
  BY DEF CampaignInv, RunTypes
<1>2. CASE job # "campaign"
  <2>1. GoesIdle /\ camp' = camp
    BY <1>2 DEF GatesReturn
  <2>2. camp' \in Campaigns
    BY <2>1 DEF CampaignInv, CampTypes, Campaigns
  <2>3. camp'.calls < MaxModelCalls + 7 /\ (camp'.status # "FAILED" => Counted(camp)')
    BY <2>1, CountedFrame DEF CampaignInv
  <2> QED BY <1>1, <2>1, <2>2, <2>3, EndStep
<1>3. ASSUME job = "campaign", NEW status \in {"COMPLETE", "WAITING_FOR_OPERATOR"}, Finish(cs, status)
      PROVE  CampaignInv'
  <2>1. Counted(cs) /\ cs \in Campaigns /\ cs.calls < MaxModelCalls + 7
    BY <1>3 DEF CampaignInv, BoundsInv, CampTypes
  <2>2. (\A m \in Iterations : m <= cs.iter => Frozen(m)') /\ (cs.calls # 0 => doc'.pr # 0)
    BY <2>1 DEF Counted, Kept
  <2>3. status \in Resumable \cup {"NOT_STARTED", "RUNNING", "COMPLETE", "FAILED"}
    BY DEF Resumable
  <2> QED BY <1>1, <1>3, <2>1, <2>2, <2>3, FinishStep
<1>4. CASE job = "campaign" /\ Continue("tail") /\ inp' = NoInput /\ UNCHANGED chair
  <2>1. pc' = "tail" /\ rev' \in Nat
    BY <1>4 DEF Continue, FileTypes
  <2>2. inp' \in [bp : 0..rev', pr : 0..rev', base : 0..rev']
    BY <1>4, <2>1 DEF NoInput
  <2>3. chair' \in [kind : {"none", "blocked", "failed", "text", "gates", "next"},
                    calls : 0..7, ready : Readiness \cup {Unscored}]
    BY <1>4 DEF CampaignInv, RunTypes
  <2>4. PlaceInv' /\ MachineInv' /\ "tail" \in Places
    BY <2>1, NoPlace DEF Places
  <2> QED BY <1>4, <2>2, <2>3, <2>4, ContinueStep
<1> QED BY <1>2, <1>3, <1>4 DEF GatesReturn

LEMMA GatesStep == ASSUME CampaignInv, Gates PROVE CampaignInv'
<1>1. /\ pc = "gates" /\ UNCHANGED <<doc, rev, edits, art, next, runs, crashes>>
      /\ it \in Iterations /\ art[it].bundle /\ IsLast(it) /\ machine = "HARD_GATE_VALIDATION"
  BY DEF Gates, documents, evidence, history, CampaignInv, PlaceInv, MachineInv
<1>2. FileTypes' /\ ChainInv' /\ Kept
  <2>1. FileTypes'
    BY <1>1 DEF CampaignInv, FileTypes, Pairs, Evidence
  <2> QED BY <1>1, <2>1, ChainFrame DEF CampaignInv
<1>3. ASSUME NEW outcome, GatesReturn(outcome), machine' \in {machine, "REVISION_REQUIRED"}
      PROVE  CampaignInv'
  <2>1. StandingInv'
    BY <1>1, <1>3 DEF CampaignInv, StandingInv, Frozen, IsLast
  <2>2. machine' \in Phases
    BY <1>1, <1>3 DEF Phases, PanelPhases
  <2> QED BY <1>1, <1>2, <1>3, <2>1, <2>2, GatesReturnStep
<1>4. CASE /\ ReviewCurrent /\ inp' = [bp |-> doc.bp, pr |-> doc.pr, base |-> doc.pr]
           /\ Continue("verdict") /\ UNCHANGED <<machine, chair>>
  <2>1. art[it].reviews /\ EvidenceChain
    BY <1>1 DEF CampaignInv, ChainInv, EvidenceChain
  <2>2. Reviewed = it /\ doc = art[it].frozen
    BY <1>1, <1>4, <2>1, ReviewedIs DEF ReviewCurrent
  <2>3. doc \in Pairs
    BY DEF CampaignInv, FileTypes
  <2>4. /\ inp' \in [bp : 0..rev', pr : 0..rev', base : 0..rev']
        /\ art[it].frozen = [bp |-> inp'.bp, pr |-> inp'.pr]
    BY <1>1, <1>4, <2>2, <2>3 DEF Pairs
  <2>5. it' = it /\ pc' = "verdict"
    BY <1>4 DEF Continue
  <2>6. PlaceInv'
    <3>1. it' \in Iterations /\ art'[it'].bundle /\ IsLast(it)' /\ art'[it'].frozen = [bp |-> inp'.bp, pr |-> inp'.pr]
      BY <1>1, <2>4, <2>5 DEF IsLast, Frozen
    <3> QED BY <2>5, <3>1 DEF PlaceInv, Iterating, AfterFreeze, BeforeBundle, AfterBundle, Integrating
  <2>7. MachineInv'
    BY <1>1, <1>4, <2>5 DEF MachineInv, BeforeBundle, AfterBundle, Integrating
  <2>8. StandingInv'
    BY <1>1, <1>4, StandingFrame DEF CampaignInv
  <2>9. /\ machine' \in Phases /\ "verdict" \in Places
        /\ chair' \in [kind : {"none", "blocked", "failed", "text", "gates", "next"},
                       calls : 0..7, ready : Readiness \cup {Unscored}]
    BY <1>4 DEF Places, Phases, CampaignInv, RunTypes
  <2> QED BY <1>1, <1>2, <1>4, <2>4, <2>6, <2>7, <2>8, <2>9, ContinueStep
<1> QED BY <1>3, <1>4 DEF Gates

\* The record of the gates is about the pair that was reviewed.
LEMMA VerdictStep == ASSUME CampaignInv, Verdict PROVE CampaignInv'
<1>1. /\ pc = "verdict" /\ UNCHANGED <<doc, rev, edits, next, runs, crashes>>
      /\ it \in Iterations /\ art[it].bundle /\ IsLast(it) /\ machine = "HARD_GATE_VALIDATION"
      /\ art[it].frozen = [bp |-> inp.bp, pr |-> inp.pr]
  BY DEF Verdict, documents, history, CampaignInv, PlaceInv, MachineInv
<1>2. /\ Frozen(it) /\ doc.pr # 0 /\ ChainOf(art[it])
      /\ \A m \in Iterations : m < it => art[m].bundle
      /\ \A n \in Iterations : Frozen(n) => art[n].bundle
  BY <1>1, LastBundled
<1>3. ASSUME NEW outcome, GatesReturn(outcome), machine' \in {machine, "BLOCKED"}, art' = art
      PROVE  CampaignInv'
  <2>1. machine' \in Phases
    BY <1>1, <1>3 DEF Phases
  <2>2. FileTypes' /\ ChainInv' /\ StandingInv' /\ Kept
    BY <1>1, <1>3, <2>1, FilesFrame
  <2> QED BY <1>1, <1>3, <2>1, <2>2, GatesReturnStep
<1>4. ASSUME NEW outcome \in DOMAIN PhaseOfGates, NEW record,
             record = [outcome |-> outcome, doc |-> [bp |-> inp.bp, pr |-> inp.pr]],
             art' = [art EXCEPT ![it].gates = record],
             machine' \in {PhaseOfGates[outcome], "BLOCKED"}, NEW returned, GatesReturn(returned)
      PROVE  CampaignInv'
  <2>1. PICK e : e = [art[it] EXCEPT !.gates = record]
    OBVIOUS
  <2>2. art' = [art EXCEPT ![it] = e]
    BY <1>4, <2>1
  <2>3. art[it] \in Evidence /\ art[it].frozen \in Pairs
    BY <1>1 DEF CampaignInv, FileTypes, Evidence
  <2>4. /\ record \in [outcome : DOMAIN PhaseOfGates \cup {"none"}, doc : Pairs]
        /\ record.outcome # "none" /\ record.doc = art[it].frozen
    BY <1>1, <1>4, <2>3, GatePhases
  <2>5. /\ e \in Evidence /\ e.frozen = art[it].frozen /\ e.reviews = art[it].reviews
        /\ e.bundle = art[it].bundle /\ e.clean = art[it].clean /\ e.post = art[it].post
        /\ e.result = art[it].result /\ e.gates = record
    BY <2>1, <2>3, <2>4 DEF Evidence
  <2>6. ChainOf(e)
    BY <1>1, <1>2, <2>4, <2>5 DEF ChainOf
  <2>7. FileTypes' /\ ChainInv' /\ Kept
    BY <1>1, <1>2, <2>2, <2>5, <2>6, WriteStep
  <2>8. art'[it] = e /\ \A n \in Iterations : n # it => art'[n] = art[n]
    BY <1>1, <2>2 DEF CampaignInv, FileTypes
  <2>9. \A n \in Iterations : (Frozen(n)' <=> Frozen(n)) /\ (art[n].bundle => art'[n].bundle)
    BY <2>5, <2>8 DEF Frozen
  <2>10. StandingInv'
    <3>1. ASSUME next # NoHandoff
          PROVE  /\ next.prev \in Iterations /\ art'[next.prev].result # NoResult
                 /\ art'[next.prev].gates = NoGates /\ ~IsLast(next.prev)
      <4>1. /\ next.prev \in Iterations /\ art[next.prev].result # NoResult
            /\ art[next.prev].gates = NoGates /\ ~IsLast(next.prev)
        BY <1>1, <3>1 DEF CampaignInv, StandingInv
      <4>2. next.prev # it
        BY <1>1, <4>1
      <4> QED BY <2>8, <4>1, <4>2
    <3>2. next' # NoHandoff => ~IsLast(next.prev)'
      BY <1>1, <2>9, <3>1 DEF IsLast
    <3>3. (\A n \in Iterations : Frozen(n)' => art'[n].bundle) /\ \E n \in Iterations : Frozen(n)'
      BY <1>1, <1>2, <2>9
    <3> QED BY <1>1, <3>1, <3>2, <3>3 DEF StandingInv
  <2>11. machine' \in Phases
    BY <1>4, GatePhases DEF Phases, PanelPhases
  <2> QED BY <1>1, <1>4, <2>7, <2>10, <2>11, GatesReturnStep
<1>5. CASE \E outcome \in DOMAIN PhaseOfGates :
             LET record == [outcome |-> outcome, doc |-> [bp |-> inp.bp, pr |-> inp.pr]] IN
             /\ art[it].gates \in {NoGates, record}
             /\ art' = [art EXCEPT ![it].gates = record]
             /\ \/ machine' = PhaseOfGates[outcome] /\ GatesReturn(outcome)
                \/ /\ MayFail /\ outcome = "REVISION_REQUIRED"
                   /\ machine' = "BLOCKED" /\ GatesReturn("ARTIFACT_CONFLICT")
  BY <1>4, <1>5
<1> QED BY <1>3, <1>5 DEF Verdict


-----------------------------------------------------------------------------
(* The theorems *)

LEMMA InitOK == ASSUME Init PROVE CampaignInv
<1>1. /\ doc \in {[bp |-> 1, pr |-> 0], [bp |-> 1, pr |-> 1]} /\ rev = 1
      /\ art = [n \in Iterations |-> NoEvidence] /\ next = NoHandoff /\ camp = NoCampaign
      /\ machine = "NONE" /\ job = "none" /\ pc = "idle" /\ it = 0 /\ inp = NoInput
      /\ chair = NoChair /\ cs = NoCampaign /\ noImp = 0 /\ stop = FALSE /\ pause = FALSE
      /\ late = 0 /\ runs = 0 /\ edits = 0 /\ crashes = 0
  BY DEF Init
<1>2. \A n \in Iterations : art[n] = NoEvidence
  BY <1>1
<1>3. NoEvidence \in Evidence
  <2>1. NoPair \in Pairs /\ 0 \in 0..rev /\ NoGates \in [outcome : DOMAIN PhaseOfGates \cup {"none"}, doc : Pairs]
    BY <1>1 DEF NoPair, Pairs, NoGates
  <2>2. NoResult \in [from : 0..rev, to : 0..rev]
    BY <2>1 DEF NoResult
  <2> QED BY <2>1, <2>2 DEF NoEvidence, Evidence
<1>4. FileTypes
  <2>1. doc \in Pairs
    BY <1>1 DEF Pairs
  <2>2. art \in [Iterations -> Evidence]
    BY <1>1, <1>3
  <2>3. next \in [prev : 0..MaxIterations, reviewed : 0..rev, revised : 0..rev]
    BY <1>1, Numbers DEF NoHandoff
  <2> QED BY <1>1, <2>1, <2>2, <2>3 DEF FileTypes
<1>5. NoCampaign \in Campaigns /\ NoCampaign.calls = 0 /\ NoCampaign.iter = 0
  <2>1. /\ "NOT_STARTED" \in Resumable \cup {"NOT_STARTED", "RUNNING", "COMPLETE", "FAILED"}
        /\ 0 \in 0..MaxIterations /\ <<>> \in Seq(Readiness) /\ Unscored \in Readiness \cup {Unscored}
    BY Numbers, EmptySeq
  <2> QED BY <2>1 DEF NoCampaign, Campaigns
<1>6. CampTypes
  BY <1>1, <1>5 DEF CampTypes
<1>7. RunTypes
  <2>1. inp \in [bp : 0..rev, pr : 0..rev, base : 0..rev]
    BY <1>1 DEF NoInput
  <2>2. chair \in [kind : {"none", "blocked", "failed", "text", "gates", "next"},
                   calls : 0..7, ready : Readiness \cup {Unscored}]
    BY <1>1 DEF NoChair
  <2>3. it \in 0..MaxIterations /\ runs \in 0..MaxRuns /\ edits \in 0..MaxEdits /\ crashes \in 0..MaxCrashes
    BY <1>1, Numbers
  <2> QED BY <1>1, <2>1, <2>2, <2>3 DEF RunTypes, Places, Phases
<1>8. ChainInv
  <2>1. \A n \in Iterations : /\ art[n].frozen = NoPair /\ ~art[n].reviews /\ ~art[n].bundle
                              /\ art[n].post = NoPair /\ art[n].result = NoResult
                              /\ art[n].gates = NoGates
    <3>1. /\ NoEvidence.frozen = NoPair /\ ~NoEvidence.reviews /\ ~NoEvidence.bundle
          /\ NoEvidence.post = NoPair /\ NoEvidence.result = NoResult /\ NoEvidence.gates = NoGates
      BY DEF NoEvidence
    <3> QED BY <1>2, <3>1
  <2> QED BY <2>1 DEF ChainInv, Frozen, EvidenceChain, GatesJudgeReviewedPair
<1>9. StandingInv
  BY <1>1 DEF StandingInv
<1>10. JobInv /\ MachineInv /\ PlaceInv /\ StopInv
  BY <1>1 DEF JobInv, MachineInv, PlaceInv, StopInv, Iterating, AfterFreeze, BeforeBundle,
              AfterBundle, Integrating
<1>11. BoundsInv
  <2>1. \A m \in Iterations : ~(m <= 0)
    BY Numbers
  <2> QED BY <1>1, <1>5, <2>1, Numbers DEF BoundsInv, Counted
<1> QED BY <1>4, <1>6, <1>7, <1>8, <1>9, <1>10, <1>11 DEF CampaignInv

LEMMA NextOK == ASSUME CampaignInv, [Next]_vars PROVE CampaignInv'
<1>1. CASE OperatorStep
  BY <1>1, RecoverStep, StartCampaignStep, ResumeCampaignStep, RunPanelStep, RunHardGatesStep,
     GenerateInitialStep, RequestStep DEF OperatorStep
<1>2. CASE WorkerStep
  BY <1>2, BeginStep, GenerateStep, LoopHeadStep, EnterPanelStep, ReviewsStep, BundleStep,
     ConsensusStep, BeginIntegrationStep, AnswerStep, CommitPairStep, PostFreezeStep,
     RecordResultStep, FreshnessStep, AccountStep, GatesStep, VerdictStep, IterationDoneStep
     DEF WorkerStep
<1>3. CASE Edit \/ Crash
  BY <1>3, EditStep, CrashStep
<1>4. CASE UNCHANGED vars
  <2>1. UNCHANGED <<doc, rev, edits, art, next, camp, machine, job, pc, it, inp, chair, cs, noImp,
                    stop, pause, late, runs, crashes>>
    BY <1>4 DEF vars, documents, evidence, local, controls
  <2>2. machine' \in Phases
    BY <2>1 DEF CampaignInv, RunTypes
  <2>3. FileTypes' /\ ChainInv' /\ StandingInv' /\ Kept
    BY <2>1, <2>2, FilesFrame
  <2>4. RunTypes' /\ CampTypes'
    BY <2>1, <2>2 DEF CampaignInv, RunTypes, CampTypes, Campaigns
  <2>5. JobInv' /\ MachineInv'
    BY <2>1 DEF CampaignInv, JobInv, MachineInv
  <2>6. PlaceInv'
    BY <2>1 DEF CampaignInv, PlaceInv, Frozen, IsLast
  <2>7. BoundsInv' /\ StopInv'
    BY <2>1, <2>3, BoundsFrame, StopFrame DEF CampaignInv
  <2> QED BY <2>3, <2>4, <2>5, <2>6, <2>7 DEF CampaignInv
<1> QED BY <1>1, <1>2, <1>3, <1>4 DEF Next

\* The evidence, the handoff, the machine, the campaign's counts and the place of
\* the worker agree, however runs, edits and crashes are interleaved.
THEOREM CampaignInvariance == Spec => []CampaignInv
BY InitOK, NextOK, PTL DEF Spec

\* Every variable keeps its type: the fields of the evidence files, of
\* CAMPAIGN_STATE.json, of the phase machine and of the worker.
THEOREM TypeCorrect == Spec => []TypeOK
<1>1. CampaignInv => TypeOK
  BY DEF CampaignInv, FileTypes, CampTypes, RunTypes, TypeOK, Places, Iterating, AfterFreeze,
         BeforeBundle, AfterBundle, Integrating
<1> QED BY <1>1, CampaignInvariance, PTL

\* The gates never judge another pair than the one the panel reviewed.
THEOREM GatesCorrect == Spec => []GatesJudgeReviewedPair
<1>1. CampaignInv => GatesJudgeReviewedPair
  BY DEF CampaignInv, ChainInv
<1> QED BY <1>1, CampaignInvariance, PTL

\* The evidence of an iteration is a chain of reviewed revisions.
THEOREM ChainCorrect == Spec => []EvidenceChain
<1>1. CampaignInv => EvidenceChain
  BY DEF CampaignInv, ChainInv
<1> QED BY <1>1, CampaignInvariance, PTL

\* After STOP at most the iteration the loop had already decided on begins.
THEOREM StopCorrect == Spec => []StopCostsOneIteration
<1>1. CampaignInv => StopCostsOneIteration
  BY DEF CampaignInv, StopInv, StopCostsOneIteration
<1> QED BY <1>1, CampaignInvariance, PTL

\* A campaign stays within max_iterations and one iteration's calls of its budget.
THEOREM BoundsCorrect == Spec => []CampaignWithinBounds
<1>1. ASSUME CampaignInv PROVE CampaignWithinBounds
  <2>1. \A c \in {camp, cs} : c.iter \in 0..MaxIterations /\ c.calls < MaxModelCalls + 7
    BY <1>1 DEF CampaignInv, CampTypes, Campaigns, BoundsInv
  <2>2. \A c \in {camp, cs} : c.iter <= MaxIterations
    BY <2>1, Numbers
  <2> QED BY <2>1, <2>2 DEF CampaignWithinBounds
<1> QED BY <1>1, CampaignInvariance, PTL

\* What recovery reads in the evidence is what the panel and the chair wrote.
THEOREM RecoveryCorrect == Spec => []RecoveryIsHonest
<1>1. ASSUME CampaignInv PROVE RecoveryIsHonest
  <2>1. PICK n : n = Latest
    OBVIOUS
  <2> SUFFICES ASSUME n # 0, art[n].gates = NoGates
               PROVE  /\ Recovered = "HARD_GATE_VALIDATION" =>
                           art[n].result # NoResult /\ doc.pr = art[n].frozen.pr
                      /\ Recovered = "REVISION_REQUIRED" =>
                           /\ NextIterationHint = n + 1
                           /\ doc.pr = next.revised /\ next.reviewed = art[n].frozen.pr
    BY <2>1 DEF RecoveryIsHonest
  <2>2. n \in Iterations /\ art[n].bundle \in BOOLEAN
    <3>1. n \in Iterations
      BY <2>1, LatestOK
    <3> QED BY <1>1, <3>1 DEF CampaignInv, FileTypes, Evidence
  <2>3. CASE ~art[n].bundle
    <3>1. Recovered = "NONE"
      BY <2>1, <2>2, <2>3 DEF Recovered, Ambiguous
    <3> QED BY <3>1
  <2>4. CASE art[n].bundle /\ art[n].result = NoResult
    <3>1. Recovered = "INTEGRATION"
      BY <2>1, <2>2, <2>4 DEF Recovered
    <3> QED BY <3>1
  <2>5. CASE art[n].bundle /\ art[n].result # NoResult
    <3>1. Recovered = CASE HandoffVerdict(n) = "valid"     -> "REVISION_REQUIRED"
                        [] HandoffVerdict(n) = "ambiguous" -> "NONE"
                        [] OTHER                           -> "HARD_GATE_VALIDATION"
      BY <2>1, <2>2, <2>5 DEF Recovered, Ambiguous
    <3>2. CASE HandoffVerdict(n) = "valid"
      <4>1. Recovered = "REVISION_REQUIRED"
        BY <3>1, <3>2
      <4>2. NextIterationHint = n + 1
        BY <2>1, <2>5, <3>2 DEF NextIterationHint
      <4>3. doc.pr = next.revised /\ next.reviewed = art[n].frozen.pr
        BY <2>2, <3>2, VerdictOK
      <4> QED BY <4>1, <4>2, <4>3
    <3>3. CASE HandoffVerdict(n) = "ambiguous"
      BY <3>1, <3>3
    <3>4. CASE HandoffVerdict(n) \in {"absent", "consumed"}
      <4>1. Recovered = "HARD_GATE_VALIDATION" /\ doc.pr = art[n].frozen.pr
        BY <2>2, <3>1, <3>4, VerdictOK
      <4> QED BY <2>5, <4>1
    <3> QED BY <2>2, <3>2, <3>3, <3>4, VerdictOK
  <2> QED BY <2>2, <2>3, <2>4, <2>5
<1> QED BY <1>1, CampaignInvariance, PTL


-----------------------------------------------------------------------------
(* What a step never does *)

\* Evidence once written stays as it is.
Immutable ==
  \A n \in Iterations :
    /\ art[n].frozen # NoPair => art'[n].frozen = art[n].frozen /\ art'[n].by = art[n].by
    /\ art[n].bundle => art'[n].bundle /\ art'[n].clean = art[n].clean
    /\ art[n].post # NoPair => art'[n].post = art[n].post
    /\ art[n].result # NoResult => art'[n].result = art[n].result
    /\ art[n].gates # NoGates => art'[n].gates = art[n].gates

\* Writing one iteration's evidence without touching what is there.
LEMMA WriteKeeps ==
  ASSUME FileTypes, it \in Iterations, NEW e, art' = [art EXCEPT ![it] = e],
         art[it].frozen # NoPair => e.frozen = art[it].frozen /\ e.by = art[it].by,
         art[it].bundle => e.bundle /\ e.clean = art[it].clean,
         art[it].post # NoPair => e.post = art[it].post,
         art[it].result # NoResult => e.result = art[it].result,
         art[it].gates # NoGates => e.gates = art[it].gates
  PROVE  Immutable
<1>1. art'[it] = e /\ \A n \in Iterations : n # it => art'[n] = art[n]
  BY DEF FileTypes
<1> QED BY <1>1 DEF Immutable

LEMMA PanelKeeps ==
  ASSUME CampaignInv, EnterPanel \/ Reviews \/ Bundle PROVE Immutable
<1>1. it \in Iterations /\ art[it] \in Evidence /\ FileTypes
  <2>1. pc \in Iterating
    BY DEF EnterPanel, Reviews, Bundle, Iterating, AfterFreeze, BeforeBundle
  <2> QED BY <2>1 DEF CampaignInv, PlaceInv, FileTypes
<1>2. CASE art' = art
  BY <1>2 DEF Immutable
<1>3. CASE CanFreeze(it) /\ art' = [art EXCEPT ![it].frozen = doc, ![it].by = Author]
  <2>1. PICK e : e = [art[it] EXCEPT !.frozen = doc, !.by = Author]
    OBVIOUS
  <2>2. /\ e.frozen = doc /\ e.by = Author /\ e.bundle = art[it].bundle /\ e.clean = art[it].clean
        /\ e.post = art[it].post /\ e.result = art[it].result /\ e.gates = art[it].gates
    BY <1>1, <2>1 DEF Evidence
  <2>3. art' = [art EXCEPT ![it] = e]
    BY <1>1, <1>3, <2>1 DEF FileTypes
  <2> QED BY <1>1, <1>3, <2>2, <2>3, WriteKeeps DEF CanFreeze
<1>4. CASE art' = [art EXCEPT ![it].reviews = TRUE]
  <2>1. PICK e : e = [art[it] EXCEPT !.reviews = TRUE]
    OBVIOUS
  <2>2. /\ e.frozen = art[it].frozen /\ e.by = art[it].by
        /\ e.bundle = art[it].bundle /\ e.clean = art[it].clean
        /\ e.post = art[it].post /\ e.result = art[it].result /\ e.gates = art[it].gates
    BY <1>1, <2>1 DEF Evidence
  <2>3. art' = [art EXCEPT ![it] = e]
    BY <1>4, <2>1
  <2> QED BY <1>1, <2>2, <2>3, WriteKeeps
<1>5. ASSUME ~art[it].bundle, NEW clean \in BOOLEAN,
             art' = [art EXCEPT ![it].bundle = TRUE, ![it].clean = clean]
      PROVE  Immutable
  <2>1. PICK e : e = [art[it] EXCEPT !.bundle = TRUE, !.clean = clean]
    OBVIOUS
  <2>2. /\ e.frozen = art[it].frozen /\ e.by = art[it].by
        /\ e.post = art[it].post /\ e.result = art[it].result /\ e.gates = art[it].gates
    BY <1>1, <2>1 DEF Evidence
  <2>3. art' = [art EXCEPT ![it] = e]
    BY <1>1, <1>5, <2>1 DEF FileTypes
  <2> QED BY <1>1, <1>5, <2>2, <2>3, WriteKeeps
<1> QED BY <1>2, <1>3, <1>4, <1>5 DEF EnterPanel, Reviews, Bundle

LEMMA ChairKeeps ==
  ASSUME CampaignInv, BeginIntegration \/ PostFreeze \/ RecordResult PROVE Immutable
<1>1. it \in Iterations /\ art[it] \in Evidence /\ FileTypes /\ art[it].result = NoResult
  <2>1. pc \in AfterBundle
    BY DEF BeginIntegration, PostFreeze, RecordResult, AfterBundle, Integrating
  <2>2. it \in Iterations /\ art[it].result = NoResult
    BY <2>1, ChairPlace
  <2> QED BY <2>2 DEF CampaignInv, FileTypes
<1>2. CASE art' = art
  BY <1>2 DEF Immutable
<1>3. ASSUME NEW x, art' = [art EXCEPT ![it].result = x] PROVE Immutable
  <2>1. PICK e : e = [art[it] EXCEPT !.result = x]
    OBVIOUS
  <2>2. /\ e.frozen = art[it].frozen /\ e.by = art[it].by
        /\ e.bundle = art[it].bundle /\ e.clean = art[it].clean
        /\ e.post = art[it].post /\ e.gates = art[it].gates
    BY <1>1, <2>1 DEF Evidence
  <2>3. art' = [art EXCEPT ![it] = e]
    BY <1>3, <2>1
  <2> QED BY <1>1, <2>2, <2>3, WriteKeeps
<1>4. CASE art[it].post = NoPair /\ art' = [art EXCEPT ![it].post = Committed]
  <2>1. PICK e : e = [art[it] EXCEPT !.post = Committed]
    OBVIOUS
  <2>2. /\ e.frozen = art[it].frozen /\ e.by = art[it].by
        /\ e.bundle = art[it].bundle /\ e.clean = art[it].clean
        /\ e.result = art[it].result /\ e.gates = art[it].gates
    BY <1>1, <2>1 DEF Evidence
  <2>3. art' = [art EXCEPT ![it] = e]
    BY <1>4, <2>1
  <2> QED BY <1>1, <1>4, <2>2, <2>3, WriteKeeps
<1> QED BY <1>2, <1>3, <1>4 DEF BeginIntegration, PostFreeze, RecordResult

LEMMA VerdictKeeps == ASSUME CampaignInv, Verdict PROVE Immutable
<1>1. it \in Iterations /\ art[it] \in Evidence /\ FileTypes
  BY DEF Verdict, CampaignInv, PlaceInv, FileTypes
<1>2. CASE art' = art
  BY <1>2 DEF Immutable
<1>3. ASSUME NEW x, art[it].gates \in {NoGates, x}, art' = [art EXCEPT ![it].gates = x]
      PROVE  Immutable
  <2>1. PICK e : e = [art[it] EXCEPT !.gates = x]
    OBVIOUS
  <2>2. /\ e.frozen = art[it].frozen /\ e.by = art[it].by
        /\ e.bundle = art[it].bundle /\ e.clean = art[it].clean
        /\ e.post = art[it].post /\ e.result = art[it].result /\ e.gates = x
    BY <1>1, <2>1 DEF Evidence
  <2>3. art' = [art EXCEPT ![it] = e]
    BY <1>3, <2>1
  <2> QED BY <1>1, <1>3, <2>2, <2>3, WriteKeeps
<1> QED BY <1>2, <1>3 DEF Verdict

\* Every other step leaves the evidence alone.
LEMMA StepKeeps == ASSUME CampaignInv, [Next]_vars PROVE Immutable
<1>1. CASE art' = art
  BY <1>1 DEF Immutable
<1>2. CASE OperatorStep \/ Edit \/ Crash \/ UNCHANGED vars
  <2>1. art' = art
    BY <1>2 DEF OperatorStep, Recover, StartCampaign, ResumeCampaign, RunPanel, RunHardGates,
       GenerateInitial, RequestStop, RequestPause, Launch, Edit, Crash, vars, evidence
  <2> QED BY <1>1, <2>1
<1>3. CASE Begin \/ Generate \/ LoopHead \/ Account \/ IterationDone
  <2>1. art' = art
    BY <1>3 DEF Begin, Generate, LoopHead, Account, IterationDone, evidence
  <2> QED BY <1>1, <2>1
<1>4. CASE Consensus \/ Answer \/ CommitPair \/ Freshness \/ Gates
  <2>1. art' = art
    BY <1>4 DEF Consensus, Answer, CommitPair, Freshness, Gates, evidence
  <2> QED BY <1>1, <2>1
<1> QED BY <1>2, <1>3, <1>4, PanelKeeps, ChairKeeps, VerdictKeeps DEF Next, WorkerStep

\* Frozen versions, bundles, integration results and gate records, once written,
\* stay as they are.
THEOREM ImmutableCorrect == Spec => EvidenceIsImmutable
<1>1. ASSUME CampaignInv, [Next]_vars
      PROVE  [\A n \in Iterations :
                /\ art[n].frozen # NoPair => art'[n].frozen = art[n].frozen /\ art'[n].by = art[n].by
                /\ art[n].bundle => art'[n].bundle /\ art'[n].clean = art[n].clean
                /\ art[n].post # NoPair => art'[n].post = art[n].post
                /\ art[n].result # NoResult => art'[n].result = art[n].result
                /\ art[n].gates # NoGates => art'[n].gates = art[n].gates]_vars
  BY <1>1, StepKeeps DEF Immutable
<1> QED BY <1>1, CampaignInvariance, PTL DEF Spec, EvidenceIsImmutable

LEMMA Edges ==
  /\ ProposalEdges["IDLE"] = {"SOURCE_VALIDATION", "SCIENTIFIC_REVIEW", "FAILED", "INTEGRATION"}
  /\ ProposalEdges["SCIENTIFIC_REVIEW"] = {"INTEGRATION", "BLOCKED", "FAILED"}
  /\ ProposalEdges["INTEGRATION"] = {"HARD_GATE_VALIDATION", "BLOCKED", "FAILED"}
  /\ ProposalEdges["HARD_GATE_VALIDATION"] = {"COMPLETE", "REVISION_REQUIRED", "BLOCKED", "FAILED"}
  /\ ProposalEdges["REVISION_REQUIRED"] = {"SCIENTIFIC_REVIEW", "BLOCKED", "FAILED"}
BY DEF ProposalEdges

\* The machine stands still, is recovered, dies with the process, or takes an edge.
Walks == \/ machine' = machine \/ machine = "NONE" \/ machine' = "NONE"
         \/ machine' \in ProposalEdges[machine]

LEMMA StepWalks == ASSUME CampaignInv, [Next]_vars PROVE Walks
<1>1. CASE machine' = machine \/ machine = "NONE" \/ machine' = "NONE"
  BY <1>1 DEF Walks
<1>2. CASE OperatorStep \/ Edit \/ Crash \/ UNCHANGED vars
  <2>1. machine' = machine \/ machine = "NONE" \/ machine' = "NONE"
    BY <1>2 DEF OperatorStep, Recover, StartCampaign, ResumeCampaign, RunPanel, RunHardGates,
       GenerateInitial, RequestStop, RequestPause, Launch, Edit, Crash, vars
  <2> QED BY <1>1, <2>1
<1>3. CASE Begin \/ LoopHead \/ Account \/ IterationDone \/ Consensus \/ Answer \/ CommitPair
  <2>1. machine' = machine
    BY <1>3 DEF Begin, LoopHead, Account, IterationDone, Consensus, Answer, CommitPair
  <2> QED BY <1>1, <2>1
<1>4. CASE Generate
  <2>1. machine' = machine \/ (machine = "IDLE" /\ machine' = "INTEGRATION")
    BY <1>4 DEF Generate
  <2> QED BY <2>1, Edges DEF Walks
<1>5. CASE EnterPanel
  <2>1. \/ machine' = machine
        \/ machine = "IDLE" /\ machine' \in {"FAILED", "SOURCE_VALIDATION", "SCIENTIFIC_REVIEW"}
        \/ machine = "REVISION_REQUIRED" /\ machine' = "SCIENTIFIC_REVIEW"
    BY <1>5 DEF EnterPanel, PanelPhases, Entered
  <2> QED BY <2>1, Edges DEF Walks
<1>6. CASE Reviews \/ Bundle
  <2>1. machine = "SCIENTIFIC_REVIEW"
    BY <1>6 DEF Reviews, Bundle, CampaignInv, MachineInv, BeforeBundle
  <2>2. machine' \in {machine, "BLOCKED", "INTEGRATION"}
    BY <1>6 DEF Reviews, Bundle
  <2> QED BY <2>1, <2>2, Edges DEF Walks
<1>7. CASE BeginIntegration \/ PostFreeze \/ RecordResult
  <2>1. machine = "INTEGRATION"
    BY <1>7 DEF BeginIntegration, PostFreeze, RecordResult, CampaignInv, MachineInv, AfterBundle, Integrating
  <2>2. machine' \in {machine, "HARD_GATE_VALIDATION"}
    BY <1>7 DEF BeginIntegration, PostFreeze, RecordResult
  <2> QED BY <2>1, <2>2, Edges DEF Walks
<1>8. CASE Freshness \/ Gates \/ Verdict
  <2>1. machine = "HARD_GATE_VALIDATION"
    BY <1>8 DEF Freshness, Gates, Verdict, CampaignInv, MachineInv
  <2>2. machine' \in {machine, "REVISION_REQUIRED", "BLOCKED", "COMPLETE", "HARD_GATE_VALIDATION"}
    BY <1>8, GatePhases DEF Freshness, Gates, Verdict
  <2> QED BY <2>1, <2>2, Edges DEF Walks
<1> QED BY <1>2, <1>3, <1>4, <1>5, <1>6, <1>7, <1>8 DEF Next, WorkerStep

\* No step of the runtime asks the machine for an edge the graph does not have.
THEOREM EdgesCorrect == Spec => WalksLegalEdges
<1>1. ASSUME CampaignInv, [Next]_vars
      PROVE  [\/ machine' = machine \/ machine = "NONE" \/ machine' = "NONE"
              \/ machine' \in ProposalEdges[machine]]_vars
  BY <1>1, StepWalks DEF Walks
<1> QED BY <1>1, CampaignInvariance, PTL DEF Spec, WalksLegalEdges
=============================================================================
