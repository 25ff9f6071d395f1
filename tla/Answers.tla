------------------------------ MODULE Answers ------------------------------
(***************************************************************************)
(* How a raw answer of an engine becomes a plan, a verdict, a final audit  *)
(* or an integration (core/plan_parser.py, verdict_parser.py,              *)
(* final_audit_parser.py, proposal/integration_parser.py), and how an      *)
(* adopted plan becomes the tasks of a batch that outlive a restart.       *)
(*                                                                         *)
(* A text is a sequence of pieces: the two markers, a JSON object, a JSON  *)
(* list, or prose; "net" is the number of braces a piece opens and does    *)
(* not close (prose has them, and so have strings inside an object).  Text *)
(* that is balanced and no JSON is prose.  An object inside another object *)
(* or a list is a PART: it stands before the piece it belongs to, "lead"   *)
(* braces into it, and adds no braces of its own.  An object is "cut" when *)
(* braces in its strings make the scan end at another place.  Case and     *)
(* blanks around a word are left out, the code folds them.  A null counts  *)
(* as Junk, save in "findings", "fix_prompt", "next_batch", the three      *)
(* lists of an integration and its revised blueprint, where it counts as   *)
(* Absent.                                                                 *)
(***************************************************************************)
EXTENDS RawData, Integers, FiniteSets, SequencesExt

CONSTANTS
  Long,                   \* a string or a text beyond its bound
  MaxTasks,               \* PLAN_MAX_TASKS
  MaxEntries,             \* PLAN_LIST_MAX, MAX_FINDINGS, MAX_INTEGRATION_ITEMS
  AnswersOf               \* tuple of sets of answers, with what is expected

VARIABLES
  answer,                 \* the kind of answer, its text and what is expected
  at,                     \* the candidate that is read next
  outcome,                \* "reading", "adopted" or "refused"
  adopted,                \* the adopted object, else Absent
  tasks                   \* the tasks of the batch

answerVars == <<answer, at, outcome, adopted, tasks>>

Filled(v) == v \notin {Absent, Junk, Blank, Long}
MayBeEmpty(v) == v \notin {Absent, Junk, Long}
\* A field that is read with a default: missing is fine, null is not.
Defaulted(v) == v \notin {Junk, Long}
FilledList(v) == /\ Items(v) # << >> /\ Len(Items(v)) <= MaxEntries
                 /\ \A x \in Range(Items(v)) : Filled(x)

-----------------------------------------------------------------------------
(* Candidates *)

Readable(text) == text \notin {Absent, Junk, Long}

Places(text, form) == {i \in DOMAIN text : text[i].form = form}

\* From the first start marker to the first end marker after it, or to the end.
Enveloped(text) ==
  LET start == Min(Places(text, "START"))
      ends == {i \in Places(text, "END") : i > start}
  IN  SubSeq(text, start + 1, (IF ends = {} THEN Len(text) + 1 ELSE Min(ends)) - 1)

NoJson == [form |-> "PROSE", net |-> 0]

\* Several pieces in a row are no JSON.
Whole(pieces) ==
  LET own == {k \in DOMAIN pieces : pieces[k].form # "PART"}
  IN  IF \E k \in own : own = {k} THEN pieces[CHOOSE k \in own : own = {k}] ELSE NoJson

Payload(text) ==
  IF Places(text, "START") = {} \/ Places(text, "END") = {} \/ Enveloped(text) = << >>
  THEN << >>
  ELSE <<Whole(Enveloped(text))>>

Depth(text, i) == FoldLeft(LAMBDA d, p : d + p.net, 0, SubSeq(text, 1, i - 1))

\* The scan counts no open brace where the object begins, and no brace in a
\* string misleads it about the end.  After text that closes more than it opens
\* that is so inside an object, and not where the object itself begins.
Scanned(text, i) ==
  /\ text[i].form \in {"OBJECT", "PART"}
  /\ Depth(text, i) + text[i].lead = 0
  /\ ~text[i].cut

\* The scan for balanced regions that are JSON: at each place the object there,
\* or nothing.  A region that begins in a string has no key but punctuation.
Region(text, i) ==
  IF Scanned(text, i) THEN [form |-> "OBJECT", net |-> 0, value |-> text[i].value] ELSE NoJson

Regions(text) == [i \in DOMAIN text |-> Region(text, i)]

Candidates(text) == Payload(text) \o Regions(text)

\* The integration parser rescues nothing: one pair of markers, one payload.
OnlyCandidate(text) ==
  IF Cardinality(Places(text, "START")) = 1 /\ Cardinality(Places(text, "END")) = 1
  THEN Payload(text)
  ELSE << >>

-----------------------------------------------------------------------------
(* What each parser accepts *)

TaskAccepted(t) ==
  /\ t # Junk
  /\ t.index \in Int
  /\ Filled(t.title) /\ Filled(t.prompt)
  /\ FilledList(t.criteria) /\ FilledList(t.focus)

\* Mutant: only the largest place is looked at.
PlanAccepted_LastPlace(p, n) ==
  /\ Filled(p.title) /\ Filled(p.objective)
  /\ IsList(p.tasks)
  /\ Len(p.tasks) = n /\ n \in 1..MaxTasks
  /\ \A t \in Range(p.tasks) : TaskAccepted(t)
  /\ Max({p.tasks[i].index : i \in DOMAIN p.tasks}) = n
  /\ Cardinality({p.tasks[i].title : i \in DOMAIN p.tasks}) = n

\* Exactly n tasks at the places 1..n, in whatever order they are listed.
PlanAccepted(p, n) ==
  /\ Filled(p.title) /\ Filled(p.objective)
  /\ IsList(p.tasks)
  /\ Len(p.tasks) = n /\ n \in 1..MaxTasks
  /\ \A t \in Range(p.tasks) : TaskAccepted(t)
  /\ {p.tasks[i].index : i \in 1..n} = 1..n
  /\ Cardinality({p.tasks[i].title : i \in DOMAIN p.tasks}) = n

Severities == {"critical", "high", "medium", "low"}

FindingsAccepted(list) ==
  /\ list # Junk /\ Len(Items(list)) <= MaxEntries
  /\ \A f \in Range(Items(list)) :
       f # Junk /\ f.severity \in Severities /\ Filled(f.message) /\ Defaulted(f.evidence)

\* AuditVerdictResult.has_unresolved_defect
Unresolved(list) == \E f \in Range(Items(list)) : f.severity \in {"critical", "high"}

VerdictAccepted(v) ==
  /\ v.verdict \in {"PASS", "NEEDS_FIX", "BLOCKED"}
  /\ Defaulted(v.summary)
  /\ FindingsAccepted(v.findings)
  /\ Defaulted(v.fix_prompt)
  /\ v.verdict = "PASS" => ~Filled(v.fix_prompt) /\ ~Unresolved(v.findings)
  /\ v.verdict = "NEEDS_FIX" => Filled(v.fix_prompt)

\* Two real booleans; what they say is not asked.
Assessed(a) == IsList(a) /\ Range(a) \subseteq BOOLEAN

FinalAccepted(v, n) ==
  /\ v.verdict \in {"PASS", "NEEDS_FIX", "BLOCKED"}
  /\ Defaulted(v.summary)
  /\ FindingsAccepted(v.findings)
  /\ Assessed(v.assessment)
  /\ CASE v.verdict = "PASS" ->
            ~Unresolved(v.findings) /\ v.next \notin {Absent, Junk} /\ PlanAccepted(v.next, n)
       [] v.verdict = "NEEDS_FIX" -> Items(v.findings) # << >> /\ v.next = Absent
       [] v.verdict = "BLOCKED" -> v.next = Absent

\* One of the three lists: each entry with exactly its three keys, and the
\* action of the list it stands in.
EntriesAccepted(list, action) ==
  /\ list # Junk /\ Len(Items(list)) <= MaxEntries
  /\ \A x \in Range(Items(list)) :
       x # Junk /\ x.keys = "exact" /\ Filled(x.id) /\ x.action = action /\ MayBeEmpty(x.reason)

\* With a living blueprint its hash is echoed too.
IntegrationAccepted(v, expected) ==
  /\ v.role = "ORCHESTRATOR"
  /\ v.iteration = expected.iteration
  /\ v.hash = expected.hash
  /\ Filled(v.revised)
  /\ expected.blueprint # Absent => v.blueprint = expected.blueprint /\ Defaulted(v.revised_blueprint)
  /\ Defaulted(v.summary)
  /\ EntriesAccepted(v.applied, "applied")
  /\ EntriesAccepted(v.rejected, "rejected")
  /\ EntriesAccepted(v.unresolved, "unresolved")

-----------------------------------------------------------------------------
(* What may be read: lists are lists, and a text is made of pieces. *)

Listed(list) == list \in {Absent, Junk} \/ list \in Seq(Range(list))
Pieces == {"START", "END", "PROSE", "OBJECT", "PART", "LIST"}

PlanShaped(p) ==
  /\ Listed(p.tasks)
  /\ \A t \in Range(Items(p.tasks)) : t # Junk => Listed(t.criteria) /\ Listed(t.focus)

ValueShaped(v) ==
  /\ v.schema = "plan" => PlanShaped(v)
  /\ v.schema \in {"verdict", "final"} => Listed(v.findings)
  /\ v.schema = "final" => /\ v.next \notin {Absent, Junk} => PlanShaped(v.next)
                           /\ IsList(v.assessment) => v.assessment = <<v.assessment[1], v.assessment[2]>>
  /\ v.schema = "integration" => \A list \in {v.applied, v.rejected, v.unresolved} : Listed(list)

AnswerShaped(a) ==
  /\ a.kind \in {"plan", "verdict", "final", "integration"}
  /\ Readable(a.text) =>
       /\ a.text \in Seq(Range(a.text))
       /\ \A p \in Range(a.text) :
            /\ p.form \in Pieces
            /\ p.form \in {"OBJECT", "PART"} => ValueShaped(p.value) /\ (p.net # 0 => p.cut)
            /\ p.form = "PART" => p.net = 0

ASSUME AnswersAssumption ==
  /\ {MaxTasks, MaxEntries} \subseteq Nat
  /\ Absent # Junk /\ {Absent, Junk} \cap (BOOLEAN \X BOOLEAN) = {}
  /\ \A k \in DOMAIN AnswersOf : \A a \in AnswersOf[k] : AnswerShaped(a)

-----------------------------------------------------------------------------
(* Reading an answer *)

AnswerInit ==
  /\ \E k \in DOMAIN AnswersOf : answer \in AnswersOf[k]
  /\ at = 1
  /\ outcome = "reading"
  /\ adopted = Absent
  /\ tasks = << >>

Refuse == outcome' = "refused" /\ UNCHANGED <<answer, at, adopted, tasks>>

\* The object is of the kind that was asked for, and sound as a whole.
Accepted(v) ==
  /\ v.schema = answer.kind
  /\ \/ answer.kind = "plan" /\ PlanAccepted(v, answer.expected)
     \/ answer.kind = "verdict" /\ VerdictAccepted(v)
     \/ answer.kind = "final" /\ FinalAccepted(v, answer.expected)
     \/ answer.kind = "integration" /\ IntegrationAccepted(v, answer.expected)

\* An object that is refused leaves its turn to the next candidate; a payload
\* that is JSON and no object ends the reading.
Take(candidates) ==
  IF at > Len(candidates) THEN Refuse
  ELSE LET c == candidates[at]
       IN  CASE c.form = "LIST" -> Refuse
             [] c.form = "OBJECT" /\ Accepted(c.value) ->
                  /\ outcome' = "adopted" /\ adopted' = c.value
                  /\ UNCHANGED <<answer, at, tasks>>
             [] OTHER -> at' = at + 1 /\ UNCHANGED <<answer, outcome, adopted, tasks>>

Reading(kind) == outcome = "reading" /\ answer.kind = kind

\* No text, something that is no text, or too much of it.
Unreadable == outcome = "reading" /\ ~Readable(answer.text) /\ Refuse

ParseBatchPlan ==
  /\ Reading("plan") /\ Readable(answer.text)
  /\ Take(Candidates(answer.text))

ParseAuditVerdict ==
  /\ Reading("verdict") /\ Readable(answer.text)
  /\ Take(Candidates(answer.text))

ParseFinalAudit ==
  /\ Reading("final") /\ Readable(answer.text)
  /\ Take(Candidates(answer.text))

\* A single candidate: whatever is wrong with it ends the reading.
ParseProposalIntegration ==
  /\ Reading("integration") /\ Readable(answer.text)
  /\ Take(OnlyCandidate(answer.text))

-----------------------------------------------------------------------------
(* The tasks of an adopted plan *)

AdoptedPlan ==
  IF answer.kind = "plan" THEN adopted
  ELSE IF answer.kind = "final" /\ adopted.verdict = "PASS" THEN adopted.next
  ELSE Absent

Materialise ==
  /\ outcome = "adopted" /\ tasks = << >> /\ AdoptedPlan # Absent
  /\ tasks' = [i \in DOMAIN AdoptedPlan.tasks |->
                 [index |-> AdoptedPlan.tasks[i].index, title |-> AdoptedPlan.tasks[i].title,
                  state |-> "PENDING"]]
  /\ UNCHANGED <<answer, at, outcome, adopted>>

\* first_undone_task: the first in the order of the list.
Undone(s) == {i \in DOMAIN s : s[i].state # "APPROVED"}
FirstUndone(s) == Min(Undone(s))

\* "STARTED" is every state from the first build to the verdict that passes.
Work(from, to) ==
  /\ Undone(tasks) # {} /\ tasks[FirstUndone(tasks)].state = from
  /\ tasks' = [tasks EXCEPT ![FirstUndone(tasks)].state = to]
  /\ UNCHANGED <<answer, at, outcome, adopted>>

Build == Work("PENDING", "STARTED")
Approve == Work("STARTED", "APPROVED")

\* The rows come back in the order of their index.
Restart ==
  /\ tasks # << >>
  /\ tasks' = SortSeq(tasks, LAMBDA s, t : s.index < t.index)
  /\ UNCHANGED <<answer, at, outcome, adopted>>

AnswerNext ==
  \/ Unreadable
  \/ ParseBatchPlan \/ ParseAuditVerdict \/ ParseFinalAudit \/ ParseProposalIntegration
  \/ Materialise \/ Build \/ Approve \/ Restart

AnswerSpec == AnswerInit /\ [][AnswerNext]_answerVars

-----------------------------------------------------------------------------
(* What an answer must be, said over the whole of it *)

Task(t, k) == /\ t # Junk
              /\ t.index = k
              /\ \A v \in {t.title, t.prompt} : Filled(v)
              /\ \A l \in {t.criteria, t.focus} :
                   IsList(l) /\ Len(l) \in 1..MaxEntries /\ \A x \in Range(l) : Filled(x)

\* A plan: one full task at every place, no other, and no title twice.
PlanSound(p, n) ==
  /\ 1 <= n /\ n <= MaxTasks
  /\ Filled(p.title) /\ Filled(p.objective)
  /\ IsList(p.tasks) /\ Len(p.tasks) = n
  /\ \A k \in 1..n : \E i \in DOMAIN p.tasks : Task(p.tasks[i], k)
  /\ \A i, j \in DOMAIN p.tasks : i # j => p.tasks[i].title # p.tasks[j].title

Said(f) == f # Junk /\ f.severity \in Severities /\ Filled(f.message) /\ f.evidence \notin {Junk, Long}
FindingsSound(list) == list = Absent \/ (list # Junk /\ Len(list) <= MaxEntries /\ \A f \in Range(list) : Said(f))
Grave(list) == {i \in DOMAIN Items(list) : list[i].severity \in {"critical", "high"}}

\* A verdict: PASS leaves nothing grave and nothing to fix, NEEDS_FIX says what.
VerdictSound(v) ==
  /\ FindingsSound(v.findings)
  /\ {Junk, Long} \cap {v.summary, v.fix_prompt} = {}
  /\ \/ v.verdict = "PASS" /\ Grave(v.findings) = {} /\ v.fix_prompt \in {Absent, Blank}
     \/ v.verdict = "NEEDS_FIX" /\ Filled(v.fix_prompt)
     \/ v.verdict = "BLOCKED"

\* A final audit: a next batch with PASS, and with PASS alone.
FinalSound(v, n) ==
  /\ FindingsSound(v.findings)
  /\ v.summary \notin {Junk, Long}
  /\ v.assessment \in BOOLEAN \X BOOLEAN
  /\ \/ v.verdict = "PASS" /\ Grave(v.findings) = {} /\ v.next \notin {Absent, Junk} /\ PlanSound(v.next, n)
     \/ v.verdict = "NEEDS_FIX" /\ DOMAIN Items(v.findings) # {} /\ v.next = Absent
     \/ v.verdict = "BLOCKED" /\ v.next = Absent

\* An integration: it answers this iteration over these very documents, and no
\* item stands in a list it does not name.
IntegrationSound(v, e) ==
  /\ <<v.role, v.iteration, v.hash>> = <<"ORCHESTRATOR", e.iteration, e.hash>>
  /\ Filled(v.revised) /\ v.summary \notin {Junk, Long}
  /\ e.blueprint = Absent \/ (v.blueprint = e.blueprint /\ v.revised_blueprint \notin {Junk, Long})
  /\ \A l \in {<<"applied", v.applied>>, <<"rejected", v.rejected>>, <<"unresolved", v.unresolved>>} :
       l[2] = Absent \/
       /\ l[2] # Junk /\ Len(l[2]) <= MaxEntries
       /\ \A x \in Range(l[2]) : x # Junk /\ x.keys = "exact" /\ x.action = l[1]
                                   /\ Filled(x.id) /\ MayBeEmpty(x.reason)

Sound(v) ==
  /\ v.schema = answer.kind
  /\ CASE answer.kind = "plan" -> PlanSound(v, answer.expected)
       [] answer.kind = "verdict" -> VerdictSound(v)
       [] answer.kind = "final" -> FinalSound(v, answer.expected)
       [] answer.kind = "integration" -> IntegrationSound(v, answer.expected)

\* What stands after the first start marker and before the end marker, and the
\* one piece that is all of it.
Inside(text) ==
  {k \in DOMAIN text : /\ k > Min(Places(text, "START"))
                       /\ \A j \in Places(text, "END") : j > k \/ j < Min(Places(text, "START"))}
Enclosed(text) ==
  {i \in Inside(text) : /\ Places(text, "END") # {}
                        /\ text[i].form \in {"OBJECT", "LIST"}
                        /\ \A k \in Inside(text) : k = i \/ text[k].form = "PART"}
Pairs(text) == Places(text, "START") \X Places(text, "END")

\* An answer is adopted only for an object that is sound as a whole, and that is
\* all there is between the markers or stands where the scan counts no open
\* brace (which, after text that closes more than it opens, may be inside another
\* object: see NothingInsideIsAdopted); the object between the markers comes
\* before anything around it; a refusal means that no sound object stood where
\* the parser looks (an integration: between the only two markers), or that the
\* markers held a list.
AnswersFailClosed ==
  outcome # "reading" =>
    LET text == IF Readable(answer.text) THEN answer.text ELSE << >>
        enclosed == IF Places(text, "START") = {} THEN {} ELSE Enclosed(text)
        objects == {i \in DOMAIN text : text[i].form \in {"OBJECT", "PART"} /\ Sound(text[i].value)}
        strict == answer.kind = "integration"
    IN  /\ outcome = "adopted" =>
             \E i \in objects : /\ adopted = text[i].value
                                /\ i \in enclosed \/ (~strict /\ Scanned(text, i))
        /\ \A i \in enclosed \cap objects :
             (strict => Cardinality(Pairs(text)) = 1) => adopted = text[i].value
        /\ outcome = "adopted" /\ strict => Cardinality(Pairs(text)) = 1
        /\ outcome = "refused" /\ ~strict =>
             \/ \E i \in enclosed : text[i].form = "LIST"
             \/ \A i \in objects : ~Scanned(text, i)

\* Refuted: without a list, what is adopted stands for itself, and is no part of
\* an object that was not accepted ("a malformed response can never become PASS").
NothingInsideIsAdopted ==
  outcome = "adopted" =>
    \E i \in DOMAIN answer.text : \/ answer.text[i].form = "OBJECT" /\ adopted = answer.text[i].value
                                 \/ answer.text[i].form = "LIST"

\* Refuted: a restart goes on with the task that was under work
\* (first_undone_task: "the deterministic batch loop and restart recovery both
\* pick the same task").
RestartPicksTheSameTask ==
  [][Restart => (Undone(tasks) # {} => tasks'[FirstUndone(tasks')] = tasks[FirstUndone(tasks)])]_answerVars

=============================================================================
