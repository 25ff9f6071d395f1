------------------------------ MODULE HardGates ------------------------------
(***************************************************************************)
(* The deterministic hard gates of the proposal mode: the evidence         *)
(* document is loaded and bound, the fourteen gates are evaluated one      *)
(* after the other in their canonical order, and the fourteen results are  *)
(* disposed (proposal/hard_gates.py, proposal/hard_gate_validators.py).    *)
(*                                                                         *)
(* A gate is a list of checks made in order; the first check that does not *)
(* pass is the gate's result.  A list entry that is not an object is an    *)
(* entry with a Blank id, wherever the code treats both alike.             *)
(***************************************************************************)
EXTENDS Integers, FiniteSets, SequencesExt

CONSTANTS
  Absent,                 \* missing or null
  Junk,                   \* of the wrong type: a number, or true
  Hollow,                 \* of the wrong type, but Python's "for x in value or []"
                          \* meets no object in it: 0, false, a string, a dict
  Blank,                  \* not a non-empty string
  NaN, Infinity,          \* Decimal accepts both as numbers
  Usual,                  \* a ledger with nothing wrong
  Variations              \* tuple of sets of what may differ from it

VARIABLES
  ledger,                 \* everything a gate may look at
  results,                \* the evaluations so far, in canonical order
  outcome                 \* "loading", "evaluating" or how the run ended

vars == <<ledger, results, outcome>>

HARD_GATE_IDS ==
  << "MANDATORY_SECTIONS", "CHALLENGE_MAPPING", "SOURCE_OF_TRUTH_INTEGRITY",
     "UNVERIFIED_CLAIMS", "CITATION_VERIFICATION", "TERMINOLOGY_CONSISTENCY",
     "WP_TASK_CONSISTENCY", "WP_DELIVERABLE_CONSISTENCY",
     "WP_MILESTONE_CONSISTENCY", "PERSON_MONTH_CONSISTENCY",
     "BUDGET_CONSISTENCY", "SUBCONTRACTING_CORE_TASKS", "PAGE_LIMIT",
     "INTERNAL_CONTRADICTIONS" >>

Ok == "PASS"
Issue == "PROPOSAL_ISSUE"
Missing == "EVIDENCE_MISSING"
Invalid == "EVIDENCE_INVALID"
Raises == "RAISES"        \* the validator leaves with a Python exception

-----------------------------------------------------------------------------
(* Checks *)

IsList(v) == v \notin {Absent, Junk, Hollow}
Items(v) == IF IsList(v) THEN v ELSE << >>

Say(verdict, bad) == IF bad THEN verdict ELSE Ok

FirstOf(checks) ==
  LET failing == {i \in DOMAIN checks : checks[i] # Ok}
  IN  IF failing = {} THEN Ok ELSE checks[Min(failing)]

Each(list, Check(_, _)) ==
  FirstOf([i \in DOMAIN Items(list) |-> Check(i, Items(list)[i])])

\* An array of strings, and nothing else.
Strings(v) == Say(Invalid, ~IsList(v) \/ Junk \in Range(Items(v)))

\* "for x in value or []": only a number or true is not iterable.
Iterated(v) == Say(Raises, v = Junk)

\* A JSON object in a workspace file; "missing" also stands for empty.
File(f) == CASE f.state = "missing" -> Missing
             [] f.state = "corrupt" -> Invalid
             [] OTHER -> Ok
Object(f) == Say(Invalid, f.state = "scalar")

\* Numeric and not negative; comparing NaN raises.
Amount(v) == CASE v \in {Absent, Junk} -> Invalid
               [] v = NaN -> Raises
               [] v = Infinity -> Ok
               [] OTHER -> Say(Invalid, v < 0)
Optional(v) == IF v = Absent THEN Ok ELSE Amount(v)

Plus(a, b) == IF Infinity \in {a, b} THEN Infinity ELSE a + b
Sum(s) == FoldSeq(Plus, 0, SelectSeq(s, LAMBDA v : Amount(v) = Ok))
Exceeds(a, b) == b # Infinity /\ (a = Infinity \/ a > b)

Repeated(s, i, field) == \E j \in 1..(i - 1) : s[j][field] = s[i][field]

-----------------------------------------------------------------------------
(* The gates *)

MandatorySections(l) ==
  LET required == l.mandatory.required
  IN  FirstOf(<< Say(Missing, l.mandatory.state = "absent"),
                 Strings(required),
                 Say(Invalid, Items(required) = << >>),
                 Say(Issue, \E h \in Range(Items(required)) : h \notin l.headings) >>)

ChallengeMapping(l) ==
  LET c == l.challenge
      Mapping(i, m) == Say(Invalid, \/ m.marker = Blank
                                    \/ m.section = Blank
                                    \/ m.evidence = Blank)
      mapped == {m.marker : m \in Range(Items(c.mappings))}
  IN  FirstOf(<< Say(Missing, c.state = "absent"),
                 Strings(c.required),
                 Say(Invalid, Items(c.required) = << >>),
                 Say(Invalid, ~IsList(c.mappings)),
                 Each(c.mappings, Mapping),
                 Say(Issue, \E k \in Range(Items(c.required)) : k \notin mapped) >>)

SourceOfTruth(l) ==
  LET sources == Items(l.registry.sources)
      claims == Items(l.claims.list)
      ids == {s.id : s \in Range(sources)}
      Source(i, s) == FirstOf(<< Say(Invalid, s.id = Blank),
                                 Say(Invalid, Repeated(sources, i, "id")) >>)
      Claim(i, c) == FirstOf(<< Say(Invalid, c.id = Blank),
                                Say(Invalid, Repeated(claims, i, "id")),
                                Say(Invalid, c.source_ref = Blank),
                                Say(Missing, c.source_ref \notin ids),
                                Say(Issue, c.conflicting) >>)
  IN  FirstOf(<< File(l.registry), File(l.claims),
                 Object(l.registry), Object(l.claims),
                 Say(Invalid, ~IsList(l.registry.sources) \/ ~IsList(l.claims.list)),
                 Each(l.registry.sources, Source), Each(l.claims.list, Claim) >>)

\* The latest review bundle, when it is about the evidence's revision.
LatestBundle(l) ==
  FirstOf(<< Say(Missing, l.bundle.state = "none"),
             Say(Invalid, l.bundle.state \in {"unusable", "scalar"}),
             Say(Invalid, l.bundle.hash # "this") >>)

UnverifiedClaims(l) ==
  FirstOf(<< File(l.unverified), Object(l.unverified),
             Strings(l.unverified.unresolved),
             Say(Issue, Items(l.unverified.unresolved) # << >>),
             LatestBundle(l),
             Say(Invalid, ~IsList(l.bundle.claims)),
             Say(Issue, Range(Items(l.bundle.claims)) \ {Blank, Junk} # {}) >>)

Citations(l) ==
  LET Claim(i, c) ==
        FirstOf(<< Say(Invalid, c.id = Blank),
                   Say(Issue, c.requires_citation
                                /\ (~c.verified \/ c.source_refs = {})) >>)
  IN  FirstOf(<< File(l.claims), Object(l.claims),
                 Say(Invalid, ~IsList(l.claims.list)),
                 Each(l.claims.list, Claim) >>)

Terminology(l) ==
  LET rules == l.terminology.rules
      Rule(i, r) == FirstOf(<< Say(Invalid, r.canonical = Blank), Strings(r.aliases) >>)
      used == UNION {Range(Items(r.aliases)) : r \in Range(Items(rules))}
  IN  FirstOf(<< Say(Missing, l.terminology.state = "absent"),
                 Say(Invalid, Items(rules) = << >>),
                 Each(rules, Rule),
                 Say(Issue, used \cap l.words # {}) >>)

-----------------------------------------------------------------------------
(* The gates over the work plan *)

Workplan(l) ==
  FirstOf(<< Say(Missing, l.workplan.state = "absent"),
             Say(Invalid, Items(l.workplan.packages) = << >>),
             Say(Invalid, \E w \in Range(Items(l.workplan.packages)) : w.id = Junk) >>)

\* The work packages, of a work plan that passes.
Packages(l) == IF Workplan(l) = Ok THEN l.workplan.packages ELSE << >>
PackageId(w) == Say(Invalid, w.id = Blank)

\* The entries with a usable id, as the later gates collect them.
Named(list) == {e.id : e \in Range(Items(list))} \ {Blank}
TaskIds(l) == UNION {Named(w.tasks) : w \in Range(Packages(l))}
DeliverableIds(l) == UNION {Named(w.deliverables) : w \in Range(Packages(l))}

\* Entry j of package i has the id of one before it, of the same package or
\* of an earlier one.
EntryRepeated(ps, field, i, j) ==
  LET at(k) == Items(ps[k][field])
  IN  \E k \in 1..i : \E m \in DOMAIN at(k) : (k = i => m < j) /\ at(k)[m].id = at(i)[j].id

WpTasks(l) ==
  LET ps == Packages(l)
      Package(i, w) ==
        LET Task(j, t) ==
              FirstOf(<< Say(Invalid, t.id = Blank),
                         Say(Issue, EntryRepeated(ps, "tasks", i, j)),
                         Say(Issue, t.owner = Blank) >>)
        IN  FirstOf(<< PackageId(w),
                       Say(Invalid, Repeated(ps, i, "id")),
                       Say(Invalid, Items(w.tasks) = << >>),
                       Each(w.tasks, Task) >>)
  IN  FirstOf(<< Workplan(l), Each(ps, Package) >>)

WpDeliverables(l) ==
  LET ps == Packages(l)
      Collect(i, w) == FirstOf(<< PackageId(w), Iterated(w.tasks) >>)
      Refs(i, refs) == IF refs = Absent THEN Ok
                       ELSE FirstOf(<< Strings(refs),
                                       Say(Issue, \E r \in Range(Items(refs)) \ {Blank} :
                                                    r \notin TaskIds(l)) >>)
      Package(i, w) ==
        LET Deliverable(j, d) ==
              FirstOf(<< Say(Invalid, d.id = Blank),
                         Say(Invalid, EntryRepeated(ps, "deliverables", i, j)),
                         Each(d.refs, Refs) >>)
        IN  IF w.deliverables = Absent THEN Ok
            ELSE FirstOf(<< Say(Invalid, Items(w.deliverables) = << >>),
                            Each(w.deliverables, Deliverable) >>)
  IN  FirstOf(<< Workplan(l), Each(ps, Collect), Each(ps, Package) >>)

WpMilestones(l) ==
  LET ps == Packages(l)
      Collect(i, w) == FirstOf(<< PackageId(w), Iterated(w.tasks), Iterated(w.deliverables) >>)
      Ref(ref, known) == IF ref = Absent THEN Ok
                         ELSE FirstOf(<< Say(Invalid, ref = Blank),
                                         Say(Issue, ref \notin known) >>)
      Package(i, w) ==
        LET Milestone(j, m) ==
              FirstOf(<< Say(Invalid, m.id = Blank),
                         Say(Invalid, EntryRepeated(ps, "milestones", i, j)),
                         Ref(m.wp_ref, {x.id : x \in Range(ps)}),
                         Ref(m.task_ref, TaskIds(l)),
                         Ref(m.deliverable_ref, DeliverableIds(l)) >>)
        IN  IF w.milestones = Absent THEN Ok
            ELSE FirstOf(<< Say(Invalid, Items(w.milestones) = << >>),
                            Each(w.milestones, Milestone) >>)
  IN  FirstOf(<< Workplan(l), Each(ps, Collect), Each(ps, Package) >>)

\* The person months a package's tasks give, where they give any.
TaskMonths(w) ==
  LET months == [j \in DOMAIN Items(w.tasks) |-> Items(w.tasks)[j].person_months]
  IN  SelectSeq(months, LAMBDA m : m # Absent)

PersonMonths(l) ==
  LET ps == Packages(l)
      Month(j, t) == Optional(t.person_months)
      Package(i, w) ==
        FirstOf(<< PackageId(w), Amount(w.person_months), Iterated(w.tasks),
                   Each(w.tasks, Month),
                   Say(Issue, /\ TaskMonths(w) # << >>
                              /\ Sum(TaskMonths(w)) # w.person_months) >>)
      total == l.workplan.total
  IN  FirstOf(<< Workplan(l), Each(ps, Package), Optional(total),
                 Say(Issue, total \notin {Absent, Sum([i \in DOMAIN ps |-> ps[i].person_months])}) >>)

-----------------------------------------------------------------------------
(* Budget, subcontracting, page limit, contradictions *)

Budget(l) ==
  LET b == l.budget
      categories == Items(b.categories)
      Category(i, c) == FirstOf(<< Say(Invalid, c.name = Blank),
                                   Say(Invalid, Repeated(categories, i, "name")),
                                   Amount(c.amount) >>)
      calculated == Sum([i \in DOMAIN categories |-> categories[i].amount])
  IN  FirstOf(<< Say(Missing, b.state = "absent"),
                 Say(Invalid, categories = << >>),
                 Each(b.categories, Category),
                 Optional(b.participant_total),
                 Say(Issue, b.participant_total \notin {Absent, calculated}),
                 Amount(b.declared_total),
                 Say(Issue, b.declared_total # calculated) >>)

Subcontracting(l) ==
  LET entries == l.subcontracting.entries
      Collect(i, w) == Iterated(w.tasks)
      Entry(i, e) == FirstOf(<< Say(Invalid, e.id = Blank),
                                Say(Invalid, e.id \notin TaskIds(l)),
                                Say(Invalid, ~e.subcontracted),
                                Say(Issue, e.core_task),
                                Say(Issue, e.justification = Blank) >>)
  IN  FirstOf(<< Say(Missing, l.subcontracting.state = "absent"),
                 Say(Invalid, ~IsList(entries)),
                 IF Items(entries) = << >> THEN Ok
                 ELSE FirstOf(<< Workplan(l), Each(Packages(l), Collect),
                                 Each(entries, Entry) >>) >>)

PagesUsable(p) == FirstOf(<< File(p), Object(p), Say(Invalid, p.method = Blank),
                             Amount(p.measured), Amount(p.maximum),
                             Say(Invalid, p.maximum = 0) >>)

\* Mutant: a proposal of exactly the allowed length is over the limit.
PageLimit_Strict(l) ==
  LET p == l.pages
  IN  IF PagesUsable(p) # Ok THEN PagesUsable(p)
      ELSE IF p.method = "estimate" THEN "WARN"
      ELSE Say(Issue, p.measured = p.maximum \/ Exceeds(p.measured, p.maximum))

PageLimit(l) ==
  LET p == l.pages
  IN  IF PagesUsable(p) # Ok THEN PagesUsable(p)
      ELSE IF p.method = "estimate" THEN "WARN"
      ELSE Say(Issue, Exceeds(p.measured, p.maximum))

Contradictions(l) ==
  FirstOf(<< File(l.contradictions), Object(l.contradictions),
             Say(Invalid, ~IsList(l.contradictions.unresolved)),
             Say(Issue, Items(l.contradictions.unresolved) # << >>) >>)

Validate(g, l) ==
  CASE g = "MANDATORY_SECTIONS" -> MandatorySections(l)
    [] g = "CHALLENGE_MAPPING" -> ChallengeMapping(l)
    [] g = "SOURCE_OF_TRUTH_INTEGRITY" -> SourceOfTruth(l)
    [] g = "UNVERIFIED_CLAIMS" -> UnverifiedClaims(l)
    [] g = "CITATION_VERIFICATION" -> Citations(l)
    [] g = "TERMINOLOGY_CONSISTENCY" -> Terminology(l)
    [] g = "WP_TASK_CONSISTENCY" -> WpTasks(l)
    [] g = "WP_DELIVERABLE_CONSISTENCY" -> WpDeliverables(l)
    [] g = "WP_MILESTONE_CONSISTENCY" -> WpMilestones(l)
    [] g = "PERSON_MONTH_CONSISTENCY" -> PersonMonths(l)
    [] g = "BUDGET_CONSISTENCY" -> Budget(l)
    [] g = "SUBCONTRACTING_CORE_TASKS" -> Subcontracting(l)
    [] g = "PAGE_LIMIT" -> PageLimit(l)
    [] g = "INTERNAL_CONTRADICTIONS" -> Contradictions(l)

-----------------------------------------------------------------------------
(* What a ledger is: lists are lists, numbers numbers, files in one of four *)
(* states and sections there or not.                                        *)

Listed(list) == list \in {Absent, Junk, Hollow} \/ list \in Seq(Range(list))
Numeric(v) == v \in {Absent, Junk, NaN, Infinity} \/ v \in Int

PackageShaped(w) ==
  /\ Listed(w.tasks) /\ Listed(w.deliverables) /\ Listed(w.milestones)
  /\ Numeric(w.person_months)
  /\ \A t \in Range(Items(w.tasks)) : Numeric(t.person_months)
  /\ \A d \in Range(Items(w.deliverables)) :
       /\ IsList(d.refs) /\ Listed(d.refs)
       /\ \A refs \in Range(d.refs) : Listed(refs) /\ Absent \notin Range(Items(refs))

LedgerShaped(l) ==
  /\ \A f \in {l.registry, l.claims, l.unverified, l.pages, l.contradictions} :
       f.state \in {"missing", "corrupt", "scalar", "object"}
  /\ l.bundle.state \in {"none", "unusable", "scalar", "object"}
  /\ \A s \in {l.mandatory, l.challenge, l.terminology, l.workplan, l.budget, l.subcontracting} :
       s.state \in {"present", "absent"}
  /\ Listed(l.challenge.mappings) /\ Listed(l.registry.sources) /\ Listed(l.claims.list)
  /\ Listed(l.terminology.rules) /\ Listed(l.workplan.packages) /\ Listed(l.budget.categories)
  /\ Listed(l.subcontracting.entries)
  /\ \A w \in Range(Items(l.workplan.packages)) : w.id # Junk => PackageShaped(w)
  /\ \A c \in Range(Items(l.budget.categories)) : Numeric(c.amount)
  /\ Numeric(l.workplan.total) /\ Numeric(l.budget.participant_total) /\ Numeric(l.budget.declared_total)
  /\ Numeric(l.pages.measured) /\ Numeric(l.pages.maximum)

ASSUME LedgerAssumption ==
  /\ Infinity \notin {Absent, Junk, NaN} /\ Blank # Absent
  /\ \A i \in DOMAIN Variations : \A v \in Variations[i] : LedgerShaped(v @@ Usual)

-----------------------------------------------------------------------------
(* One run *)

\* Refused documents: unreadable, of another iteration or revision, a waiver
\* without a boolean or a reason or for an unknown gate, a section that is no
\* object.
Loadable(d) ==
  /\ d.file = "object" /\ d.schema /\ d.iteration = "this" /\ d.hash = "this" /\ d.sections
  /\ d.applicability = Absent \/ IsList(d.applicability)
  /\ \A e \in Range(Items(d.applicability)) :
       /\ e.gate \in Range(HARD_GATE_IDS)
       /\ e.applicable \in BOOLEAN
       /\ e.applicable \/ e.reason # Blank

NotApplicable(g) ==
  \E e \in Range(Items(ledger.document.applicability)) : e.gate = g /\ ~e.applicable

Evaluation(g) == IF NotApplicable(g) THEN "NOT_APPLICABLE" ELSE Validate(g, ledger)

\* Mutant: missing evidence is looked for before proposal issues.
Disposition_EvidenceFirst(rs) ==
  IF {Missing, Invalid} \cap Range(rs) # {} THEN "BLOCKED"
  ELSE IF Issue \in Range(rs) THEN "REVISION_REQUIRED"
  ELSE IF "WARN" \in Range(rs) THEN "INCOMPLETE"
  ELSE "COMPLETE"

Disposition(rs) ==
  IF Issue \in Range(rs) THEN "REVISION_REQUIRED"
  ELSE IF {Missing, Invalid} \cap Range(rs) # {} THEN "BLOCKED"
  ELSE IF "WARN" \in Range(rs) THEN "INCOMPLETE"
  ELSE "COMPLETE"

Init == /\ \E i \in DOMAIN Variations : \E v \in Variations[i] : ledger = v @@ Usual
        /\ results = << >>
        /\ outcome = "loading"

Load == /\ outcome = "loading"
        /\ outcome' = IF Loadable(ledger.document) THEN "evaluating" ELSE "REFUSED"
        /\ UNCHANGED <<ledger, results>>

EvaluateGate ==
  /\ outcome = "evaluating"
  /\ Len(results) < Len(HARD_GATE_IDS)
  /\ LET e == Evaluation(HARD_GATE_IDS[Len(results) + 1])
     IN  IF e = Raises
         THEN outcome' = "ENGINE_FAILURE" /\ UNCHANGED results
         ELSE results' = Append(results, e) /\ UNCHANGED outcome
  /\ UNCHANGED ledger

Dispose ==
  /\ outcome = "evaluating"
  /\ Len(results) = Len(HARD_GATE_IDS)
  /\ outcome' = Disposition(results)
  /\ UNCHANGED <<ledger, results>>

Next == Load \/ EvaluateGate \/ Dispose

Spec == Init /\ [][Next]_vars

-----------------------------------------------------------------------------
(* What the gates are for, said of the whole ledger at once and without an  *)
(* order: when the evidence of a gate is usable, and when it shows a defect *)
(* of the proposal.                                                         *)

Number(v) == v \notin {Absent, Junk, NaN} /\ (v = Infinity \/ v >= 0)
NonEmpty(list) == IsList(list) /\ list # << >>
Texts(list) == IsList(list) /\ Junk \notin Range(list)
Unique(entries, field) ==
  \A p, q \in DOMAIN entries : entries[p][field] = entries[q][field] => p = q

\* The entries of a kind, at their places <<package, entry>>.
EntriesOf(l, field) ==
  LET at(i) == Items(Packages(l)[i][field])
  IN  [p \in UNION {{i} \X DOMAIN at(i) : i \in DOMAIN Packages(l)} |-> at(p[1])[p[2]]]
Usable(file) == file.state = "object"

\* A work plan the gates get through.  Whether its tasks are a list is asked by
\* WP_TASK_CONSISTENCY alone.
PlanUsable(l) == /\ l.workplan.state = "present"
                 /\ NonEmpty(l.workplan.packages)
                 /\ \A w \in Range(l.workplan.packages) : w.id \notin {Junk, Blank}
                 /\ \A w \in Range(l.workplan.packages) : w.tasks # Junk

\* An optional list of the packages, its entries named once.
EntriesUsable(l, field) ==
  /\ \A w \in Range(Packages(l)) : w[field] = Absent \/ NonEmpty(w[field])
  /\ Unique(EntriesOf(l, field), "id")
  /\ \A e \in Range(EntriesOf(l, field)) : e.id # Blank

WellFormed(g, l) ==
  CASE g = "MANDATORY_SECTIONS" ->
         l.mandatory.state = "present" /\ NonEmpty(l.mandatory.required) /\ Texts(l.mandatory.required)
    [] g = "CHALLENGE_MAPPING" ->
         /\ l.challenge.state = "present" /\ NonEmpty(l.challenge.required)
         /\ Texts(l.challenge.required) /\ IsList(l.challenge.mappings)
         /\ \A m \in Range(l.challenge.mappings) : Blank \notin {m.marker, m.section, m.evidence}
    [] g = "SOURCE_OF_TRUTH_INTEGRITY" ->
         /\ Usable(l.registry) /\ Usable(l.claims)
         /\ IsList(l.registry.sources) /\ IsList(l.claims.list)
         /\ \A list \in {l.registry.sources, l.claims.list} :
              Unique(list, "id") /\ \A x \in Range(list) : x.id # Blank
         /\ \A c \in Range(l.claims.list) : \E s \in Range(l.registry.sources) : s.id = c.source_ref
    [] g = "UNVERIFIED_CLAIMS" ->
         /\ Usable(l.unverified) /\ Texts(l.unverified.unresolved)
         /\ Usable(l.bundle) /\ l.bundle.hash = "this" /\ IsList(l.bundle.claims)
    [] g = "CITATION_VERIFICATION" ->
         Usable(l.claims) /\ IsList(l.claims.list) /\ \A c \in Range(l.claims.list) : c.id # Blank
    [] g = "TERMINOLOGY_CONSISTENCY" ->
         /\ l.terminology.state = "present" /\ NonEmpty(l.terminology.rules)
         /\ \A r \in Range(l.terminology.rules) : r.canonical # Blank /\ Texts(r.aliases)
    [] g = "WP_TASK_CONSISTENCY" ->
         /\ PlanUsable(l)
         /\ Unique(l.workplan.packages, "id")
         /\ \A w \in Range(l.workplan.packages) :
              NonEmpty(w.tasks) /\ \A t \in Range(w.tasks) : t.id # Blank
    [] g = "WP_DELIVERABLE_CONSISTENCY" ->
         /\ PlanUsable(l) /\ EntriesUsable(l, "deliverables")
         /\ \A d \in Range(EntriesOf(l, "deliverables")) :
              \A refs \in Range(d.refs) : refs = Absent \/ Texts(refs)
    [] g = "WP_MILESTONE_CONSISTENCY" ->
         /\ PlanUsable(l) /\ EntriesUsable(l, "milestones")
         /\ \A w \in Range(Packages(l)) : w.deliverables # Junk
         /\ \A m \in Range(EntriesOf(l, "milestones")) :
              Blank \notin {m.wp_ref, m.task_ref, m.deliverable_ref}
    [] g = "PERSON_MONTH_CONSISTENCY" ->
         /\ PlanUsable(l)
         /\ \A w \in Range(Packages(l)) : Number(w.person_months)
         /\ \A t \in Range(EntriesOf(l, "tasks")) :
              t.person_months = Absent \/ Number(t.person_months)
         /\ l.workplan.total = Absent \/ Number(l.workplan.total)
    [] g = "BUDGET_CONSISTENCY" ->
         /\ l.budget.state = "present" /\ NonEmpty(l.budget.categories)
         /\ Unique(l.budget.categories, "name")
         /\ \A c \in Range(l.budget.categories) : c.name # Blank /\ Number(c.amount)
         /\ l.budget.participant_total = Absent \/ Number(l.budget.participant_total)
         /\ Number(l.budget.declared_total)
    [] g = "SUBCONTRACTING_CORE_TASKS" ->
         /\ l.subcontracting.state = "present" /\ IsList(l.subcontracting.entries)
         /\ l.subcontracting.entries # << >> =>
              /\ l.workplan.state = "present" /\ NonEmpty(l.workplan.packages)
              /\ \A w \in Range(l.workplan.packages) : w.id # Junk /\ w.tasks # Junk
              /\ \A e \in Range(l.subcontracting.entries) : e.id \in TaskIds(l) /\ e.subcontracted
    [] g = "PAGE_LIMIT" ->
         /\ Usable(l.pages) /\ l.pages.method # Blank
         /\ Number(l.pages.measured) /\ Number(l.pages.maximum) /\ l.pages.maximum # 0
    [] g = "INTERNAL_CONTRADICTIONS" ->
         Usable(l.contradictions) /\ IsList(l.contradictions.unresolved)

Dangling(ref, known) == ref \notin known \cup {Absent, Blank}

Defect(g, l) ==
  CASE g = "MANDATORY_SECTIONS" -> ~(Range(Items(l.mandatory.required)) \subseteq l.headings)
    [] g = "CHALLENGE_MAPPING" ->
         \E k \in Range(Items(l.challenge.required)) :
           \A m \in Range(Items(l.challenge.mappings)) : m.marker # k
    [] g = "SOURCE_OF_TRUTH_INTEGRITY" -> \E c \in Range(Items(l.claims.list)) : c.conflicting
    [] g = "UNVERIFIED_CLAIMS" ->
         Items(l.unverified.unresolved) # << >> \/ ~(Range(Items(l.bundle.claims)) \subseteq {Blank, Junk})
    [] g = "CITATION_VERIFICATION" ->
         \E c \in Range(Items(l.claims.list)) : c.requires_citation /\ ~(c.verified /\ c.source_refs # {})
    [] g = "TERMINOLOGY_CONSISTENCY" ->
         \E r \in Range(Items(l.terminology.rules)) : Range(Items(r.aliases)) \cap l.words # {}
    [] g = "WP_TASK_CONSISTENCY" ->
         \/ ~Unique(EntriesOf(l, "tasks"), "id")
         \/ \E t \in Range(EntriesOf(l, "tasks")) : t.owner = Blank
    [] g = "WP_DELIVERABLE_CONSISTENCY" ->
         \E d \in Range(EntriesOf(l, "deliverables")) : \E refs \in Range(d.refs) :
           \E ref \in Range(Items(refs)) : Dangling(ref, TaskIds(l))
    [] g = "WP_MILESTONE_CONSISTENCY" ->
         \E m \in Range(EntriesOf(l, "milestones")) :
           \/ Dangling(m.wp_ref, {w.id : w \in Range(Packages(l))})
           \/ Dangling(m.task_ref, TaskIds(l))
           \/ Dangling(m.deliverable_ref, DeliverableIds(l))
    [] g = "PERSON_MONTH_CONSISTENCY" ->
         \/ \E w \in Range(Packages(l)) :
              TaskMonths(w) # << >> /\ Sum(TaskMonths(w)) # w.person_months
         \/ l.workplan.total \notin
              {Absent, Sum([i \in DOMAIN Packages(l) |-> Packages(l)[i].person_months])}
    [] g = "BUDGET_CONSISTENCY" ->
         LET sum == Sum([i \in DOMAIN Items(l.budget.categories) |-> l.budget.categories[i].amount])
         IN  l.budget.declared_total # sum \/ l.budget.participant_total \notin {Absent, sum}
    [] g = "SUBCONTRACTING_CORE_TASKS" ->
         \E e \in Range(Items(l.subcontracting.entries)) : e.core_task \/ e.justification = Blank
    [] g = "PAGE_LIMIT" ->
         /\ l.pages.method # "estimate"
         /\ Number(l.pages.measured) /\ Number(l.pages.maximum)
         /\ Exceeds(l.pages.measured, l.pages.maximum)
    [] g = "INTERNAL_CONTRADICTIONS" -> Items(l.contradictions.unresolved) # << >>

\* The gates no entry of the evidence document waives with a reason.
Binding == {g \in Range(HARD_GATE_IDS) :
              \A e \in Range(Items(ledger.document.applicability)) :
                ~(e.gate = g /\ e.applicable = FALSE /\ e.reason # Blank)}

Authoritative == "PAGE_LIMIT" \notin Binding \/ ledger.pages.method # "estimate"

Outcomes == {"loading", "evaluating", "REFUSED", "ENGINE_FAILURE",
             "COMPLETE", "REVISION_REQUIRED", "BLOCKED", "INCOMPLETE"}

(* Nothing escapes the gates: a run that ends COMPLETE met evidence without *)
(* a defect, and usable by what each gate asks of it, for every gate that   *)
(* is not explicitly waived, an authoritative page count included, and a    *)
(* defect shown by usable evidence is never reported as anything milder     *)
(* than REVISION_REQUIRED.  What a gate asks is at WellFormed; of the       *)
(* tasks of a package most ask too little (EvidenceIsTyped).                *)
NoDefectEscapes ==
  LET clean(g) == WellFormed(g, ledger) /\ ~Defect(g, ledger)
  IN  /\ outcome = "COMPLETE" => Authoritative /\ \A g \in Binding : clean(g)
      /\ outcome \in {"COMPLETE", "BLOCKED", "INCOMPLETE"} =>
           \A g \in Binding : ~(WellFormed(g, ledger) /\ Defect(g, ledger))

(* A disposition is deserved: revision is asked only where the ledger shows *)
(* a defect, BLOCKED only where some evidence is unusable, INCOMPLETE only  *)
(* for an estimated page count, and a ledger with nothing wrong completes.  *)
DispositionIsDeserved ==
  /\ outcome = "REVISION_REQUIRED" => \E g \in Binding : Defect(g, ledger)
  /\ outcome = "BLOCKED" => \E g \in Binding : ~WellFormed(g, ledger)
  /\ outcome = "INCOMPLETE" => ~Authoritative
  /\ outcome \in {"REVISION_REQUIRED", "BLOCKED", "INCOMPLETE", "ENGINE_FAILURE"} =>
       ~(Authoritative /\ \A g \in Binding : WellFormed(g, ledger) /\ ~Defect(g, ledger))

(* "array/object shape checks guard every access" and malformed evidence is *)
(* EVIDENCE_INVALID (hard_gate_validators.py:12 and :20): no run completes  *)
(* whose applicable gates read tasks that are no list.                      *)
EvidenceIsTyped ==
  outcome = "COMPLETE" /\ {"WP_DELIVERABLE_CONSISTENCY", "PERSON_MONTH_CONSISTENCY"} \cap Binding # {} =>
    \A w \in Range(Packages(ledger)) : w.tasks = Absent \/ IsList(w.tasks)

(* The runner says of an exception of the engine that it is never an input  *)
(* issue (hard_gate_runner.py:218).                                         *)
InputNeverBreaksTheEngine == outcome # "ENGINE_FAILURE"
=============================================================================
