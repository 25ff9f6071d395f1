----------------------------- MODULE MCHardGates -----------------------------
(* Ledgers for the hard gates: a sound one, and the ledgers that differ     *)
(* from it in one area, or in the faults a waiver may cover.                *)
EXTENDS HardGates

Task(id, pm) == [id |-> id, owner |-> "o", person_months |-> pm]
Package(id, tasks) == [id |-> id, tasks |-> tasks, deliverables |-> Absent,
                       milestones |-> Absent, person_months |-> 2]
Entry(id) == [id |-> id, subcontracted |-> TRUE, core_task |-> FALSE, justification |-> "j"]
Claim(id) == [id |-> id, source_ref |-> "s1", conflicting |-> FALSE,
              requires_citation |-> TRUE, verified |-> TRUE, source_refs |-> {"s1"}]
Milestone == [id |-> "m1", wp_ref |-> "w1", task_ref |-> "t1", deliverable_ref |-> "d1"]
Deliverable(id) == [id |-> id, refs |-> <<<<"t1", Blank>>, Absent>>]
Waive(g) == [gate |-> g, applicable |-> FALSE, reason |-> "r"]
Document == [file |-> "object", schema |-> TRUE, iteration |-> "this", hash |-> "this",
             applicability |-> << >>, sections |-> TRUE]

Sound ==
  [document |-> Document,
   headings |-> {"h1", "h2"}, words |-> {"x"},
   mandatory |-> [state |-> "present", required |-> <<"h1", "h2">>],
   challenge |-> [state |-> "present", required |-> <<"c1">>,
                  mappings |-> <<[marker |-> "c1", section |-> "h1", evidence |-> "e"]>>],
   registry |-> [state |-> "object", sources |-> <<[id |-> "s1"]>>],
   claims |-> [state |-> "object", list |-> <<Claim("k1")>>],
   unverified |-> [state |-> "object", unresolved |-> << >>],
   bundle |-> [state |-> "object", hash |-> "this", claims |-> <<Blank>>],
   terminology |-> [state |-> "present", rules |-> <<[canonical |-> "y", aliases |-> <<"z", Blank>>]>>],
   workplan |-> [state |-> "present", total |-> 2,
                 packages |-> <<[Package("w1", <<Task("t1", 1), Task("t2", 1)>>) EXCEPT
                                   !.deliverables = <<Deliverable("d1")>>,
                                   !.milestones = <<Milestone>>]>>],
   budget |-> [state |-> "present", categories |-> <<[name |-> "a", amount |-> 1], [name |-> "b", amount |-> 2]>>,
               participant_total |-> 3, declared_total |-> 3],
   subcontracting |-> [state |-> "present", entries |-> <<Entry("t2")>>],
   pages |-> [state |-> "object", method |-> "pdf", measured |-> 3, maximum |-> 3],
   contradictions |-> [state |-> "object", unresolved |-> << >>]]

Numbers == {Absent, Junk, NaN, Infinity, -1, 0, 2, 3}
Lists(S) == {Absent, Junk, << >>} \cup {<<x>> : x \in S} \cup {<<x, y>> : x, y \in S}
Ending(S, last) == {Absent, Junk, << >>} \cup {<<x, last>> : x \in S} \cup {<<last, x>> : x \in S}
Presence == {"present", "absent"}
FileStates == {"missing", "corrupt", "scalar", "object"}

Plan(total, packages) == [state |-> "present", total |-> total, packages |-> packages]
Subcontracted(es) == [state |-> "present", entries |-> es]

Headings == [mandatory : [state : Presence, required : Lists({"h1", "h3", Junk, Blank})]]
Challenges ==
  [challenge : [state : Presence, required : Lists({"c1", "c2"}),
                mappings : Lists([marker : {"c1", "c2", Blank}, section : {"h1", Blank}, evidence : {"e"}])]]
Sources ==
  [registry : [state : FileStates, sources : Lists([id : {"s1", "s2", Blank}])],
   claims : [state : {"object"},
             list : {Absent} \cup {<<[c EXCEPT !.source_ref = r, !.conflicting = b], d>> :
                       c, d \in {Claim("k1"), Claim("k2")}, r \in {"s1", Blank}, b \in BOOLEAN}]]
Claims ==
  [claims : [state : FileStates,
             list : Ending({[Claim(k) EXCEPT !.requires_citation = q, !.verified = v, !.source_refs = r] :
                              k \in {"k1", Blank}, q, v \in BOOLEAN, r \in {{}, {"s1"}}}, Claim("k2"))]]
Unverified ==
  [unverified : [state : FileStates, unresolved : Ending({"k"}, Junk) \cup {<<"k">>}],
   bundle : [state : {"none", "unusable", "object"}, hash : {"this", "other"},
             claims : Ending({"k", Junk}, Blank)]]
Terms ==
  [terminology : [state : {"present"},
                  rules : Lists([canonical : {"y", Blank}, aliases : {Absent, <<"x">>, <<"z", Junk>>}])]]
Budgets ==
  [budget : [state : {"present"},
             categories : Ending([name : {"a", "b", Blank}, amount : {Junk, NaN, Infinity, -1, 2}],
                                 [name |-> "a", amount |-> 1]),
             participant_total : {Absent, Junk, NaN, 3}, declared_total : {Absent, NaN, Infinity, 3}]]
Subcontracts ==
  [subcontracting : [state : {"present"},
                     entries : Ending([id : {"t1", "t9", Blank}, subcontracted : BOOLEAN, core_task : BOOLEAN,
                                       justification : {"j", Blank}], Entry("t2"))]]
Pages ==
  [pages : [state : FileStates, method : {"pdf", "estimate", Blank},
            measured : {Junk, NaN, Infinity, 3}, maximum : Numbers]]
Conflicts == [contradictions : [state : FileStates, unresolved : Lists({"c"})]]
Absences ==
  {[challenge |-> [Usual.challenge EXCEPT !.state = p], terminology |-> [Usual.terminology EXCEPT !.state = p],
    workplan |-> [Usual.workplan EXCEPT !.state = q], budget |-> [Usual.budget EXCEPT !.state = q],
    subcontracting |-> [Usual.subcontracting EXCEPT !.state = r]] : p, q, r \in Presence}

FewTasks == {Absent, Junk, Hollow, << >>, <<Task("t1", 2)>>, <<Task("t1", Absent)>>, <<Task("t2", 1), Task("t3", 1)>>}

\* One package with every kind of task beside a second one.
TaskPlans ==
  [workplan : {Plan(4, <<[Package("w1", ts) EXCEPT !.person_months = m], Package("w2", <<Task("t3", 2)>>)>>) :
                 ts \in Ending([id : {"t1", "t3", Blank}, owner : {"o", Blank},
                                person_months : {Absent, NaN, -1, 1}], Task("t1", 1)),
                 m \in {2, Infinity}}]
\* Two packages, their ids, their tasks and all the sums over them.
SumPlans ==
  [workplan : {Plan(n, <<Package("w1", ts), [Package(i, us) EXCEPT !.person_months = m]>>) :
                 ts, us \in FewTasks, i \in {"w1", "w2", Junk, Blank},
                 m \in {Absent, NaN, 2}, n \in {Absent, Infinity, 2, 4}},
   subcontracting : {Subcontracted(<<Entry("t1")>>)}]
\* Deliverables and milestones, and what they refer to.
RefPlans ==
  [workplan : {Plan(2, <<[Package("w1", ts) EXCEPT !.deliverables = ds, !.milestones = ms]>>) :
                 ts \in {Junk, Hollow, <<Task("t1", 2)>>},
                 ds \in {Hollow} \cup Ending([id : {"d1", Blank},
                                refs : {<<Absent, Absent>>, <<<<"t1", Blank>>, Junk>>,
                                        <<Absent, <<"t1", "t9">>>>, <<<<Junk>>, Absent>>}], Deliverable("d2")),
                 ms \in {Absent, Junk, << >>, <<Milestone, Milestone>>} \cup
                        {<<[Milestone EXCEPT !.id = i, !.wp_ref = w, !.task_ref = t, !.deliverable_ref = d]>> :
                           i \in {"m1", Blank}, w \in {"w1", "w9", Blank},
                           t \in {Absent, "t9"}, d \in {"d1", "d9"}}}]

\* Waivers, sound and unsound, beside every combination of four faults.
Waivers ==
  [document : {[Document EXCEPT !.applicability = <<[gate |-> g, applicable |-> w[1], reason |-> w[2]]>>] :
                 g \in Range(HARD_GATE_IDS) \cup {"other"},
                 w \in {<<TRUE, Blank>>, <<FALSE, "r">>, <<FALSE, Blank>>, <<Junk, "r">>}},
   headings : {{}, {"h1", "h2"}},
   pages : {[Usual.pages EXCEPT !.method = m] : m \in {"pdf", "estimate"}},
   contradictions : {[Usual.contradictions EXCEPT !.state = f] : f \in {"missing", "object"}},
   subcontracting : {Usual.subcontracting, Subcontracted(<< >>)},
   workplan : {Usual.workplan, Plan(2, <<Package("w1", Junk)>>),
               Plan(2, <<[Package("w1", Hollow) EXCEPT !.deliverables = Hollow, !.milestones = <<Milestone>>]>>),
               Plan(2, <<Package("w1", Hollow)>>)}]
Documents ==
  [document : [file : {"missing", "object"}, schema : BOOLEAN, iteration : {"this", "other"},
               hash : {"this", "other"}, sections : BOOLEAN,
               applicability : {Absent, Junk, Hollow, << >>, <<Waive("PAGE_LIMIT"), Waive("BUDGET_CONSISTENCY")>>}]]

AllVariations ==
  <<Headings, Challenges, Sources, Claims, Unverified, Terms, Budgets, Subcontracts, Pages, Conflicts,
    Absences, TaskPlans, SumPlans, RefPlans, Waivers, Documents>>

=============================================================================
