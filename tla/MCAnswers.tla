----------------------------- MODULE MCAnswers -----------------------------
(* Answers with one or two fields off, alone, between markers, among prose  *)
(* with stray braces, twice, inside one another, beside one that is sound.  *)
EXTENDS Answers

Mark(m) == [form |-> m, net |-> 0]
Start == Mark("START")
End == Mark("END")
Prose(n) == [form |-> "PROSE", net |-> n]
Obj(v, n) == [form |-> "OBJECT", net |-> n, lead |-> 0, cut |-> n # 0, value |-> v]
\* Misleading braces that come out even, an object inside one, and a list.
Cut(v) == [Obj(v, 0) EXCEPT !.cut = TRUE]
Part(v, n) == [Obj(v, 0) EXCEPT !.form = "PART", !.lead = n]
List == Mark("LIST")

Words == {Absent, Junk, Blank, Long, "w"}
Lists == {Absent, Junk, << >>, <<"w">>, <<"w", Blank>>, <<"w", Junk, "w">>, <<"w", "w", "w">>}

T(k, title) == [index |-> k, title |-> title, prompt |-> "p", criteria |-> <<"c">>, focus |-> <<"f">>]
Plan(ts) == [schema |-> "plan", title |-> "b", objective |-> "o", tasks |-> ts]
Two == Plan(<<T(1, "t"), T(2, "u")>>)
Turned == Plan(<<T(2, "u"), T(1, "t")>>)
Plans ==
       {Plan([i \in 1..n |-> T(k[i], t[i])]) : n \in 0..3, k \in [1..3 -> 0..3], t \in [1..3 -> {"t", "u"}]}
  \cup {Plan(ts) : ts \in {Absent, Junk, <<Junk, T(1, "t")>>, <<T(1, "t"), T(Junk, "u")>>,
                           <<T(1, "t"), T(2, "u"), T(3, "v")>>}}
  \cup {[Two EXCEPT !.title = v, !.objective = w] : v, w \in Words}
  \cup {[Two EXCEPT !.tasks[2].title = v, !.tasks[1].prompt = w] : v, w \in Words}
  \cup {[Two EXCEPT !.tasks[1].criteria = v, !.tasks[2].focus = w] : v, w \in Lists}
FewPlans == {Absent, Junk, Two, Turned, Plan(<<T(1, "t")>>), Plan(<<T(1, "t"), T(1, "u")>>), Plan(<<T(1, "t"), T(2, "t")>>)}

F(s, m, e) == [severity |-> s, message |-> m, evidence |-> e]
Findings ==
       {Absent, Junk, << >>, <<Junk>>, <<F("low", "m", Absent), F("critical", "m", "e")>>,
        <<F("low", "m", Absent), F("medium", "m", Blank)>>, [i \in 1..3 |-> F("low", "m", "e")]}
  \cup {<<F(s, m, e)>> : s \in {"low", "high", Junk}, m \in Words, e \in Words}
Verdict(v, fs, x) == [schema |-> "verdict", verdict |-> v, summary |-> "s", findings |-> fs, fix_prompt |-> x]
Judgements == {"PASS", "NEEDS_FIX", "BLOCKED", Absent, Junk}
Verdicts ==
       {Verdict(v, fs, x) : v \in Judgements, fs \in Findings, x \in Words}
  \cup {[Verdict(v, Absent, Blank) EXCEPT !.summary = w] : v \in Judgements, w \in Words}

Final(v, fs, a, next) ==
  [schema |-> "final", verdict |-> v, summary |-> "s", findings |-> fs, assessment |-> a, next |-> next]
Finals ==
       {Final(v, fs, <<TRUE, FALSE>>, p) : v \in Judgements, fs \in Findings, p \in FewPlans}
  \cup {[Final(v, <<F("low", "m", "e")>>, a, p) EXCEPT !.summary = w] :
          v \in Judgements, a \in {Absent, Junk, <<TRUE, Absent>>, <<Junk, TRUE>>, <<FALSE, FALSE>>},
          p \in {Absent, Two}, w \in Words}

E(action) == [keys |-> "exact", id |-> "i", action |-> action, reason |-> "r"]
Merged == [schema |-> "integration", role |-> "ORCHESTRATOR", iteration |-> 2, hash |-> "h", revised |-> "d",
           blueprint |-> "b", revised_blueprint |-> Absent, summary |-> "s",
           applied |-> <<E("applied")>>, rejected |-> Absent, unresolved |-> << >>]
Entries == {[E(a) EXCEPT !.keys = k, !.id = i, !.reason = r] :
              a \in {"applied", "rejected", Blank}, k \in {"exact", "more"}, i \in Words, r \in {Junk, Blank, Long, "r"}}
Integrations ==
       {[Merged EXCEPT !.role = r, !.iteration = i, !.hash = h, !.blueprint = b] :
          r \in {"ORCHESTRATOR", "RED_TEAM_REVIEWER", Absent}, i \in {2, 1, Absent, Junk}, h, b \in {"h", "b", Absent, Junk}}
  \cup {[Merged EXCEPT !.revised = w, !.revised_blueprint = x, !.summary = y] : w, x, y \in Words}
  \cup {[Merged EXCEPT !.applied = a, !.rejected = b] : a \in {Absent, Junk} \cup {<<e>> : e \in Entries},
                                                       b \in {<<E("rejected")>>, <<E("applied")>>, Junk}}
  \cup {[Merged EXCEPT !.unresolved = u] : u \in {<<Junk>>, <<E("unresolved")>>, [i \in 1..3 |-> E("unresolved")]}}

\* Where the objects of a text may stand.
Texts(v, w) ==
  <<Absent, Junk, Long, << >>, <<Start, End>>, <<Prose(0)>>, <<Obj(v, 0)>>, <<Obj(v, 1)>>, <<Part(v, 0), List>>,
   <<Start, Obj(v, 0), End>>, <<Start, Obj(v, 1), End, Obj(w, 0)>>, <<Start, Prose(0), Obj(v, 0), End>>,
   <<Obj(w, 0), Start, Obj(v, 0), End>>, <<Obj(w, 0), Start, Obj(v, -1), End, Obj(v, 0)>>,
   <<Prose(1), Obj(v, 0), Prose(-1), Obj(w, 0)>>, <<Prose(-1), Start, Obj(v, 0), End>>, <<Prose(-1), Obj(v, 0)>>,
   <<Start, Part(v, 0), List, End>>, <<Start, List, End, Obj(w, 0)>>, <<Obj(v, 0), Obj(w, 0)>>,
   <<Start, Obj(v, 0), End, Start, Obj(w, 0), End>>, <<End, Obj(w, 0), Start, Obj(v, 0)>>,
   <<Start, Obj(v, 0)>>, <<Start, Start, Obj(v, 0), End>>, <<Start, Obj(v, 0), End, End>>,
   <<Part(v, 1), Obj(w, 0)>>, <<Prose(-1), Part(v, 1), Obj(w, 0)>>, <<Part(v, 0), Cut(w)>>,
   <<Prose(-2), Part(v, 2), Part(w, 1), Obj(w, 0)>>, <<Part(v, 0), Part(w, 0), List, Obj(w, 0)>>,
   <<Start, Part(v, 1), Obj(w, 0), End>>, <<Prose(-1), Start, Part(v, 1), Obj(w, 0), End>>,
   <<Part(w, 1), Obj(v, 0), Start, Part(v, 0), Part(w, 0), List, End>>>>

Given(kind, text, expected) == [kind |-> kind, text |-> text, expected |-> expected]
Alone(v) == <<<<Start, Obj(v, 0), End>>, <<Obj(v, 0)>>>>
Good(kind) == CASE kind = "plan" -> {Two, Turned}
                [] kind = "verdict" -> {Verdict("PASS", Absent, Blank), Verdict("NEEDS_FIX", << >>, "x")}
                [] kind = "final" -> {Final("PASS", << >>, <<TRUE, TRUE>>, Turned),
                                      Final("BLOCKED", << >>, <<TRUE, TRUE>>, Absent)}
                [] kind = "integration" -> {Merged}
Bad(kind) == CASE kind = "plan" -> {Plan(<<T(1, "t"), T(1, "u")>>), Verdict("PASS", Absent, Blank)}
               [] kind = "verdict" -> {Verdict("PASS", <<F("high", "m", "e")>>, Blank), Two}
               [] kind = "final" -> {Final("PASS", << >>, <<TRUE, TRUE>>, Absent), Two}
               [] kind = "integration" -> {[Merged EXCEPT !.hash = "old"], Two}
Expected(kind) == IF kind = "integration" THEN [iteration |-> 2, hash |-> "h", blueprint |-> "b"]
                  ELSE IF kind = "verdict" THEN 0 ELSE 2
Kinds == <<"plan", "verdict", "final", "integration">>

MCAnswersOf ==
  <<{Given("plan", Alone(p)[i], n) : p \in Plans, i \in 1..2, n \in 0..3},
    {Given("verdict", Alone(v)[i], 0) : v \in Verdicts, i \in 1..2},
    {Given("final", Alone(v)[i], n) : v \in Finals, i \in 1..2, n \in 1..3},
    {Given("integration", Alone(v)[i], [iteration |-> 2, hash |-> "h", blueprint |-> b]) :
       v \in Integrations, i \in 1..2, b \in {"b", Absent}}>>
  \o [k \in 1..4 |-> UNION {{Given(Kinds[k], Texts(v, w)[i], Expected(Kinds[k])) : i \in DOMAIN Texts(v, w)} :
                           v, w \in Good(Kinds[k]) \cup Bad(Kinds[k])}]

=============================================================================
