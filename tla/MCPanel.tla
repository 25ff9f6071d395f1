------------------------------ MODULE MCPanel ------------------------------
(* Answers for the panel: one evaluator gives every kind of answer, sound   *)
(* and unsound, the other two a few that matter to the aggregate.           *)
EXTENDS PanelRound

F(severity, message, target) ==
  [severity |-> severity, category |-> "known", message |-> message, details |-> "d", target |-> target]
P(rationale, target) ==
  [section |-> "s", rationale |-> rationale, replacement |-> "x", instructions |-> Blank,
   confidence |-> Absent, details |-> "d", target |-> target]
Review0(r, verdict, findings, patches, claims) ==
  [envelope |-> "one", payload |-> "object", verdict |-> verdict, role |-> r, iteration |-> "this",
   summary |-> "s", findings |-> findings, patches |-> patches, claims |-> claims]

Sci == "SCIENTIFIC_REVIEWER"
Eng == "PROPOSAL_ENGINEER"
Red == "RED_TEAM_REVIEWER"
Plain == Review0(Sci, "PASS", <<F("medium", "m1", "BOTH")>>, Absent, << >>)
Revise(fs, ps) == Review0(Sci, "NEEDS_REVISION", fs, ps, <<"c1">>)

SciAnswers ==
       {[Plain EXCEPT !.envelope = e, !.payload = p] : e \in {"one", "none", "half", "two"},
                                                     p \in {"object", "array", "no JSON"}}
  \cup {[Plain EXCEPT !.verdict = v, !.findings = fs, !.claims = cs] :
          v \in {"PASS", "NEEDS_REVISION", "BLOCKED", Junk},
          fs \in {Absent, Junk, <<F("low", "m1", "BOTH")>>, <<F("high", "m1", "PROPOSAL"), F("critical", "m2", "BLUEPRINT")>>},
          cs \in {Absent, << >>, <<"c1">>, <<Junk>>}}
  \cup {[Plain EXCEPT !.summary = s] : s \in {Blank, Junk}}
  \cup {[Plain EXCEPT !.role = r, !.iteration = i] : r \in {Sci, Eng, Junk}, i \in {"this", "other", Junk}}
  \cup {Revise(<<[F("low", "m1", t) EXCEPT !.severity = s, !.category = c, !.message = m]>>, Absent) :
          t \in {Absent, "BOTH", Junk}, s \in {"low", Junk}, c \in {"known", "unknown"}, m \in {"m1", Blank}}
  \cup {Revise(Absent, <<[P("q1", t) EXCEPT !.replacement = x, !.instructions = y, !.confidence = c]>>) :
          t \in {Absent, "BLUEPRINT"}, x, y \in {Blank, "x"}, c \in {"in range", "NaN", "too high", Junk}}
  \cup {Revise([i \in 1..n |-> F("high", "m1", "BOTH")], [i \in 1..k |-> P("q1", "BOTH")]) : n, k \in 0..3}

MCReviews ==
  Sci :> SciAnswers @@
  Eng :> {Review0(Eng, "PASS", <<F("low", "m1", "BOTH"), F("medium", "m2", "BLUEPRINT")>>, Absent, Absent),
          Review0(Eng, "NEEDS_REVISION", <<F("critical", "m1", "PROPOSAL")>>, <<P("q1", "BOTH")>>, << >>)} @@
  Red :> {Review0(Red, "PASS", << >>, << >>, << >>),
          Review0(Red, "NEEDS_REVISION", <<F("high", "m1", "PROPOSAL")>>, <<P("q2", "BLUEPRINT")>>, <<"c2">>),
          Review0(Red, "BLOCKED", << >>, << >>, << >>)}

J(id, judgement, blocks) == [id |-> id, judgement |-> judgement, blocks |-> blocks, details |-> "d"]
C(criterion, score) == [criterion |-> criterion, score |-> score]
Ballot(r, judgements, scores) ==
  [envelope |-> "one", payload |-> "object", role |-> r, iteration |-> "this", hash |-> "this",
   judgements |-> judgements, scores |-> scores, summary |-> "s"]
F1 == <<"F", 1>>
F2 == <<"F", 2>>
P1 == <<"P", 1>>
Full == <<C("c1", 100), C("c2", 100)>>
Agree == Ballot(Sci, <<J(F1, "AGREE", Absent), J(F2, "AGREE", FALSE)>>, Full)

MCBallots ==
  Sci :>      {Ballot(Sci, js, sc) : js \in {<<J(F1, "AGREE", Absent)>>, <<J(F1, "AGREE", TRUE), J(F2, "PARTIAL", FALSE)>>},
                                     sc \in {Absent, Full, <<C("c1", 0), C("c2", 50)>>}}
         \cup {[Agree EXCEPT !.judgements = js] :
                 js \in {Absent, << >>, <<J(F1, "AGREE", TRUE), J(F1, "DISAGREE", TRUE)>>, <<J(Blank, "AGREE", TRUE)>>,
                         <<J(F1, "MAYBE", TRUE)>>, <<J(F1, "AGREE", Junk)>>, <<J(<<"F", 9>>, "AGREE", TRUE)>>,
                         [i \in 1..4 |-> J(<<"F", i>>, "AGREE", TRUE)]}}
         \cup {[Agree EXCEPT !.scores = sc] :
                 sc \in {Junk, << >>, <<C("c1", 101)>>, <<C("c3", 1)>>, <<C("c1", 1), C("c1", 2)>>}}
         \cup {[Agree EXCEPT !.envelope = "none"], [Agree EXCEPT !.role = Eng], [Agree EXCEPT !.hash = "other"],
               [Agree EXCEPT !.iteration = "other"], [Agree EXCEPT !.iteration = "this as a float"],
               [Agree EXCEPT !.summary = Junk]} @@
  Eng :> {Ballot(Eng, <<J(F1, "AGREE", FALSE), J(F2, "AGREE", FALSE)>>, Full),
          Ballot(Eng, <<J(F2, "DISAGREE", TRUE), J(P1, "AGREE", FALSE)>>, <<C("c1", 100), C("c2", 10)>>)} @@
  Red :> {Ballot(Red, <<J(F1, "AGREE", FALSE), J(F2, "AGREE", FALSE)>>, << >>),
          Ballot(Red, <<J(F1, "INSUFFICIENT_EVIDENCE", FALSE)>>, Full)}

=============================================================================
