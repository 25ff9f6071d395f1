-------------------------- MODULE PanelRoundProofs --------------------------
(***************************************************************************)
(* Proofs about PanelRound, for any answers, ballots and number of edits:  *)
(* a bundle is about the one revision that was on disk while its reviews   *)
(* were written, it loses nothing the reviews said, a PASS is clean, only  *)
(* votes decide about the rows of the matrix, and a full readiness is      *)
(* earned.                                                                 *)
(*                                                                         *)
(* Versions only grow.  What was on disk during a review is between the    *)
(* fingerprint and the document of now; when the panel, or a call that     *)
(* completes, finds the document at the fingerprint, nothing was between.  *)
(*                                                                         *)
(* A list gathers the entries of three others when a bijection of their    *)
(* places shows where each came from; the aggregation, the sort and the    *)
(* docket keep that, so that every entry is on the docket as often as it   *)
(* was made.  A readiness can be full only when no point is lacking and    *)
(* none is subtracted: every median is full, and a full median has more    *)
(* than half of its scores at 100.                                         *)
(***************************************************************************)
EXTENDS PanelRound, FiniteSetTheorems, SequenceTheorems, WellFoundedInduction, TLAPS

Pairs   == [pr : Nat, bp : Nat]
Opening == {"enter", "load", "fingerprint", "freeze", "first"}

Shaped(c) == c = [state |-> c.state, before |-> c.before, answer |-> c.answer]

\* The documents, and what exists when.
FilesInv ==
  /\ doc \in Pairs /\ hash \in Pairs /\ text \in Pairs /\ read \subseteq Pairs
  /\ calls = [r \in Roles |-> calls[r]] /\ \A r \in Roles : Shaped(calls[r])
  /\ step \in Opening => bundle = None
  /\ step \in Opening \ {"first"} => read = {}
  /\ step # "ended" => matrix = None

Running == \E r \in Roles : calls[r].state = "running"
Spoilt  == \E r \in Roles : calls[r].state \notin {"waiting", "running", "COMPLETED"}

\* During round one: the blueprint is only compared when a call ends, so what
\* was read may be newer while a call is running, or when one has failed.
ReadInv == step = "first" =>
  /\ hash.pr <= doc.pr /\ \A p \in read : hash.pr <= p.pr /\ p.pr <= doc.pr
  /\ Dual => /\ hash.bp <= doc.bp /\ \A p \in read : hash.bp <= p.bp /\ p.bp <= doc.bp
             /\ Running \/ Spoilt \/ \A p \in read : p.bp = hash.bp

\* During round two: what counts as a ballot was accepted as one.
BallotInv == step = "second" =>
  \A r \in Roles : calls[r].state \notin {"waiting", "FAILED"} => BallotAccepted(Answered(r), r)

PanelInv == FilesInv /\ ReadInv /\ BallotInv /\ ReviewedOneRevision /\ VotesDecide
-----------------------------------------------------------------------------
(* Round one *)

LEMMA InitOK ==
  ASSUME Init PROVE PanelInv
<1>1. FilesInv
  <2>1. calls = [r \in Roles |-> Waiting]
    BY DEF Init
  <2>2. calls = [r \in Roles |-> calls[r]] /\ \A r \in Roles : Shaped(calls[r])
    BY <2>1 DEF Shaped, Waiting
  <2>3. doc \in Pairs /\ hash \in Pairs /\ text \in Pairs
    <3>1. doc \in [pr : {1}, bp : {0, 1}]
      BY DEF Init
    <3>2. doc \in Pairs
      BY <3>1 DEF Pairs
    <3>3. NoPair \in Pairs
      BY DEF Pairs, NoPair
    <3> QED BY <3>2, <3>3 DEF Init
  <2> QED BY <2>2, <2>3 DEF Init, FilesInv, Opening
<1> QED BY <1>1 DEF Init, PanelInv, ReadInv, BallotInv, ReviewedOneRevision, VotesDecide

\* Nothing is read before the documents are frozen, and then all is equal.
LEMMA EntryStep ==
  ASSUME PanelInv, Refuse \/ Validate \/ LoadSnapshot \/ FingerprintBlueprint \/ Freeze
  PROVE  PanelInv'
<1>1. /\ step \in Opening \ {"first"} /\ bundle = None /\ matrix = None /\ read = {}
      /\ UNCHANGED <<doc, read, calls, bundle, docket, matrix, readiness>>
  BY DEF PanelInv, FilesInv, Opening, Refuse, Validate, LoadSnapshot, FingerprintBlueprint, Freeze
<1>2. hash' \in Pairs /\ text' \in Pairs
  BY DEF PanelInv, FilesInv, Pairs, Refuse, Validate, LoadSnapshot, FingerprintBlueprint, Freeze
<1>3. step' \in {"load", "fingerprint", "freeze", "first", "ended"}
  BY DEF Refuse, Validate, LoadSnapshot, FingerprintBlueprint, Freeze, Finish
<1>4. FilesInv'
  BY <1>1, <1>2 DEF PanelInv, FilesInv
<1>5. ReadInv'
  <2> SUFFICES ASSUME step' = "first" PROVE ReadInv'
    BY DEF ReadInv
  <2>1. Freeze /\ doc.pr = hash.pr /\ (Dual => doc.bp = hash.bp) /\ UNCHANGED <<hash, doc>>
    BY DEF Refuse, Validate, LoadSnapshot, FingerprintBlueprint, Freeze, Finish
  <2> QED BY <1>1, <2>1 DEF PanelInv, FilesInv, ReadInv, Dual, Pairs
<1> QED BY <1>1, <1>3, <1>4, <1>5 DEF PanelInv, BallotInv, ReviewedOneRevision, VotesDecide

\* What a running call read is of an age between the fingerprint and now.
LEMMA BeginStep ==
  ASSUME PanelInv, NEW r \in Roles, BeginCall(r) PROVE PanelInv'
<1>1. /\ step = "first" /\ calls[r].state = "waiting"
      /\ UNCHANGED <<doc, step, machine, hash, text, bundle, docket, matrix, readiness, outcome>>
  BY DEF BeginCall
<1>2. bundle = None /\ matrix = None
  BY <1>1 DEF PanelInv, FilesInv, Opening
<1>3. \/ /\ calls' = [calls EXCEPT ![r] = [calls[r] EXCEPT !.state = "running", !.before = doc.pr]]
         /\ read' = read \cup {doc}
      \/ /\ calls' = [calls EXCEPT ![r] = [calls[r] EXCEPT !.state = "RAISED"]]
         /\ read' = read
  BY DEF BeginCall
<1>4. Shaped(calls[r])
  BY DEF PanelInv, FilesInv
<1>5. /\ calls' = [x \in Roles |-> calls'[x]]
      /\ \A x \in Roles : x # r => calls'[x] = calls[x]
  BY <1>3 DEF PanelInv, FilesInv
<1>6. /\ Shaped(calls'[r])
      /\ \/ calls'[r].state = "running" /\ read' = read \cup {doc}
         \/ calls'[r].state = "RAISED" /\ read' = read
  BY <1>3, <1>4 DEF Shaped, PanelInv, FilesInv
<1>7. FilesInv'
  BY <1>1, <1>5, <1>6 DEF PanelInv, FilesInv, Opening
<1>8. ReadInv'
  BY <1>1, <1>5, <1>6 DEF PanelInv, FilesInv, ReadInv, Dual, Running, Spoilt, Pairs
<1> QED BY <1>1, <1>2, <1>7, <1>8 DEF PanelInv, BallotInv, ReviewedOneRevision, VotesDecide

\* A call that completes found the blueprint at its fingerprint.
LEMMA EndStep ==
  ASSUME PanelInv, NEW r \in Roles, EndCall(r) PROVE PanelInv'
<1>1. /\ step = "first" /\ calls[r].state = "running"
      /\ UNCHANGED <<doc, step, machine, hash, text, read, bundle, docket, matrix, readiness, outcome>>
  BY DEF EndCall
<1>2. bundle = None /\ matrix = None
  BY <1>1 DEF PanelInv, FilesInv, Opening
<1>3. PICK answer \in Reviews[r] \cup {None} :
        calls' = [calls EXCEPT ![r] = Ended(@, CallOutcome(r, answer), answer)]
  BY DEF EndCall
<1>4. /\ calls' = [x \in Roles |-> calls'[x]]
      /\ \A x \in Roles : x # r => calls'[x] = calls[x]
      /\ calls'[r] = Ended(calls[r], CallOutcome(r, answer), answer)
  BY <1>3 DEF PanelInv, FilesInv
<1>5. Shaped(calls'[r]) /\ calls'[r].state = CallOutcome(r, answer)
  BY <1>4 DEF Shaped, PanelInv, FilesInv, Ended
<1>6. FilesInv'
  BY <1>1, <1>4, <1>5 DEF PanelInv, FilesInv, Opening
<1>7. /\ CallOutcome(r, answer) \notin {"waiting", "running"}
      /\ CallOutcome(r, answer) = "COMPLETED" /\ Dual => doc.bp = hash.bp
  BY DEF CallOutcome
<1>8. Dual => Running' \/ Spoilt' \/ \A p \in read : p.bp = hash.bp
  <2>1. CASE CallOutcome(r, answer) = "COMPLETED"
    BY <1>1, <1>7, <2>1 DEF PanelInv, FilesInv, ReadInv, Pairs
  <2>2. CASE CallOutcome(r, answer) # "COMPLETED"
    BY <1>5, <1>7, <2>2 DEF Spoilt
  <2> QED BY <2>1, <2>2
<1>9. ReadInv'
  BY <1>1, <1>8 DEF PanelInv, ReadInv, Dual
<1> QED BY <1>1, <1>2, <1>6, <1>9 DEF PanelInv, BallotInv, ReviewedOneRevision, VotesDecide

\* Reviews are only aggregated when all completed and the proposal is still the one frozen.
LEMMA JoinStep ==
  ASSUME PanelInv, JoinReviews PROVE PanelInv'
<1>1. /\ step = "first" /\ \A r \in Roles : calls[r].state \notin {"waiting", "running"}
      /\ UNCHANGED <<doc, hash, text, read, calls, matrix, readiness>>
  BY DEF JoinReviews
<1>2. bundle = None /\ matrix = None
  BY <1>1 DEF PanelInv, FilesInv, Opening
<1>3. /\ step' \in {"ended", "between"}
      /\ bundle' = bundle \/ (Unusable = "" /\ bundle' = Aggregate(Results, hash))
  BY DEF JoinReviews, Finish
<1>4. FilesInv'
  BY <1>1, <1>2, <1>3 DEF PanelInv, FilesInv, Opening
<1>5. ASSUME Unusable = "", bundle' = Aggregate(Results, hash) PROVE ReviewedOneRevision'
  <2>1. ~AnyCall("RAISED") /\ ~AnyCall("MUTATION_DETECTED") /\ Failed = {} /\ doc.pr = hash.pr
    BY <1>5 DEF Unusable
  <2>2. ~Running /\ ~Spoilt
    BY <1>1, <2>1 DEF Running, Spoilt, Failed
  <2>3. \A p \in read : p.pr = hash.pr /\ (Dual => p.bp = hash.bp)
    BY <1>1, <2>1, <2>2 DEF PanelInv, FilesInv, ReadInv, Pairs
  <2>4. bundle'.hash = hash
    BY <1>5 DEF Aggregate
  <2> QED BY <1>1, <2>3, <2>4 DEF ReviewedOneRevision, Dual
<1>6. ReviewedOneRevision'
  BY <1>2, <1>3, <1>5 DEF ReviewedOneRevision
<1> QED BY <1>1, <1>2, <1>3, <1>4, <1>6 DEF PanelInv, ReadInv, BallotInv, VotesDecide

-----------------------------------------------------------------------------
(* Round two *)

LEMMA ReloadStep ==
  ASSUME PanelInv, ReloadSnapshot \/ BindRound PROVE PanelInv'
<1>1. /\ step \in {"between", "bind"} /\ step' \in {"bind", "second", "ended"} /\ matrix = None
      /\ UNCHANGED <<doc, read, bundle, docket, matrix, readiness>>
      /\ text' \in Pairs /\ hash' \in Pairs
  BY DEF PanelInv, FilesInv, ReloadSnapshot, BindRound, Pairs, Finish
<1>2. \/ UNCHANGED calls /\ step' \in {"bind", "ended"}
      \/ calls' = [r \in Roles |-> [Waiting EXCEPT !.answer = Answered(r)]]
  BY DEF ReloadSnapshot, BindRound, Finish
<1>3. /\ calls' = [r \in Roles |-> calls'[r]] /\ \A r \in Roles : Shaped(calls'[r])
      /\ step' \in {"bind", "ended"} \/ \A r \in Roles : calls'[r].state = "waiting"
  BY <1>2 DEF PanelInv, FilesInv, Shaped, Waiting
<1>4. FilesInv'
  BY <1>1, <1>3 DEF PanelInv, FilesInv, Opening
<1>5. BallotInv'
  BY <1>1, <1>3 DEF BallotInv
<1> QED BY <1>1, <1>4, <1>5 DEF PanelInv, ReadInv, ReviewedOneRevision, VotesDecide

\* Only what the parser accepts counts as a ballot.
LEMMA BallotStep ==
  ASSUME PanelInv, NEW r \in Roles, EndBallot(r) PROVE PanelInv'
<1>1. /\ step = "second" /\ matrix = None
      /\ UNCHANGED <<doc, step, machine, hash, text, read, bundle, docket, matrix, readiness, outcome>>
  BY DEF EndBallot, PanelInv, FilesInv
<1>2. PICK ballot \in Ballots[r] \cup {None} :
        LET accepted == IF ballot = None THEN FALSE ELSE BallotAccepted(ballot, r)
        IN  calls' = [calls EXCEPT ![r] = Ended(@, IF accepted THEN "COMPLETED" ELSE "FAILED", ballot)]
  BY DEF EndBallot
<1>3. PICK state \in {"COMPLETED", "FAILED"} :
        /\ state = "COMPLETED" => BallotAccepted(ballot, r)
        /\ calls' = [calls EXCEPT ![r] = Ended(@, state, ballot)]
  <2>1. CASE ballot # None /\ BallotAccepted(ballot, r)
    BY <1>2, <2>1
  <2>2. CASE ballot = None \/ ~BallotAccepted(ballot, r)
    BY <1>2, <2>2
  <2> QED BY <2>1, <2>2
<1>4. /\ calls' = [x \in Roles |-> calls'[x]]
      /\ \A x \in Roles : x # r => calls'[x] = calls[x]
      /\ calls'[r] = Ended(calls[r], state, ballot)
  BY <1>3 DEF PanelInv, FilesInv
<1>5. /\ Shaped(calls'[r]) /\ calls'[r].state = state
      /\ state = "COMPLETED" => calls'[r].answer = ballot
  BY <1>4 DEF Shaped, PanelInv, FilesInv, Ended
<1>6. FilesInv'
  BY <1>1, <1>4, <1>5 DEF PanelInv, FilesInv, Opening
<1>7. BallotInv'
  <2> SUFFICES ASSUME NEW x \in Roles, calls'[x].state \notin {"waiting", "FAILED"}
               PROVE  BallotAccepted(calls'[x].answer, x)
    BY DEF BallotInv, Answered
  <2>1. CASE x = r
    BY <1>3, <1>5, <2>1
  <2>2. CASE x # r
    BY <1>1, <1>4, <2>2 DEF PanelInv, BallotInv, Answered
  <2> QED BY <2>1, <2>2
<1> QED BY <1>1, <1>6, <1>7 DEF PanelInv, ReadInv, ReviewedOneRevision, VotesDecide

\* The judgement an accepted ballot has on an item is the only one it gives.
LEMMA OneJudgement ==
  ASSUME NEW ballot, NEW r, BallotAccepted(ballot, r), NEW j \in Range(ballot.judgements)
  PROVE  JudgementOn(ballot, j.id) = j
<1>1. IsInjective([i \in DOMAIN ballot.judgements |-> ballot.judgements[i].id])
  BY DEF BallotAccepted
<1>2. \A k \in Range(ballot.judgements) : k.id = j.id => k = j
  BY <1>1 DEF IsInjective, Range
<1> QED BY <1>2 DEF JudgementOn

\* What VotesDecide asks of one row.
Follows(row, ballots, id) ==
  /\ ~row.unresolved =>
       \A r \in Roles : \E j \in Range(ballots[r].judgements) : j.id = id /\ j.judgement = "AGREE"
  /\ row.blocks <=>
       \E r \in Roles : \E j \in Range(ballots[r].judgements) : j.id = id /\ j.blocks = TRUE

\* The rows of a matrix of accepted ballots.
LEMMA RowsFollowVotes ==
  ASSUME NEW ballots, \A r \in Roles : BallotAccepted(ballots[r], r), NEW items, NEW id
  PROVE  Follows(Row(ballots, items, id), ballots, id)
<1> DEFINE voters == {r \in Roles : id \in Judged(ballots[r])}
<1>1. /\ Row(ballots, items, id).unresolved
             <=> voters # Roles \/ \E r \in voters : JudgementOn(ballots[r], id).judgement # "AGREE"
      /\ Row(ballots, items, id).blocks
             <=> \E r \in voters : JudgementOn(ballots[r], id).blocks = TRUE
  BY DEF Row
<1>2. \A r \in Roles : \A j \in Range(ballots[r].judgements) :
        j.id = id => r \in voters /\ JudgementOn(ballots[r], id) = j
  BY OneJudgement DEF Judged
<1>3. \A r \in voters : \E j \in Range(ballots[r].judgements) : j.id = id
  BY DEF Judged
<1> HIDE DEF voters
<1> QED BY <1>1, <1>2, <1>3 DEF voters, Follows

LEMMA VoteStep ==
  ASSUME PanelInv, JoinBallots PROVE PanelInv'
<1>1. /\ step = "second" /\ \A r \in Roles : calls[r].state # "waiting"
      /\ matrix = None /\ step' = "ended"
      /\ UNCHANGED <<doc, hash, text, read, calls, bundle, docket>>
  BY DEF JoinBallots, PanelInv, FilesInv, Finish
<1>2. FilesInv'
  BY <1>1 DEF PanelInv, FilesInv, Opening
<1>3. matrix' = matrix \/ (Failed = {} /\ matrix' = Matrix(Cast, docket))
  BY DEF JoinBallots
<1>4. ASSUME Failed = {}, matrix' = Matrix(Cast, docket) PROVE VotesDecide'
  <2>1. \A r \in Roles : Cast[r] = Answered(r) /\ BallotAccepted(Cast[r], r)
    BY <1>1, <1>4 DEF PanelInv, BallotInv, Failed, Cast
  <2>2. \A id \in DOMAIN matrix' : matrix'[id] = Row(Cast, docket, id)
    BY <1>4 DEF Matrix
  <2>3. \A r \in Roles : Answered(r)' = Cast[r]
    BY <1>1, <2>1 DEF Answered
  <2>4. \A id \in DOMAIN matrix' : Follows(matrix'[id], Cast, id)
    BY <2>1, <2>2, RowsFollowVotes
  <2>5. \A id \in DOMAIN matrix' : Follows(matrix'[id], [r \in Roles |-> Answered(r)'], id)
    BY <1>1, <2>4 DEF Cast, Answered
  <2> QED BY <2>5 DEF VotesDecide, Follows
<1>5. VotesDecide'
  BY <1>1, <1>3, <1>4 DEF VotesDecide
<1> QED BY <1>1, <1>2, <1>5 DEF PanelInv, ReadInv, BallotInv, ReviewedOneRevision

-----------------------------------------------------------------------------
(* The editor *)

LEMMA EditStep ==
  ASSUME PanelInv, EditProposal \/ EditBlueprint PROVE PanelInv'
<1>1. /\ step # "ended" /\ matrix = None /\ read' = Reading(doc')
      /\ UNCHANGED <<step, machine, hash, text, calls, bundle, docket, matrix, readiness, outcome>>
  BY DEF EditProposal, EditBlueprint, PanelInv, FilesInv
<1>2. doc' \in Pairs /\ doc.pr <= doc'.pr /\ doc.bp <= doc'.bp
  BY DEF EditProposal, EditBlueprint, PanelInv, FilesInv, Pairs
<1>3. read' = read \/ (step = "first" /\ Running /\ read' = read \cup {doc'})
  BY <1>1 DEF Reading, Running
<1>4. FilesInv'
  BY <1>1, <1>2, <1>3 DEF PanelInv, FilesInv, Opening
<1>5. ReadInv'
  <2> SUFFICES ASSUME step = "first" PROVE ReadInv'
    BY <1>1 DEF ReadInv
  <2>1. /\ hash.pr <= doc'.pr /\ \A p \in read' : hash.pr <= p.pr /\ p.pr <= doc'.pr
        /\ Dual => hash.bp <= doc'.bp /\ \A p \in read' : hash.bp <= p.bp /\ p.bp <= doc'.bp
    BY <1>2, <1>3 DEF PanelInv, FilesInv, ReadInv, Pairs
  <2>2. Dual => Running \/ Spoilt \/ \A p \in read' : p.bp = hash.bp
    BY <1>3 DEF PanelInv, ReadInv
  <2> QED BY <1>1, <2>1, <2>2 DEF ReadInv, Dual, Running, Spoilt
<1>6. ReviewedOneRevision'
  BY <1>1, <1>3 DEF PanelInv, FilesInv, Opening, ReviewedOneRevision
<1> QED BY <1>1, <1>4, <1>5, <1>6 DEF PanelInv, BallotInv, VotesDecide, Answered

-----------------------------------------------------------------------------
(* Sequences of the model: concatenations, and the sort of the findings *)

\* A sequence of three sequences, laid end to end.
LEMMA FlattenThree ==
  ASSUME NEW s, Len(s) = 3
  PROVE  FlattenSeq(s) = (s[1] \o s[2]) \o s[3]
<1> DEFINE F(g) == [i \in 1..3 |-> IF i = 1 THEN s[i] ELSE g[i-1] \o s[i]]
<1> DEFINE f == [i \in 1..3 |-> IF i = 1 THEN s[1] ELSE IF i = 2 THEN s[1] \o s[2]
                                ELSE (s[1] \o s[2]) \o s[3]]
<1> DEFINE c == CHOOSE g : g = F(g)
<1>1. f = F(f)
  <2>1. 1..3 = {1, 2, 3} 
    OBVIOUS
  <2> QED BY <2>1
<1>2. c = F(c)
  BY <1>1
<1>3. FlattenSeq(s) = c[3]
  BY DEF FlattenSeq
<1> HIDE DEF c
<1>4. \A i \in 1..3 : c[i] = IF i = 1 THEN s[i] ELSE c[i-1] \o s[i]
  BY <1>2
<1>5. c[1] = s[1] /\ c[2] = c[1] \o s[2] /\ c[3] = c[2] \o s[3]
  BY <1>4
<1> QED BY <1>3, <1>5

Graded(s) == \A i \in DOMAIN s : s[i].entry.severity \in Range(SEVERITY_ORDER)

\* The rank of an entry is the place of its severity.
LEMMA RankType ==
  ASSUME NEW x, x.entry.severity \in Range(SEVERITY_ORDER)
  PROVE  Rank(x) \in 1..4 /\ SEVERITY_ORDER[Rank(x)] = x.entry.severity
<1>1. \E k \in DOMAIN SEVERITY_ORDER : SEVERITY_ORDER[k] = x.entry.severity
  BY DEF Range
<1>2. DOMAIN SEVERITY_ORDER = 1..4
  BY DEF SEVERITY_ORDER
<1> QED BY <1>1, <1>2 DEF Rank

\* To come before another one is a strict total order on the places.
LEMMA PrecedesOrder ==
  ASSUME NEW N \in Nat, NEW s, DOMAIN s = 1..N, Graded(s)
  PROVE  /\ \A i \in 1..N : ~Precedes(s, i, i)
         /\ \A i, j \in 1..N : i # j => Precedes(s, i, j) \/ Precedes(s, j, i)
         /\ \A i, j, k \in 1..N : Precedes(s, i, j) /\ Precedes(s, j, k) => Precedes(s, i, k)
<1>1. \A i \in 1..N : Rank(s[i]) \in 1..4
  BY RankType DEF Graded
<1> QED BY <1>1 DEF Precedes

\* BySeverity permutes the entries, and puts them in the order of Precedes.
LEMMA SortedPlaces ==
  ASSUME NEW N \in Nat, NEW s, DOMAIN s = 1..N, Graded(s)
  PROVE  \E p \in Bijection(1..N, 1..N) :
           /\ BySeverity(s) = [n \in 1..N |-> s[p[n]]]
           /\ \A i, j \in 1..N : i < j => Precedes(s, p[i], p[j])
<1> DEFINE D(i) == {j \in 1..N : Precedes(s, j, i)}
           place == [i \in 1..N |-> 1 + Cardinality(D(i))]
           p == [n \in 1..N |-> CHOOSE i \in 1..N : place[i] = n]
<1>1. IsFiniteSet(1..N) /\ Cardinality(1..N) = N
  BY FS_Interval
<1>2. \A i \in 1..N : IsFiniteSet(D(i)) /\ Cardinality(D(i)) \in 0..(N - 1)
  <2> SUFFICES ASSUME NEW i \in 1..N
               PROVE  IsFiniteSet(D(i)) /\ Cardinality(D(i)) \in 0..(N - 1)
    OBVIOUS
  <2>1. D(i) \subseteq (1..N) \ {i}
    BY PrecedesOrder
  <2>2. IsFiniteSet((1..N) \ {i}) /\ Cardinality((1..N) \ {i}) = N - 1
    BY <1>1, FS_RemoveElement
  <2>3. IsFiniteSet(D(i)) /\ Cardinality(D(i)) <= N - 1
    BY <2>1, <2>2, FS_Subset
  <2> QED BY <2>3, FS_CardinalityType
<1>a. \A i \in 1..N : place[i] = 1 + Cardinality(D(i))
  OBVIOUS
<1> HIDE DEF place
<1>b. \A i, j \in 1..N : Cardinality(D(i)) < Cardinality(D(j)) => place[i] < place[j]
  <2> HIDE DEF D
  <2> QED BY <1>a, <1>2
<1>3. ASSUME NEW i \in 1..N, NEW j \in 1..N, Precedes(s, i, j)
      PROVE  place[i] < place[j]
  <2>1. D(i) \subseteq D(j) /\ i \in D(j) /\ i \notin D(i)
    BY <1>3, PrecedesOrder
  <2>2. Cardinality(D(i)) <= Cardinality(D(j)) /\ Cardinality(D(i)) # Cardinality(D(j))
    BY <1>2, <2>1, FS_Subset
  <2>3. Cardinality(D(i)) < Cardinality(D(j))
    <3> HIDE DEF D
    <3> QED BY <1>2, <2>2
  <2> QED BY <1>b, <2>3
<1>4. \A i \in 1..N : place[i] \in 1..N
  <2> HIDE DEF D
  <2> TAKE i \in 1..N
  <2>1. place[i] = 1 + Cardinality(D(i)) /\ Cardinality(D(i)) \in 0..(N - 1)
    BY <1>a, <1>2
  <2> QED BY <2>1
<1>5. \A i, j \in 1..N : i # j => place[i] < place[j] \/ place[j] < place[i]
  BY <1>3, PrecedesOrder
<1>6. place \in [1..N -> 1..N]
  BY <1>4 DEF place
<1>7. place \in Injection(1..N, 1..N)
  <2>1. \A i, j \in 1..N : place[i] = place[j] => i = j
    BY <1>4, <1>5
  <2> QED BY <1>6, <2>1 DEF Injection, IsInjective
<1>8. \A n \in 1..N : \E i \in 1..N : place[i] = n
  <2>1. place \in Surjection(1..N, 1..N)
    BY <1>1, <1>7, FS_Injection
  <2> QED BY <2>1 DEF Surjection
<1>9. \A n \in 1..N : p[n] \in 1..N /\ place[p[n]] = n
  BY <1>8
<1>10. BySeverity(s) = [n \in 1..N |-> s[p[n]]]
  <2>1. BySeverity(s) = [n \in 1..N |-> s[CHOOSE i \in 1..N : 1 + Cardinality(D(i)) = n]]
    BY DEF BySeverity
  <2>2. \A n \in 1..N : p[n] = CHOOSE i \in 1..N : 1 + Cardinality(D(i)) = n
    <3> HIDE DEF D
    <3>1. \A n : {i \in 1..N : place[i] = n} = {i \in 1..N : 1 + Cardinality(D(i)) = n}
      BY <1>a
    <3>2. \A n : (CHOOSE i \in 1..N : place[i] = n) = (CHOOSE i \in 1..N : 1 + Cardinality(D(i)) = n)
      BY <1>a
    <3> QED BY <3>2
  <2> HIDE DEF D, p
  <2> QED BY <2>1, <2>2
<1> HIDE DEF p
<1>11. p \in [1..N -> 1..N]
  BY <1>9 DEF p
<1>12. p \in Bijection(1..N, 1..N)
  <2>1. \A a, b \in 1..N : p[a] = p[b] => a = b
    BY <1>9
  <2>2. \A i \in 1..N : p[place[i]] = i
    BY <1>4, <1>5, <1>9
  <2> QED BY <1>4, <1>11, <2>1, <2>2 DEF Bijection, Injection, Surjection, IsInjective
<1>13. \A i, j \in 1..N : i < j => Precedes(s, p[i], p[j])
  <2> SUFFICES ASSUME NEW i \in 1..N, NEW j \in 1..N, i < j, ~Precedes(s, p[i], p[j])
               PROVE  FALSE
    OBVIOUS
  <2>1. p[i] # p[j]
    BY <1>9
  <2>2. Precedes(s, p[j], p[i])
    BY <1>9, <2>1, PrecedesOrder
  <2> QED BY <1>3, <1>9, <2>2
<1> QED BY <1>10, <1>12, <1>13

\* Two sequences laid end to end, place by place.
LEMMA Joined ==
  ASSUME NEW m \in Nat, NEW n \in Nat, NEW s, NEW t,
         s = [i \in 1..m |-> s[i]], t = [i \in 1..n |-> t[i]]
  PROVE  s \o t = [i \in 1..(m + n) |-> IF i <= m THEN s[i] ELSE t[i - m]]
<1> DEFINE S == Range(s) \cup Range(t)
<1>1. s \in Seq(S) /\ t \in Seq(S) /\ Len(s) = m /\ Len(t) = n
  <2>1. s \in [1..m -> S] /\ t \in [1..n -> S]
    BY DEF Range
  <2> HIDE DEF S
  <2>2. s \in Seq(S) /\ t \in Seq(S)
    BY <2>1, SeqDef
  <2>3. Len(s) = m
    BY <2>1
  <2>4. Len(t) = n
    BY <2>1
  <2> QED BY <2>2, <2>3, <2>4
<1> HIDE DEF S
<1>2. /\ s \o t \in Seq(S) /\ Len(s \o t) = m + n
      /\ \A i \in 1..(m + n) : (s \o t)[i] = IF i <= m THEN s[i] ELSE t[i - m]
  BY <1>1, ConcatProperties
<1> QED BY <1>2

\* The entries of three reviews, as one concatenation.
LEMMA InOrderIs ==
  ASSUME NEW e
  PROVE  LET at(k) == [i \in DOMAIN e[REVIEWER_ORDER[k]] |->
                         [role |-> REVIEWER_ORDER[k], entry |-> e[REVIEWER_ORDER[k]][i]]]
         IN  InOrder(e) = (at(1) \o at(2)) \o at(3)
<1> DEFINE at(k) == [i \in DOMAIN e[REVIEWER_ORDER[k]] |->
                         [role |-> REVIEWER_ORDER[k], entry |-> e[REVIEWER_ORDER[k]][i]]]
           s == [k \in 1..3 |-> at(k)]
<1>1. DOMAIN REVIEWER_ORDER = 1..3
  BY DEF REVIEWER_ORDER
<1>2. InOrder(e) = FlattenSeq(s)
  BY <1>1 DEF InOrder
<1>3. Len(s) = 3
  OBVIOUS
<1>4. s[1] = at(1) /\ s[2] = at(2) /\ s[3] = at(3)
  OBVIOUS
<1> QED BY <1>2, <1>3, <1>4, FlattenThree

\* Where the lists e[r] of length n[r] stand in a list of len entries.
Placed(list, e, n, len, o) ==
  /\ list = [m \in 1..len |-> list[m]]
  /\ \A r \in Roles : \A i \in 1..n[r] :
       o[r] + i \in 1..len /\ list[o[r] + i] = [role |-> r, entry |-> e[r][i]]
  /\ \A m \in 1..len : \E r \in Roles :
       m - o[r] \in 1..n[r] /\ list[m] = [role |-> r, entry |-> e[r][m - o[r]]]

\* Where the entries of each reviewer stand in it.
LEMMA InOrderPlaces ==
  ASSUME NEW e, NEW n, \A r \in Roles : n[r] \in Nat /\ DOMAIN e[r] = 1..n[r]
  PROVE  \E len \in Nat, o \in [Roles -> Nat] : Placed(InOrder(e), e, n, len, o)
<1> DEFINE x == REVIEWER_ORDER[1]
           y == REVIEWER_ORDER[2]
           z == REVIEWER_ORDER[3]
           a == [i \in DOMAIN e[x] |-> [role |-> x, entry |-> e[x][i]]]
           b == [i \in DOMAIN e[y] |-> [role |-> y, entry |-> e[y][i]]]
           c == [i \in DOMAIN e[z] |-> [role |-> z, entry |-> e[z][i]]]
           k == n[x]
           l == n[y]
           m == n[z]
           o == [r \in Roles |-> IF r = x THEN 0 ELSE IF r = y THEN k ELSE k + l]
           s == InOrder(e)
<1>1. Roles = {x, y, z} /\ x # y /\ x # z /\ y # z
  BY DEF Roles, REVIEWER_ORDER, Range
<1>2. s = (a \o b) \o c
  BY InOrderIs
<1>3. k \in Nat /\ l \in Nat /\ m \in Nat /\ DOMAIN e[x] = 1..k /\ DOMAIN e[y] = 1..l /\ DOMAIN e[z] = 1..m
  BY <1>1
<1> HIDE DEF k, l, m
<1>4. a = [i \in 1..k |-> a[i]] /\ b = [i \in 1..l |-> b[i]] /\ c = [i \in 1..m |-> c[i]]
  BY <1>3
<1>5. /\ \A i \in 1..k : a[i] = [role |-> x, entry |-> e[x][i]]
      /\ \A i \in 1..l : b[i] = [role |-> y, entry |-> e[y][i]]
      /\ \A i \in 1..m : c[i] = [role |-> z, entry |-> e[z][i]]
  BY <1>3
<1>6. o \in [Roles -> Nat] /\ o[x] = 0 /\ o[y] = k /\ o[z] = k + l
  BY <1>1, <1>3
<1> HIDE DEF x, y, z, a, b, c, o, s
<1>7. a \o b = [i \in 1..(k + l) |-> IF i <= k THEN a[i] ELSE b[i - k]]
  BY <1>3, <1>4, Joined
<1>8. s = [i \in 1..(k + l + m) |-> IF i <= k + l THEN (a \o b)[i] ELSE c[i - (k + l)]]
  <2> DEFINE t == a \o b
             h == k + l
  <2>1. t = [i \in 1..h |-> t[i]] /\ h \in Nat
    BY <1>3, <1>7
  <2> HIDE DEF t, h
  <2>2. t \o c = [i \in 1..(h + m) |-> IF i <= h THEN t[i] ELSE c[i - h]]
    BY <1>3, <1>4, <2>1, Joined
  <2> QED BY <1>2, <2>2 DEF t, h
<1>9. s = [i \in 1..(k + l + m) |-> IF i <= k THEN a[i] ELSE IF i <= k + l THEN b[i - k] ELSE c[i - (k + l)]]
  BY <1>3, <1>7, <1>8
<1>10. /\ \A i \in 1..k : i \in 1..(k + l + m) /\ s[i] = a[i]
       /\ \A i \in 1..l : k + i \in 1..(k + l + m) /\ s[k + i] = b[i]
       /\ \A i \in 1..m : k + l + i \in 1..(k + l + m) /\ s[k + l + i] = c[i]
  BY <1>3, <1>9
<1>11. \A i \in 1..(k + l + m) : \/ i \in 1..k /\ s[i] = a[i]
                                 \/ i - k \in 1..l /\ s[i] = b[i - k]
                                 \/ i - (k + l) \in 1..m /\ s[i] = c[i - (k + l)]
  BY <1>3, <1>9
<1>12. \A r \in Roles : \A i \in 1..n[r] :
          o[r] + i \in 1..(k + l + m) /\ s[o[r] + i] = [role |-> r, entry |-> e[r][i]]
  <2>1. \A i \in 1..n[x] : o[x] + i \in 1..(k + l + m) /\ s[o[x] + i] = [role |-> x, entry |-> e[x][i]]
    BY <1>3, <1>5, <1>6, <1>10 DEF k
  <2>2. \A i \in 1..n[y] : o[y] + i \in 1..(k + l + m) /\ s[o[y] + i] = [role |-> y, entry |-> e[y][i]]
    BY <1>3, <1>5, <1>6, <1>10 DEF l
  <2>3. \A i \in 1..n[z] : o[z] + i \in 1..(k + l + m) /\ s[o[z] + i] = [role |-> z, entry |-> e[z][i]]
    BY <1>3, <1>5, <1>6, <1>10 DEF m
  <2> QED BY <1>1, <2>1, <2>2, <2>3
<1>13. \A i \in 1..(k + l + m) : \E r \in Roles :
         i - o[r] \in 1..n[r] /\ s[i] = [role |-> r, entry |-> e[r][i - o[r]]]
  <2> SUFFICES ASSUME NEW i \in 1..(k + l + m)
               PROVE  \E r \in Roles :
                        i - o[r] \in 1..n[r] /\ s[i] = [role |-> r, entry |-> e[r][i - o[r]]]
    OBVIOUS
  <2>1. CASE i \in 1..k /\ s[i] = a[i]
    BY <1>1, <1>3, <1>5, <1>6, <2>1 DEF k
  <2>2. CASE i - k \in 1..l /\ s[i] = b[i - k]
    BY <1>1, <1>3, <1>5, <1>6, <2>2 DEF l
  <2>3. CASE i - (k + l) \in 1..m /\ s[i] = c[i - (k + l)]
    BY <1>1, <1>3, <1>5, <1>6, <2>3 DEF m
  <2> QED BY <1>11, <2>1, <2>2, <2>3
<1>14. k + l + m \in Nat /\ s = [i \in 1..(k + l + m) |-> s[i]]
  BY <1>3, <1>9
<1>15. Placed(s, e, n, k + l + m, o)
  BY <1>12, <1>13, <1>14 DEF Placed
<1> QED BY <1>6, <1>14, <1>15 DEF s

-----------------------------------------------------------------------------
\* A list of entries holds the lists e[r] of every role, each entry once.
Holds(list, e, len, o, p) ==
  /\ DOMAIN list = 1..len
  /\ \A r \in Roles : \A i \in DOMAIN e[r] : i \in Nat /\ o[r] + i \in 1..len
  /\ \A m \in 1..len : /\ list[m].role \in Roles
                       /\ p[m] - o[list[m].role] \in DOMAIN e[list[m].role]
  /\ \A m \in 1..len : \A r \in Roles :
       p[m] - o[r] \in DOMAIN e[r] => list[m].role = r /\ list[m].entry = e[r][p[m] - o[r]]

Gathers(list, e) ==
  \E len \in Nat, o \in [Roles -> Nat] : \E p \in Bijection(1..len, 1..len) : Holds(list, e, len, o, p)

\* Sets between which there is a bijection have as many members.
LEMMA SameCount ==
  ASSUME NEW S, NEW T, IsFiniteSet(S), NEW f \in Bijection(S, T)
  PROVE  Cardinality(S) = Cardinality(T)
BY FS_Bijection DEF ExistsBijection

\* So it has as many entries of a kind by a role as the role gave.
Made(e, r, K) == {i \in DOMAIN e[r] : e[r][i] \in K}
Found(list, r, K) == {m \in DOMAIN list : list[m].role = r /\ list[m].entry \in K}

\* What is gathered from three lists occurs as often as in the lists.
LEMMA GatheredCount ==
  ASSUME NEW list, NEW e, Gathers(list, e), NEW r \in Roles, NEW K
  PROVE  Cardinality(Made(e, r, K)) = Cardinality(Found(list, r, K))
<1> DEFINE S == {i \in DOMAIN e[r] : e[r][i] \in K}
           T == {m \in DOMAIN list : list[m].role = r /\ list[m].entry \in K}
<1>1. PICK len \in Nat, o \in [Roles -> Nat] : \E p \in Bijection(1..len, 1..len) : Holds(list, e, len, o, p)
  BY DEF Gathers
<1>2. PICK p \in Bijection(1..len, 1..len) : Holds(list, e, len, o, p)
  BY <1>1
<1> DEFINE f == [m \in T |-> p[m] - o[r]]
<1>3. /\ \A m \in 1..len : p[m] \in 1..len
      /\ \A m, k \in 1..len : p[m] = p[k] => m = k
      /\ \A n \in 1..len : \E m \in 1..len : p[m] = n
  BY DEF Bijection, Injection, Surjection, IsInjective
<1>4. o[r] \in Nat
  OBVIOUS
<1>5. \A m \in T : f[m] \in S
  BY <1>2 DEF Holds
<1>6. \A m, k \in T : f[m] = f[k] => m = k
  <2> SUFFICES ASSUME NEW m \in T, NEW k \in T, f[m] = f[k] PROVE m = k
    OBVIOUS
  <2>1. m \in 1..len /\ k \in 1..len
    BY <1>2 DEF Holds
  <2>2. p[m] - o[r] = p[k] - o[r]
    OBVIOUS
  <2>3. p[m] = p[k]
    <3>1. p[m] \in 1..len /\ p[k] \in 1..len
      BY <1>3, <2>1
    <3> HIDE DEF S, T, f
    <3> QED BY <1>4, <2>2, <3>1
  <2> QED BY <1>3, <2>1, <2>3
<1>7. \A i \in S : \E m \in T : f[m] = i
  <2> SUFFICES ASSUME NEW i \in S PROVE \E m \in T : f[m] = i
    OBVIOUS
  <2>1. i \in Nat /\ o[r] + i \in 1..len
    BY <1>2 DEF Holds
  <2>2. PICK m \in 1..len : p[m] = o[r] + i
    BY <1>3, <2>1
  <2>3. p[m] - o[r] = i
    BY <1>4, <2>1, <2>2
  <2>4. m \in T
    BY <1>2, <2>3 DEF Holds
  <2> QED BY <2>3, <2>4
<1>8. IsFiniteSet(T)
  <2>1. T \subseteq 1..len
    BY <1>2 DEF Holds
  <2>2. IsFiniteSet(1..len)
    BY FS_Interval
  <2> HIDE DEF T
  <2> QED BY <2>1, <2>2, FS_Subset
<1> HIDE DEF S, T
<1>9. f \in Bijection(T, S)
  BY <1>5, <1>6, <1>7 DEF Bijection, Injection, Surjection, IsInjective
<1>10. Cardinality(T) = Cardinality(S)
  BY <1>8, <1>9, SameCount
<1> QED BY <1>10 DEF S, T, Made, Found

Lists(e) == \A r \in Roles : \E n \in Nat : DOMAIN e[r] = 1..n

\* Laying the lists in reviewer order gathers them.
LEMMA InOrderGathers ==
  ASSUME NEW e, Lists(e)
  PROVE  /\ Gathers(InOrder(e), e)
         /\ \E len \in Nat : InOrder(e) = [m \in 1..len |-> InOrder(e)[m]]
<1> DEFINE n == [r \in Roles |-> CHOOSE k \in Nat : DOMAIN e[r] = 1..k]
<1>1. \A r \in Roles : n[r] \in Nat /\ DOMAIN e[r] = 1..n[r]
  BY DEF Lists
<1> HIDE DEF n
<1>2. PICK len \in Nat, o \in [Roles -> Nat] : Placed(InOrder(e), e, n, len, o)
  BY <1>1, InOrderPlaces
<1> DEFINE p == [m \in 1..len |-> m]
<1>3. p \in Bijection(1..len, 1..len)
  BY DEF Bijection, Injection, Surjection, IsInjective
<1>4. \A m \in 1..len : \A r \in Roles :
         p[m] - o[r] \in DOMAIN e[r] => InOrder(e)[m] = [role |-> r, entry |-> e[r][p[m] - o[r]]]
  <2> SUFFICES ASSUME NEW m \in 1..len, NEW r \in Roles, m - o[r] \in 1..n[r]
               PROVE  InOrder(e)[m] = [role |-> r, entry |-> e[r][m - o[r]]]
    BY <1>1
  <2>1. o[r] \in Nat /\ o[r] + (m - o[r]) = m
    OBVIOUS
  <2> QED BY <1>2, <2>1 DEF Placed
<1>5. \A m \in 1..len : InOrder(e)[m].role \in Roles
                        /\ p[m] - o[InOrder(e)[m].role] \in DOMAIN e[InOrder(e)[m].role]
  BY <1>1, <1>2 DEF Placed
<1>6. Holds(InOrder(e), e, len, o, p)
  <2>1. DOMAIN InOrder(e) = 1..len
    BY <1>2 DEF Placed
  <2>2. \A r \in Roles : \A i \in DOMAIN e[r] : i \in Nat /\ o[r] + i \in 1..len
    <3> SUFFICES ASSUME NEW r \in Roles, NEW i \in DOMAIN e[r]
                 PROVE  i \in Nat /\ o[r] + i \in 1..len
      OBVIOUS
    <3>1. i \in 1..n[r]
      BY <1>1
    <3>2. n[r] \in Nat
      BY <1>1
    <3>3. \A j \in 1..n[r] : o[r] + j \in 1..len
      BY <1>2 DEF Placed
    <3> QED BY <3>1, <3>2, <3>3
  <2> QED BY <2>1, <2>2, <1>4, <1>5 DEF Holds
<1> QED BY <1>2, <1>3, <1>6 DEF Gathers, Placed

\* A gathered entry is from the list of its author.
LEMMA GatheredFrom ==
  ASSUME NEW list, NEW e, Gathers(list, e)
  PROVE  /\ \E len \in Nat : DOMAIN list = 1..len
         /\ \A m \in DOMAIN list : list[m].role \in Roles /\ list[m].entry \in Range(e[list[m].role])
<1>1. PICK len \in Nat, o \in [Roles -> Nat] : \E p \in Bijection(1..len, 1..len) : Holds(list, e, len, o, p)
  BY DEF Gathers
<1>2. PICK p \in Bijection(1..len, 1..len) : Holds(list, e, len, o, p)
  BY <1>1
<1>3. DOMAIN list = 1..len
  BY <1>2 DEF Holds
<1>4. ASSUME NEW m \in 1..len
      PROVE  list[m].role \in Roles /\ list[m].entry \in Range(e[list[m].role])
  <2>1. list[m].role \in Roles /\ p[m] - o[list[m].role] \in DOMAIN e[list[m].role]
    BY <1>2 DEF Holds
  <2>2. list[m].entry = e[list[m].role][p[m] - o[list[m].role]]
    BY <1>2, <2>1 DEF Holds
  <2> QED BY <2>1, <2>2 DEF Range
<1> QED BY <1>3, <1>4

\* What gathers the same entries by the same roles gathers the same lists.
LEMMA GathersSame ==
  ASSUME NEW list, NEW other, NEW e, Gathers(list, e), DOMAIN other = DOMAIN list,
         \A m \in DOMAIN list : other[m].role = list[m].role /\ other[m].entry = list[m].entry
  PROVE  Gathers(other, e)
<1>1. PICK len \in Nat, o \in [Roles -> Nat] : \E p \in Bijection(1..len, 1..len) : Holds(list, e, len, o, p)
  BY DEF Gathers
<1>2. PICK p \in Bijection(1..len, 1..len) : Holds(list, e, len, o, p)
  BY <1>1
<1>3. Holds(other, e, len, o, p)
  BY <1>2 DEF Holds
<1> QED BY <1>3 DEF Gathers

\* The sort keeps what is gathered, and orders it by rank.
LEMMA SortGathers ==
  ASSUME NEW e, NEW s, Gathers(s, e), Graded(s)
  PROVE  /\ Gathers(BySeverity(s), e)
         /\ \A i, j \in DOMAIN BySeverity(s) : i < j => Rank(BySeverity(s)[i]) <= Rank(BySeverity(s)[j])
         /\ Graded(BySeverity(s))
<1>1. PICK len \in Nat, o \in [Roles -> Nat] : \E q \in Bijection(1..len, 1..len) : Holds(s, e, len, o, q)
  BY DEF Gathers
<1>2. PICK q \in Bijection(1..len, 1..len) : Holds(s, e, len, o, q)
  BY <1>1
<1>3. DOMAIN s = 1..len
  BY <1>2 DEF Holds
<1>4. PICK p \in Bijection(1..len, 1..len) :
        /\ BySeverity(s) = [n \in 1..len |-> s[p[n]]]
        /\ \A i, j \in 1..len : i < j => Precedes(s, p[i], p[j])
  BY <1>3, SortedPlaces
<1>5. \A n \in 1..len : p[n] \in 1..len
  BY DEF Bijection, Injection
<1> DEFINE pq == [n \in 1..len |-> q[p[n]]]
<1>6. pq \in Bijection(1..len, 1..len)
  <2>1. /\ \A m \in 1..len : p[m] \in 1..len /\ q[m] \in 1..len
        /\ \A m, k \in 1..len : (p[m] = p[k] => m = k) /\ (q[m] = q[k] => m = k)
        /\ \A n \in 1..len : (\E m \in 1..len : p[m] = n) /\ (\E m \in 1..len : q[m] = n)
    BY DEF Bijection, Injection, Surjection, IsInjective
  <2>2. /\ \A m \in 1..len : pq[m] \in 1..len
        /\ \A m, k \in 1..len : pq[m] = pq[k] => m = k
        /\ \A n \in 1..len : \E m \in 1..len : pq[m] = n
    <3>1. \A m \in 1..len : pq[m] = q[p[m]] /\ pq[m] \in 1..len
      BY <2>1
    <3> HIDE DEF pq
    <3>2. ASSUME NEW m \in 1..len, NEW k \in 1..len, pq[m] = pq[k] PROVE m = k
      <4>1. q[p[m]] = q[p[k]] /\ p[m] \in 1..len /\ p[k] \in 1..len
        BY <2>1, <3>1, <3>2
      <4>2. p[m] = p[k]
        BY <2>1, <4>1
      <4> QED BY <2>1, <4>2
    <3>3. ASSUME NEW n \in 1..len PROVE \E m \in 1..len : pq[m] = n
      <4>1. PICK k \in 1..len : q[k] = n
        BY <2>1
      <4>2. PICK m \in 1..len : p[m] = k
        BY <2>1
      <4> QED BY <3>1, <4>1, <4>2
    <3> QED BY <3>1, <3>2, <3>3
  <2>3. pq \in [1..len -> 1..len]
    BY <2>2
  <2> HIDE DEF pq
  <2> QED BY <2>2, <2>3 DEF Bijection, Injection, Surjection, IsInjective
<1>7. Holds(BySeverity(s), e, len, o, pq)
  <2>1. DOMAIN BySeverity(s) = 1..len /\ \A m \in 1..len : BySeverity(s)[m] = s[p[m]] /\ pq[m] = q[p[m]]
    BY <1>4
  <2> HIDE DEF pq
  <2>2. \A m \in 1..len : /\ s[p[m]].role \in Roles
                          /\ q[p[m]] - o[s[p[m]].role] \in DOMAIN e[s[p[m]].role]
    BY <1>2, <1>5 DEF Holds
  <2>3. \A m \in 1..len : \A r \in Roles :
         q[p[m]] - o[r] \in DOMAIN e[r] => s[p[m]].role = r /\ s[p[m]].entry = e[r][q[p[m]] - o[r]]
    BY <1>2, <1>5 DEF Holds
  <2>4. \A r \in Roles : \A i \in DOMAIN e[r] : i \in Nat /\ o[r] + i \in 1..len
    BY <1>2 DEF Holds
  <2> DEFINE t == BySeverity(s)
  <2>5. \A m \in 1..len : /\ t[m].role \in Roles
                          /\ pq[m] - o[t[m].role] \in DOMAIN e[t[m].role]
    BY <2>1, <2>2
  <2>6. \A m \in 1..len : \A r \in Roles :
          pq[m] - o[r] \in DOMAIN e[r] => t[m].role = r /\ t[m].entry = e[r][pq[m] - o[r]]
    BY <2>1, <2>3
  <2> QED BY <2>1, <2>4, <2>5, <2>6 DEF Holds
<1>8. \A i, j \in 1..len : i < j => Rank(s[p[i]]) <= Rank(s[p[j]])
  <2>1. \A i \in 1..len : Rank(s[p[i]]) \in 1..4
    BY <1>3, <1>5, RankType DEF Graded
  <2> QED BY <1>4, <2>1 DEF Precedes
<1>9. Graded(BySeverity(s))
  BY <1>3, <1>4, <1>5 DEF Graded
<1>10. DOMAIN BySeverity(s) = 1..len /\ \A m \in 1..len : BySeverity(s)[m] = s[p[m]]
  BY <1>4
<1>11. Gathers(BySeverity(s), e)
  BY <1>6, <1>7 DEF Gathers
<1>12. \A i, j \in DOMAIN BySeverity(s) : i < j => Rank(BySeverity(s)[i]) <= Rank(BySeverity(s)[j])
  <2> DEFINE t == BySeverity(s)
  <2> HIDE DEF t
  <2> QED BY <1>8, <1>10 DEF t
<1> QED BY <1>9, <1>11, <1>12

\* The docket: an item for each finding, then one for each patch.
OfFinding(y, i, x) ==
  /\ y.id = <<"F", i>> /\ y.id[1] = "F" /\ y.role = x.role /\ y.target = x.entry.target
  /\ y.severity = x.entry.severity /\ y.message = x.entry.message
OfPatch(y, i, x) ==
  /\ y.id = <<"P", i>> /\ y.id[1] = "P" /\ y.role = x.role /\ y.target = x.entry.target
  /\ y.severity = Blank /\ y.message = x.entry.rationale

Itemised(d, b, m, n) ==
  /\ DOMAIN d = 1..(m + n)
  /\ \A i \in 1..m : OfFinding(d[i], i, b.findings[i])
  /\ \A i \in 1..n : OfPatch(d[m + i], i, b.patches[i])

\* The docket, place by place: first the findings, then the patches.
LEMMA DocketIs ==
  ASSUME NEW b, NEW m \in Nat, NEW n \in Nat, DOMAIN b.findings = 1..m, DOMAIN b.patches = 1..n
  PROVE  Itemised(Docket(b), b, m, n)
<1> DEFINE F == FindingItems(b)
           P == PatchItems(b)
<1>1. /\ F = [i \in 1..m |-> F[i]] /\ P = [i \in 1..n |-> P[i]]
      /\ \A i \in 1..m :
           F[i] = Item("F", i, b.findings[i], b.findings[i].entry.severity, b.findings[i].entry.message)
      /\ \A i \in 1..n : P[i] = Item("P", i, b.patches[i], Blank, b.patches[i].entry.rationale)
  BY DEF FindingItems, PatchItems
<1> HIDE DEF F, P
<1>2. /\ \A i \in 1..m : OfFinding(F[i], i, b.findings[i])
      /\ \A i \in 1..n : OfPatch(P[i], i, b.patches[i])
  BY <1>1 DEF Item, OfFinding, OfPatch
<1>3. F \o P = [i \in 1..(m + n) |-> IF i <= m THEN F[i] ELSE P[i - m]]
  BY <1>1, Joined
<1>4. Docket(b) = F \o P
  BY DEF Docket, F, P
<1>5. /\ \A i \in 1..m : (F \o P)[i] = F[i]
      /\ \A i \in 1..n : (F \o P)[m + i] = P[i]
  <2>1. \A i \in 1..m : i \in 1..(m + n) /\ i <= m
    OBVIOUS
  <2>2. \A i \in 1..n : m + i \in 1..(m + n) /\ ~(m + i <= m) /\ m + i - m = i
    OBVIOUS
  <2> QED BY <1>3, <2>1, <2>2
<1> QED BY <1>2, <1>3, <1>4, <1>5 DEF Itemised

-----------------------------------------------------------------------------
(* The bundle and the docket of three accepted reviews *)

Usable(x, r, d) == AnswerShaped(x) /\ ReviewAccepted(x, r, d)
Sound(a, d) == \A r \in Roles : Usable(a[r], r, d)

\* A list of an accepted answer is a sequence.
LEMMA ListOf ==
  ASSUME NEW v, Listing(v), v # Junk
  PROVE  \E n \in Nat : DOMAIN Items(v) = 1..n /\ Items(v) = [i \in 1..n |-> Items(v)[i]]
<1>1. CASE v = Absent
  <2>1. Items(v) = << >>
    BY <1>1 DEF Items, IsList
  <2>2. DOMAIN Items(v) = 1..0 /\ Items(v) = [i \in 1..0 |-> Items(v)[i]]
    BY <2>1
  <2> QED BY <2>2
<1>2. CASE v # Absent
  <2>1. Items(v) = v /\ v \in Seq(Range(v))
    BY <1>2 DEF Items, IsList, Listing
  <2>2. PICK n \in Nat : v \in [1..n -> Range(v)]
    BY <2>1, SeqDef
  <2> QED BY <2>1, <2>2
<1> QED BY <1>1, <1>2

\* The findings and patches of a review are those of the answer.
LEMMA ReviewKeeps ==
  ASSUME NEW a, NEW r, NEW dual, AnswerShaped(a), ReviewAccepted(a, r, dual)
  PROVE  /\ DOMAIN Review(a).findings = DOMAIN Items(a.findings)
         /\ \A i \in DOMAIN Items(a.findings) :
              /\ Review(a).findings[i].message = Items(a.findings)[i].message
              /\ Review(a).findings[i].severity = Items(a.findings)[i].severity
              /\ Review(a).findings[i].target = Targeted(Items(a.findings)[i].target)
              /\ Items(a.findings)[i].severity \in Range(SEVERITY_ORDER)
              /\ Items(a.findings)[i] = a.findings[i]
         /\ DOMAIN Review(a).patches = DOMAIN Items(a.patches)
         /\ \A i \in DOMAIN Items(a.patches) :
              /\ Review(a).patches[i].rationale = Items(a.patches)[i].rationale
              /\ Review(a).patches[i].target = Targeted(Items(a.patches)[i].target)
              /\ Items(a.patches)[i] = a.patches[i]
         /\ Review(a).claims = Items(a.claims) /\ Review(a).verdict = a.verdict
<1>1. /\ \A i \in DOMAIN Items(a.findings) : Items(a.findings)[i] = a.findings[i]
      /\ \A i \in DOMAIN Items(a.patches) : Items(a.patches)[i] = a.patches[i]
  BY DEF Items
<1>2. \A i \in DOMAIN Items(a.findings) :
        /\ Items(a.findings)[i].severity \in Range(SEVERITY_ORDER)
        /\ {"severity", "category", "message", "details", "target"} \subseteq DOMAIN Items(a.findings)[i]
  BY DEF AnswerShaped, ReviewAccepted, FindingAccepted, Range
<1>3. \A i \in DOMAIN Items(a.patches) : {"rationale", "target"} \subseteq DOMAIN Items(a.patches)[i]
  BY DEF AnswerShaped, Range
<1>4. /\ Review(a).findings = [i \in DOMAIN Items(a.findings) |->
                                 [a.findings[i] EXCEPT !.target = Targeted(@)]]
      /\ Review(a).patches = [i \in DOMAIN Items(a.patches) |->
                                 [a.patches[i] EXCEPT !.target = Targeted(@)]]
      /\ Review(a).claims = Items(a.claims) /\ Review(a).verdict = a.verdict
  BY DEF Review
<1> QED BY <1>1, <1>2, <1>3, <1>4

Entries(a, field) == [r \in Roles |-> Review(a[r])[field]]

\* The bundle gathers the findings, sorted, and the patches.
LEMMA AggregateGathers ==
  ASSUME NEW a, NEW d, Sound(a, d), NEW h, NEW reviews, reviews = [r \in Roles |-> Review(a[r])]
  PROVE  LET b == Aggregate(reviews, h)
         IN  /\ Gathers(b.findings, Entries(a, "findings")) /\ Gathers(b.patches, Entries(a, "patches"))
             /\ \A i \in DOMAIN b.findings : b.findings[i].entry.severity \in Range(SEVERITY_ORDER)
             /\ \A i, j \in DOMAIN b.findings : i < j => Rank(b.findings[i]) <= Rank(b.findings[j])
<1> DEFINE b == Aggregate(reviews, h)
           ef == Entries(a, "findings")
           ep == Entries(a, "patches")
           s == InOrder(ef)
<1>1. Lists(ef)
  <2> SUFFICES ASSUME NEW r \in Roles PROVE \E n \in Nat : DOMAIN ef[r] = 1..n
    BY DEF Lists
  <2>1. DOMAIN ef[r] = DOMAIN Items(a[r].findings)
    BY ReviewKeeps DEF Sound, Usable, Entries
  <2>2. Listing(a[r].findings) /\ a[r].findings # Junk
    BY DEF Sound, Usable, AnswerShaped, ReviewAccepted, Bounded
  <2> QED BY <2>1, <2>2, ListOf
<1>2. Lists(ep)
  <2> SUFFICES ASSUME NEW r \in Roles PROVE \E n \in Nat : DOMAIN ep[r] = 1..n
    BY DEF Lists
  <2>1. DOMAIN ep[r] = DOMAIN Items(a[r].patches)
    BY ReviewKeeps DEF Sound, Usable, Entries
  <2>2. Listing(a[r].patches) /\ a[r].patches # Junk
    BY DEF Sound, Usable, AnswerShaped, ReviewAccepted, Bounded
  <2> QED BY <2>1, <2>2, ListOf
<1>3. [r \in Roles |-> reviews[r].findings] = ef /\ [r \in Roles |-> reviews[r].patches] = ep
  BY DEF Entries
<1>4. \A r \in Roles : \A x \in Range(ef[r]) : x.severity \in Range(SEVERITY_ORDER)
  <2> SUFFICES ASSUME NEW r \in Roles, NEW i \in DOMAIN ef[r]
               PROVE  ef[r][i].severity \in Range(SEVERITY_ORDER)
    BY DEF Range
  <2>1. ef[r] = Review(a[r]).findings
    BY DEF Entries
  <2> QED BY <2>1, ReviewKeeps DEF Sound, Usable
<1> HIDE DEF ef, ep
<1>5. Gathers(s, ef)
  BY <1>1, InOrderGathers
<1>6. Graded(s)
  BY <1>4, <1>5, GatheredFrom DEF Graded
<1> HIDE DEF s
<1>7. /\ Gathers(BySeverity(s), ef) /\ Graded(BySeverity(s))
      /\ \A i, j \in DOMAIN BySeverity(s) : i < j => Rank(BySeverity(s)[i]) <= Rank(BySeverity(s)[j])
  BY <1>5, <1>6, SortGathers
<1> DEFINE t == BySeverity(s)
<1> HIDE DEF t
<1>8. b.patches = InOrder(ep)
  BY <1>3 DEF Aggregate
<1>9. /\ DOMAIN b.findings = DOMAIN t
      /\ \A i \in DOMAIN t : b.findings[i].role = t[i].role /\ b.findings[i].entry = t[i].entry
  BY <1>3 DEF Aggregate, t, s
<1> HIDE DEF b
<1>10. Gathers(b.findings, ef)
  BY <1>7, <1>9, GathersSame DEF t
<1>11. \A i \in DOMAIN t : Rank(b.findings[i]) = Rank(t[i])
  BY <1>9 DEF Rank
<1>12. /\ \A i \in DOMAIN b.findings : b.findings[i].entry.severity \in Range(SEVERITY_ORDER)
       /\ \A i, j \in DOMAIN b.findings : i < j => Rank(b.findings[i]) <= Rank(b.findings[j])
  BY <1>7, <1>9, <1>11 DEF Graded, t
<1>13. Gathers(b.patches, ep)
  BY <1>2, <1>8, InOrderGathers
<1> QED BY <1>10, <1>12, <1>13 DEF b, ef, ep

\* A bundle that says PASS: every review did, and a PASS is clean.
LEMMA PassIsEarned ==
  ASSUME NEW a, NEW d, Sound(a, d), NEW h, NEW reviews, reviews = [r \in Roles |-> Review(a[r])],
         Aggregate(reviews, h).verdict = "PASS"
  PROVE  /\ Aggregate(reviews, h).claims = << >>
         /\ \A x \in Range(Docket(Aggregate(reviews, h))) : x.severity \notin {"critical", "high"}
<1> DEFINE b == Aggregate(reviews, h)
<1>1. \A r \in Roles : a[r].verdict = "PASS"
  <2>1. CycleVerdict(reviews) = "PASS"
    BY DEF Aggregate
  <2>2. \A r \in Roles : reviews[r].verdict \notin {"BLOCKED", "NEEDS_REVISION"}
    BY <2>1 DEF CycleVerdict
  <2>3. \A r \in Roles : reviews[r].verdict = a[r].verdict
    BY DEF Review
  <2> QED BY <2>2, <2>3 DEF Sound, Usable, ReviewAccepted, Verdicts
<1>2. \A r \in Roles : Items(a[r].claims) = << >> /\ ~Blocking(Items(a[r].findings))
  BY <1>1 DEF Sound, Usable, ReviewAccepted, VerdictEarned
<1>3. b.claims = << >>
  <2> DEFINE c == [k \in DOMAIN REVIEWER_ORDER |-> reviews[REVIEWER_ORDER[k]].claims]
  <2>1. DOMAIN REVIEWER_ORDER = 1..3 /\ \A k \in 1..3 : REVIEWER_ORDER[k] \in Roles
    BY DEF REVIEWER_ORDER, Roles, Range
  <2>2. \A r \in Roles : reviews[r].claims = << >>
    BY <1>2 DEF Review
  <2>3. Len(c) = 3 /\ c[1] = << >> /\ c[2] = << >> /\ c[3] = << >>
    BY <2>1, <2>2
  <2>4. b.claims = FlattenSeq(c)
    BY DEF Aggregate
  <2> HIDE DEF c, b
  <2>5. << >> \o << >> = << >>
    BY ConcatEmptySeq, EmptySeq
  <2> QED BY <2>3, <2>4, <2>5, FlattenThree
<1>4. Gathers(b.findings, Entries(a, "findings")) /\ Gathers(b.patches, Entries(a, "patches"))
  BY AggregateGathers
<1> HIDE DEF b
<1>5. \A i \in DOMAIN b.findings : b.findings[i].entry.severity \notin {"critical", "high"}
  <2> SUFFICES ASSUME NEW i \in DOMAIN b.findings
               PROVE  b.findings[i].entry.severity \notin {"critical", "high"}
    OBVIOUS
  <2>1. PICK r \in Roles : b.findings[i].entry \in Range(Entries(a, "findings")[r])
    BY <1>4, GatheredFrom
  <2>2. PICK j \in DOMAIN Review(a[r]).findings : b.findings[i].entry = Review(a[r]).findings[j]
    BY <2>1 DEF Entries, Range
  <2>3. /\ j \in DOMAIN Items(a[r].findings)
        /\ Review(a[r]).findings[j].severity = Items(a[r].findings)[j].severity
    BY ReviewKeeps DEF Sound, Usable
  <2> QED BY <1>2, <2>2, <2>3 DEF Blocking, Range
<1>6. PICK m \in Nat, n \in Nat : DOMAIN b.findings = 1..m /\ DOMAIN b.patches = 1..n
  BY <1>4, GatheredFrom
<1>a. Itemised(Docket(b), b, m, n)
  BY <1>6, DocketIs
<1>7. Blank \notin {"critical", "high"}
  <2>1. SEVERITY_ORDER[1] = "critical" /\ SEVERITY_ORDER[2] = "high" /\ {1, 2} \subseteq DOMAIN SEVERITY_ORDER
    BY DEF SEVERITY_ORDER
  <2>2. {"critical", "high"} \subseteq Range(SEVERITY_ORDER)
    BY <2>1 DEF Range
  <2> QED BY <2>2, MarksAssumption
<1>8. \A i \in 1..(m + n) : Docket(b)[i].severity \notin {"critical", "high"}
  <2> SUFFICES ASSUME NEW i \in 1..(m + n) PROVE Docket(b)[i].severity \notin {"critical", "high"}
    OBVIOUS
  <2>1. CASE i <= m
    <3>1. i \in 1..m
      BY <2>1
    <3>2. Docket(b)[i].severity = b.findings[i].entry.severity
      BY <1>a, <3>1 DEF Itemised, OfFinding
    <3> QED BY <1>5, <1>6, <3>1, <3>2
  <2>2. CASE i > m
    <3>1. i - m \in 1..n /\ m + (i - m) = i
      BY <2>2
    <3>2. Docket(b)[i].severity = Blank
      BY <1>a, <3>1 DEF Itemised, OfPatch
    <3> QED BY <1>7, <3>2
  <2> QED BY <2>1, <2>2
<1>9. DOMAIN Docket(b) = 1..(m + n)
  BY <1>a DEF Itemised
<1> QED BY <1>3, <1>8, <1>9 DEF b, Range

\* NothingLost, of the answers a, the bundle b and the docket d.
Counted(d, r, kind, message, target) ==
  Cardinality({i \in DOMAIN d : /\ d[i].role = r /\ d[i].id[1] = kind
                               /\ d[i].message = message /\ d[i].target = target})

Complete(a, b, d) ==
  /\ \A r \in Roles :
       /\ \A f \in Range(Items(a[r].findings)) :
            Cardinality({i \in DOMAIN Items(a[r].findings) :
                           <<a[r].findings[i].message, Targeted(a[r].findings[i].target)>>
                             = <<f.message, Targeted(f.target)>>})
              = Counted(d, r, "F", f.message, Targeted(f.target))
       /\ \A p \in Range(Items(a[r].patches)) :
            Cardinality({i \in DOMAIN Items(a[r].patches) :
                           <<a[r].patches[i].rationale, Targeted(a[r].patches[i].target)>>
                             = <<p.rationale, Targeted(p.target)>>})
              = Counted(d, r, "P", p.rationale, Targeted(p.target))
  /\ IsInjective([i \in DOMAIN d |-> d[i].id])
  /\ \A i, j \in DOMAIN b.findings :
       i < j => \E k \in DOMAIN SEVERITY_ORDER :
                  /\ b.findings[i].entry.severity = SEVERITY_ORDER[k]
                  /\ b.findings[j].entry.severity \in Range(SubSeq(SEVERITY_ORDER, k, 4))

\* NothingLost says this of the answers of round one.
LEMMA NothingLostIs == NothingLost <=> (step = "between" => Complete([r \in Roles |-> Answered(r)], bundle, docket))
BY DEF NothingLost, Complete, Given, Listed, Counted

\* The docket lists a finding as often as its author made it.
LEMMA FindingsCounted ==
  ASSUME NEW a, NEW x, Sound(a, x), NEW b, NEW d, NEW m \in Nat, NEW n \in Nat,
         Gathers(b.findings, Entries(a, "findings")), DOMAIN b.findings = 1..m, Itemised(d, b, m, n),
         NEW r \in Roles, NEW f \in Range(Items(a[r].findings))
  PROVE  Cardinality({i \in DOMAIN Items(a[r].findings) :
                        <<a[r].findings[i].message, Targeted(a[r].findings[i].target)>>
                          = <<f.message, Targeted(f.target)>>})
           = Counted(d, r, "F", f.message, Targeted(f.target))
<1> DEFINE e == Entries(a, "findings")
           K == {g \in UNION {Range(e[q]) : q \in Roles} : g.message = f.message /\ g.target = Targeted(f.target)}
           S == {i \in DOMAIN Items(a[r].findings) :
                   <<a[r].findings[i].message, Targeted(a[r].findings[i].target)>> = <<f.message, Targeted(f.target)>>}
           T == {i \in DOMAIN d : /\ d[i].role = r /\ d[i].id[1] = "F"
                                 /\ d[i].message = f.message /\ d[i].target = Targeted(f.target)}
           SK == Made(e, r, K)
           TK == Found(b.findings, r, K)
<1>1. SK = S
  <2>1. e[r] = Review(a[r]).findings
    BY DEF Entries
  <2>2. /\ DOMAIN e[r] = DOMAIN Items(a[r].findings)
        /\ \A i \in DOMAIN e[r] : /\ e[r][i].message = a[r].findings[i].message
                                  /\ e[r][i].target = Targeted(a[r].findings[i].target)
                                  /\ e[r][i] \in UNION {Range(e[q]) : q \in Roles}
    <3>1. \A i \in DOMAIN e[r] : e[r][i] \in Range(e[r])
      BY DEF Range
    <3> QED BY <2>1, <3>1, ReviewKeeps DEF Sound, Usable
  <2> HIDE DEF e
  <2> QED BY <2>2 DEF Made
<1>2. TK = T
  <2>1. DOMAIN d = 1..(m + n) /\ 1..m \subseteq 1..(m + n)
    BY DEF Itemised
  <2>2. \A i \in 1..m : /\ d[i].role = b.findings[i].role /\ d[i].id[1] = "F"
                       /\ d[i].message = b.findings[i].entry.message
                       /\ d[i].target = b.findings[i].entry.target
    BY DEF Itemised, OfFinding
  <2>3. \A i \in 1..(m + n) : i \notin 1..m => d[i].id[1] = "P"
    <3>1. \A i \in 1..(m + n) : i \notin 1..m => i - m \in 1..n /\ m + (i - m) = i
      OBVIOUS
    <3> QED BY <3>1 DEF Itemised, OfPatch
  <2>4. \A i \in 1..m : b.findings[i].entry \in UNION {Range(e[q]) : q \in Roles}
    BY GatheredFrom
  <2> HIDE DEF e
  <2> QED BY <2>1, <2>2, <2>3, <2>4 DEF Found
<1>3. Cardinality(SK) = Cardinality(TK)
  <2> HIDE DEF K, e
  <2> QED BY GatheredCount DEF e
<1> HIDE DEF SK, TK
<1> QED BY <1>1, <1>2, <1>3 DEF Counted

\* The docket lists a patch as often as its author made it.
LEMMA PatchesCounted ==
  ASSUME NEW a, NEW x, Sound(a, x), NEW b, NEW d, NEW m \in Nat, NEW n \in Nat,
         Gathers(b.patches, Entries(a, "patches")), DOMAIN b.patches = 1..n, Itemised(d, b, m, n),
         NEW r \in Roles, NEW f \in Range(Items(a[r].patches))
  PROVE  Cardinality({i \in DOMAIN Items(a[r].patches) :
                        <<a[r].patches[i].rationale, Targeted(a[r].patches[i].target)>>
                          = <<f.rationale, Targeted(f.target)>>})
           = Counted(d, r, "P", f.rationale, Targeted(f.target))
<1> DEFINE e == Entries(a, "patches")
           K == {g \in UNION {Range(e[q]) : q \in Roles} : g.rationale = f.rationale /\ g.target = Targeted(f.target)}
           S == {i \in DOMAIN Items(a[r].patches) :
                   <<a[r].patches[i].rationale, Targeted(a[r].patches[i].target)>> = <<f.rationale, Targeted(f.target)>>}
           T == {i \in DOMAIN d : /\ d[i].role = r /\ d[i].id[1] = "P"
                                 /\ d[i].message = f.rationale /\ d[i].target = Targeted(f.target)}
           SK == Made(e, r, K)
           TK == Found(b.patches, r, K)
           h == [i \in TK |-> m + i]
<1>1. SK = S
  <2>1. e[r] = Review(a[r]).patches
    BY DEF Entries
  <2>2. /\ DOMAIN e[r] = DOMAIN Items(a[r].patches)
        /\ \A i \in DOMAIN e[r] : /\ e[r][i].rationale = a[r].patches[i].rationale
                                  /\ e[r][i].target = Targeted(a[r].patches[i].target)
                                  /\ e[r][i] \in UNION {Range(e[q]) : q \in Roles}
    <3>1. \A i \in DOMAIN e[r] : e[r][i] \in Range(e[r])
      BY DEF Range
    <3> QED BY <2>1, <3>1, ReviewKeeps DEF Sound, Usable
  <2> HIDE DEF e
  <2> QED BY <2>2 DEF Made
<1>2. \A i \in 1..n : i \in TK <=> m + i \in T
  <2>1. DOMAIN d = 1..(m + n) /\ \A i \in 1..n : m + i \in 1..(m + n) /\ m + i > m /\ m + i - m = i
    BY DEF Itemised
  <2>3. \A i \in 1..n : /\ d[m + i].role = b.patches[i].role /\ d[m + i].id[1] = "P"
                       /\ d[m + i].message = b.patches[i].entry.rationale
                       /\ d[m + i].target = b.patches[i].entry.target
    BY DEF Itemised, OfPatch
  <2>4. \A i \in 1..n : b.patches[i].entry \in UNION {Range(e[q]) : q \in Roles}
    BY GatheredFrom
  <2> HIDE DEF e
  <2> QED BY <2>1, <2>3, <2>4 DEF Found
<1>3. \A i \in T : i - m \in 1..n /\ m + (i - m) = i
  <2> SUFFICES ASSUME NEW i \in T PROVE i - m \in 1..n /\ m + (i - m) = i
    OBVIOUS
  <2>1. i \in 1..(m + n) /\ d[i].id[1] = "P"
    BY DEF Itemised
  <2>2. i \notin 1..m
    BY <2>1 DEF Itemised, OfFinding
  <2> QED BY <2>1, <2>2
<1>4. TK \subseteq 1..n
  BY DEF Found
<1>5. Cardinality(SK) = Cardinality(TK)
  <2> HIDE DEF K, e
  <2> QED BY GatheredCount DEF e
<1> HIDE DEF SK, TK, T
<1>6. IsFiniteSet(TK)
  <2>1. IsFiniteSet(1..n)
    BY FS_Interval
  <2> QED BY <1>4, <2>1, FS_Subset
<1>7. h \in Bijection(TK, T)
  <2>1. \A i \in TK : h[i] \in T
    BY <1>2, <1>4
  <2>2. \A i, j \in TK : h[i] = h[j] => i = j
    BY <1>4
  <2>3. \A k \in T : \E i \in TK : h[i] = k
    <3> SUFFICES ASSUME NEW k \in T PROVE \E i \in TK : h[i] = k
      OBVIOUS
    <3>1. k - m \in TK /\ m + (k - m) = k
      BY <1>2, <1>3
    <3> QED BY <3>1
  <2> QED BY <2>1, <2>2, <2>3 DEF Bijection, Injection, Surjection, IsInjective
<1>8. Cardinality(TK) = Cardinality(T)
  BY <1>6, <1>7, SameCount
<1> QED BY <1>1, <1>5, <1>8 DEF Counted, T

\* Nothing is lost between three accepted reviews and the docket.
LEMMA BundleIsComplete ==
  ASSUME NEW a, NEW x, Sound(a, x), NEW h, NEW reviews, reviews = [r \in Roles |-> Review(a[r])]
  PROVE  Complete(a, Aggregate(reviews, h), Docket(Aggregate(reviews, h)))
<1> DEFINE b == Aggregate(reviews, h)
           d == Docket(b)
<1>1. /\ Gathers(b.findings, Entries(a, "findings")) /\ Gathers(b.patches, Entries(a, "patches"))
      /\ \A i \in DOMAIN b.findings : b.findings[i].entry.severity \in Range(SEVERITY_ORDER)
      /\ \A i, j \in DOMAIN b.findings : i < j => Rank(b.findings[i]) <= Rank(b.findings[j])
  BY AggregateGathers
<1> HIDE DEF b
<1>2. PICK m \in Nat, n \in Nat : DOMAIN b.findings = 1..m /\ DOMAIN b.patches = 1..n
  BY <1>1, GatheredFrom
<1>3. Itemised(d, b, m, n)
  BY <1>2, DocketIs
<1> HIDE DEF d
<1>4. IsInjective([i \in DOMAIN d |-> d[i].id])
  <2>1. \A i \in 1..m : d[i].id = <<"F", i>>
    BY <1>3 DEF Itemised, OfFinding
  <2>2. \A i \in 1..(m + n) : i \notin 1..m => d[i].id = <<"P", i - m>>
    <3>1. \A i \in 1..(m + n) : i \notin 1..m => i - m \in 1..n /\ m + (i - m) = i
      OBVIOUS
    <3> QED BY <1>3, <3>1 DEF Itemised, OfPatch
  <2>3. DOMAIN d = 1..(m + n)
    BY <1>3 DEF Itemised
  <2>4. ASSUME NEW i \in 1..(m + n), NEW j \in 1..(m + n), d[i].id = d[j].id PROVE i = j
    BY <2>1, <2>2, <2>4
  <2> QED BY <2>3, <2>4 DEF IsInjective
<1>5. ASSUME NEW i \in DOMAIN b.findings, NEW j \in DOMAIN b.findings, i < j
      PROVE  \E k \in DOMAIN SEVERITY_ORDER :
               /\ b.findings[i].entry.severity = SEVERITY_ORDER[k]
               /\ b.findings[j].entry.severity \in Range(SubSeq(SEVERITY_ORDER, k, 4))
  <2> DEFINE k == Rank(b.findings[i])
             l == Rank(b.findings[j])
  <2>1. k \in 1..4 /\ SEVERITY_ORDER[k] = b.findings[i].entry.severity
    BY <1>1, RankType
  <2>2. l \in 1..4 /\ SEVERITY_ORDER[l] = b.findings[j].entry.severity
    BY <1>1, RankType
  <2>3. k <= l
    BY <1>1, <1>5
  <2>4. DOMAIN SEVERITY_ORDER = 1..4
    BY DEF SEVERITY_ORDER
  <2> HIDE DEF k, l
  <2>5. /\ l - k + 1 \in DOMAIN SubSeq(SEVERITY_ORDER, k, 4)
        /\ SubSeq(SEVERITY_ORDER, k, 4)[l - k + 1] = SEVERITY_ORDER[l]
    <3>1. \A q \in k..4 : SEVERITY_ORDER[q] \in Range(SEVERITY_ORDER)
      BY <2>1, <2>4 DEF Range
    <3>2. /\ SubSeq(SEVERITY_ORDER, k, 4) \in Seq(Range(SEVERITY_ORDER))
          /\ Len(SubSeq(SEVERITY_ORDER, k, 4)) = 4 - k + 1
          /\ \A q \in 1..(4 - k + 1) : SubSeq(SEVERITY_ORDER, k, 4)[q] = SEVERITY_ORDER[k + q - 1]
      BY <2>1, <3>1, SubSeqProperties
    <3>3. l - k + 1 \in 1..(4 - k + 1) /\ k + (l - k + 1) - 1 = l
      BY <2>1, <2>2, <2>3
    <3> QED BY <3>2, <3>3, LenProperties
  <2>6. b.findings[j].entry.severity \in Range(SubSeq(SEVERITY_ORDER, k, 4))
    BY <2>2, <2>5 DEF Range
  <2> QED BY <2>1, <2>4, <2>6
<1> QED BY <1>1, <1>2, <1>3, <1>4, <1>5, FindingsCounted, PatchesCounted DEF Complete, b, d

-----------------------------------------------------------------------------
(* What the reviews become *)

Answers == [r \in Roles |-> Answered(r)]

\* A call counts as completed only with an answer the parser took.
ReviewInv ==
  /\ step \in Opening \ {"first"} => \A r \in Roles : calls[r].state = "waiting"
  /\ step = "first" => \A r \in Roles : calls[r].state = "COMPLETED" => Usable(Answered(r), r, Dual)

CompleteInv == step = "between" => Complete(Answers, bundle, docket)

BundleInv == ReviewInv /\ CompleteInv /\ PassIsClean

LEMMA BundleInit ==
  ASSUME Init PROVE BundleInv
<1>1. \A r \in Roles : calls[r].state = "waiting"
  BY DEF Init, Waiting
<1> QED BY <1>1 DEF Init, BundleInv, ReviewInv, CompleteInv, PassIsClean

LEMMA BundleEntry ==
  ASSUME BundleInv, Refuse \/ Validate \/ LoadSnapshot \/ FingerprintBlueprint \/ Freeze
  PROVE  BundleInv'
<1>1. /\ step \in Opening \ {"first"} /\ step' \in {"load", "fingerprint", "freeze", "first", "ended"}
      /\ UNCHANGED <<calls, bundle, docket>>
  BY DEF Opening, Refuse, Validate, LoadSnapshot, FingerprintBlueprint, Freeze, Finish
<1> QED BY <1>1 DEF BundleInv, ReviewInv, CompleteInv, PassIsClean

LEMMA BundleBegin ==
  ASSUME PanelInv, BundleInv, NEW r \in Roles, BeginCall(r) PROVE BundleInv'
<1>1. step = "first" /\ UNCHANGED <<step, hash, bundle, docket>>
  BY DEF BeginCall
<1>2. /\ \A x \in Roles : x # r => calls'[x] = calls[x]
      /\ calls'[r].state \in {"running", "RAISED"}
  BY DEF BeginCall, PanelInv, FilesInv, Shaped
<1>3. ReviewInv'
  BY <1>1, <1>2 DEF BundleInv, ReviewInv, Opening, Answered, Dual
<1> QED BY <1>1, <1>3 DEF BundleInv, CompleteInv, PassIsClean

LEMMA BundleEnd ==
  ASSUME PanelInv, BundleInv, NEW r \in Roles, EndCall(r) PROVE BundleInv'
<1>1. step = "first" /\ UNCHANGED <<step, hash, bundle, docket>>
  BY DEF EndCall
<1>2. PICK answer \in Reviews[r] \cup {None} :
        calls' = [calls EXCEPT ![r] = Ended(@, CallOutcome(r, answer), answer)]
  BY DEF EndCall
<1>3. /\ \A x \in Roles : x # r => calls'[x] = calls[x]
      /\ calls'[r] = Ended(calls[r], CallOutcome(r, answer), answer)
  BY <1>2 DEF PanelInv, FilesInv
<1>4. ASSUME calls'[r].state = "COMPLETED" PROVE Usable(calls'[r].answer, r, Dual)
  <2>1. CallOutcome(r, answer) = "COMPLETED" /\ calls'[r].answer = answer
    BY <1>3, <1>4 DEF Ended, PanelInv, FilesInv, Shaped
  <2>2. answer # None /\ ReviewAccepted(answer, r, Dual)
    BY <2>1 DEF CallOutcome
  <2> QED BY <2>1, <2>2, ReviewsAssumption DEF Usable
<1>5. ReviewInv'
  BY <1>1, <1>3, <1>4 DEF BundleInv, ReviewInv, Opening, Answered, Dual
<1> QED BY <1>1, <1>5 DEF BundleInv, CompleteInv, PassIsClean

\* The bundle and the docket are made of three accepted reviews.
LEMMA BundleJoin ==
  ASSUME PanelInv, BundleInv, JoinReviews PROVE BundleInv'
<1>1. /\ step = "first" /\ \A r \in Roles : calls[r].state \notin {"waiting", "running"}
      /\ UNCHANGED calls /\ bundle = None
  BY DEF JoinReviews, PanelInv, FilesInv, Opening
<1>2. \/ step' = "ended" /\ bundle' = None
      \/ /\ step' = "between" /\ Unusable = ""
         /\ bundle' = Aggregate(Results, hash) /\ docket' = Docket(bundle')
  BY <1>1 DEF JoinReviews, Finish
<1>3. CASE step' = "ended" /\ bundle' = None
  BY <1>3 DEF BundleInv, ReviewInv, CompleteInv, PassIsClean, Opening
<1>4. ASSUME step' = "between", Unusable = "",
             bundle' = Aggregate(Results, hash), docket' = Docket(bundle')
      PROVE  BundleInv'
  <2>1. Failed = {}
    BY <1>4 DEF Unusable
  <2>2. Sound(Answers, Dual)
    BY <1>1, <2>1 DEF BundleInv, ReviewInv, Failed, Sound, Answers
  <2>3. Results = [r \in Roles |-> Review(Answers[r])]
    BY DEF Results, Answers
  <2>4. Complete(Answers, bundle', docket')
    BY <1>4, <2>2, <2>3, BundleIsComplete
  <2>5. PassIsClean'
    BY <1>4, <2>2, <2>3, PassIsEarned DEF PassIsClean
  <2>6. CompleteInv'
    BY <1>1, <2>4 DEF CompleteInv, Answers, Answered
  <2> QED BY <1>4, <2>5, <2>6 DEF BundleInv, ReviewInv, Opening
<1> QED BY <1>2, <1>3, <1>4

LEMMA BundleLater ==
  ASSUME BundleInv,
         \/ ReloadSnapshot \/ BindRound \/ JoinBallots \/ \E r \in Roles : EndBallot(r)
         \/ EditProposal \/ EditBlueprint
  PROVE  BundleInv'
<1>1. UNCHANGED <<bundle, docket>>
  BY DEF ReloadSnapshot, BindRound, JoinBallots, EndBallot, EditProposal, EditBlueprint
<1>2. \/ step' \in {"bind", "second", "ended"}
      \/ UNCHANGED <<step, calls, hash>>
  BY DEF ReloadSnapshot, BindRound, JoinBallots, EndBallot, EditProposal, EditBlueprint, Finish
<1>3. PassIsClean'
  BY <1>1 DEF BundleInv, PassIsClean
<1>4. ReviewInv' /\ CompleteInv'
  BY <1>1, <1>2 DEF BundleInv, ReviewInv, CompleteInv, Opening, Answers, Answered, Dual
<1> QED BY <1>3, <1>4 DEF BundleInv

-----------------------------------------------------------------------------
(* The readiness: what it takes to be full *)

\* A set of naturals has a smallest member, a bounded one a largest.
LEMMA HasMin ==
  ASSUME NEW T, T \subseteq Nat, T # {}
  PROVE  Min(T) \in T /\ \A y \in T : Min(T) <= y
<1>1. PICK x \in T : \A y \in T : ~(<<y, x>> \in OpToRel(<, Nat))
  BY NatLessThanWellFounded, WFMin
<1>2. OpToRel(<, Nat) = {ss \in Nat \X Nat : ss[1] < ss[2]}
  BY DEF OpToRel
<1>3. ASSUME NEW y \in T, y < x PROVE FALSE
  <2>1. <<y, x>> \in OpToRel(<, Nat)
    BY <1>2, <1>3
  <2> QED BY <1>1, <2>1
<1>4. \A y \in T : x <= y
  BY <1>3
<1> QED BY <1>4 DEF Min

LEMMA HasMax ==
  ASSUME NEW b \in Nat, NEW T, T \subseteq 0..b, T # {}
  PROVE  Max(T) \in T /\ \A y \in T : y <= Max(T)
<1> DEFINE U == {b - y : y \in T}
<1>1. U \subseteq Nat /\ U # {}
  <2>1. \A y \in T : b - y \in Nat
    OBVIOUS
  <2> QED BY <2>1
<1>2. Min(U) \in U /\ \A u \in U : Min(U) <= u
  BY <1>1, HasMin
<1>3. PICK x \in T : Min(U) = b - x
  BY <1>2
<1>4. \A y \in T : b - y \in U
  OBVIOUS
<1> HIDE DEF U
<1>5. \A y \in T : b - x <= b - y
  BY <1>2, <1>3, <1>4
<1>6. \A y \in T : x >= y
  BY <1>5
<1>7. Max(T) \in T /\ \A y \in T : Max(T) >= y
  BY <1>6 DEF Max
<1> QED BY <1>7

\* Who is below the k-th smallest score are fewer than k.
LEMMA SmallestIs ==
  ASSUME NEW scores, IsFiniteSet(DOMAIN scores), DOMAIN scores # {},
         \A r \in DOMAIN scores : scores[r] \in 0..100, NEW k \in Nat, k >= 1
  PROVE  /\ Smallest(scores, k) \in 0..100
         /\ Smallest(scores, k) = 100 => Cardinality({r \in DOMAIN scores : scores[r] < 100}) < k
<1> DEFINE below(v) == Cardinality({r \in DOMAIN scores : scores[r] < v})
           T == {v \in Range(scores) : below(v) < k}
<1>1. Range(scores) \subseteq Nat /\ Range(scores) # {} /\ T \subseteq 0..100
  BY DEF Range
<1>2. Min(Range(scores)) \in Range(scores) /\ \A y \in Range(scores) : Min(Range(scores)) <= y
  BY <1>1, HasMin
<1>3. {r \in DOMAIN scores : scores[r] < Min(Range(scores))} = {}
  <2>1. \A r \in DOMAIN scores : Min(Range(scores)) <= scores[r] /\ scores[r] \in Nat
    BY <1>1, <1>2 DEF Range
  <2>2. Min(Range(scores)) \in Nat
    BY <1>1, <1>2
  <2> QED BY <2>1, <2>2
<1>4. Min(Range(scores)) \in T
  BY <1>2, <1>3, FS_EmptySet
<1>5. Max(T) \in T
  BY <1>1, <1>4, HasMax
<1>6. Smallest(scores, k) \in T
  BY <1>5 DEF Smallest
<1> QED BY <1>1, <1>6

\* A median is full only if most of the scores are.
LEMMA MedianIs ==
  ASSUME NEW scores, IsFiniteSet(DOMAIN scores), \A r \in DOMAIN scores : scores[r] \in 0..100
  PROVE  /\ TwiceMedian(scores) \in 0..200
         /\ TwiceMedian(scores) = 200 =>
              2 * Cardinality({r \in DOMAIN scores : scores[r] = 100}) > Cardinality(DOMAIN scores)
<1> DEFINE n == Cardinality(DOMAIN scores)
           low == {r \in DOMAIN scores : scores[r] < 100}
           top == {r \in DOMAIN scores : scores[r] = 100}
           S(k) == Smallest(scores, k)
<1>1. n \in Nat
  BY FS_CardinalityType
<1>2. CASE n = 0
  BY <1>2 DEF TwiceMedian
<1>3. ASSUME n # 0
      PROVE  /\ TwiceMedian(scores) \in 0..200
             /\ TwiceMedian(scores) = 200 => 2 * Cardinality(top) > n
  <2>1. DOMAIN scores # {}
    BY <1>3, FS_EmptySet
  <2>2. \A k \in Nat : k >= 1 => S(k) \in 0..100 /\ (S(k) = 100 => Cardinality(low) < k)
    BY <2>1, SmallestIs
  <2>3. IsFiniteSet(low) /\ IsFiniteSet(top) /\ Cardinality(low) \in Nat /\ Cardinality(top) \in Nat
    BY FS_Subset, FS_CardinalityType
  <2>4. Cardinality(top) = n - Cardinality(low)
    <3>1. low \cup top = DOMAIN scores /\ low \cap top = {}
      OBVIOUS
    <3> HIDE DEF low, top
    <3>2. n = Cardinality(low) + Cardinality(top) - Cardinality({})
      BY <2>3, <3>1, FS_Union
    <3> QED BY <2>3, <3>2, FS_EmptySet
  <2> HIDE DEF n, S, low, top
  <2>5. CASE n % 2 = 1
    <3>1. TwiceMedian(scores) = 2 * S((n + 1) \div 2)
      BY <1>3, <2>5 DEF TwiceMedian, n, S
    <3>2. (n + 1) \div 2 \in Nat /\ (n + 1) \div 2 >= 1 /\ 2 * ((n + 1) \div 2) = n + 1
      BY <1>1, <1>3, <2>5
    <3> DEFINE k == (n + 1) \div 2
    <3>3. k \in Nat /\ k >= 1 /\ 2 * k = n + 1 /\ TwiceMedian(scores) = 2 * S(k)
      BY <3>1, <3>2
    <3> HIDE DEF k
    <3>4. S(k) \in 0..100 /\ (S(k) = 100 => Cardinality(low) < k)
      BY <2>2, <3>3
    <3>5. TwiceMedian(scores) \in 0..200 /\ (TwiceMedian(scores) = 200 => S(k) = 100)
      BY <3>3, <3>4
    <3> QED BY <1>1, <2>3, <2>4, <3>3, <3>4, <3>5
  <2>6. CASE n % 2 # 1
    <3> DEFINE k == n \div 2
    <3>1. TwiceMedian(scores) = S(k) + S(k + 1)
      BY <1>3, <2>6 DEF TwiceMedian, n, S
    <3>2. k \in Nat /\ k >= 1 /\ 2 * k = n
      BY <1>1, <1>3, <2>6
    <3> HIDE DEF k
    <3>3. k + 1 \in Nat /\ k + 1 >= 1
      BY <3>2
    <3>4. S(k) \in 0..100 /\ (S(k) = 100 => Cardinality(low) < k) /\ S(k + 1) \in 0..100
      BY <2>2, <3>2, <3>3
    <3>5. TwiceMedian(scores) \in 0..200 /\ (TwiceMedian(scores) = 200 => S(k) = 100)
      BY <3>1, <3>4
    <3> QED BY <1>1, <2>3, <2>4, <3>2, <3>4, <3>5
  <2> QED BY <2>5, <2>6
<1> QED BY <1>2, <1>3

LEMMA ScaleType == Scale \in Nat /\ Scale > 0
<1>1. Cardinality(Criteria) \in Nat /\ Cardinality(Criteria) # 0
  BY CriteriaAssumption, FS_CardinalityType, FS_EmptySet
<1> QED BY <1>1 DEF Scale

\* The sum is at most its maximum, and then every median is.
LEMMA WeightedIs ==
  ASSUME NEW medians, \A c \in Criteria : medians[c] \in 0..200
  PROVE  /\ Weighted(medians) \in Nat
         /\ Weighted(medians) <= 100 * Scale
         /\ Weighted(medians) >= 100 * Scale => \A c \in Criteria : medians[c] = 200
<1> DEFINE U == UNION {{c} \X (1..medians[c]) : c \in Criteria}
           P == Criteria \X (1..200)
<1>1. IsFiniteSet(1..200) /\ Cardinality(1..200) = 200
  <2>1. 1 \in Int /\ 200 \in Int /\ ~(1 > 200) /\ 200 - 1 + 1 = 200
    OBVIOUS
  <2> QED BY <2>1, FS_Interval
<1>2. IsFiniteSet(P) /\ Cardinality(P) = Cardinality(Criteria) * 200
  BY <1>1, FS_Product, CriteriaAssumption
<1>3. U \in SUBSET P
  <2>1. \A c \in Criteria : {c} \X (1..medians[c]) \subseteq P
    OBVIOUS
  <2> QED BY <2>1
<1>4. Weighted(medians) = Cardinality(U)
  BY DEF Weighted
<1>5. ASSUME U = P, NEW c \in Criteria PROVE medians[c] = 200
  <2>1. <<c, 200>> \in U
    BY <1>5
  <2>2. 200 \in 1..medians[c]
    BY <2>1
  <2> QED BY <2>2
<1> HIDE DEF U, P
<1>6. IsFiniteSet(U) /\ Cardinality(U) <= Cardinality(P) /\ (Cardinality(P) = Cardinality(U) => P = U)
  BY <1>2, <1>3, FS_Subset
<1>7. Cardinality(U) \in Nat /\ Cardinality(P) = 100 * Scale
  <2>1. Cardinality(Criteria) \in Nat
    BY CriteriaAssumption, FS_CardinalityType
  <2> QED BY <1>2, <1>6, <2>1, FS_CardinalityType DEF Scale
<1> QED BY <1>4, <1>5, <1>6, <1>7, ScaleType

\* What is cut off at the full score was at least full.
LEMMA ClampIs ==
  ASSUME NEW v \in Int, Clamp(v) = 100 * Scale
  PROVE  v >= 100 * Scale
<1> DEFINE m == 100 * Scale
<1>1. m \in Nat /\ m > 0
  BY ScaleType
<1>2. Clamp(v) = Max({0, Min({m, v})})
  BY DEF Clamp
<1> HIDE DEF m
<1>3. SUFFICES ASSUME v < m PROVE Max({0, Min({m, v})}) # m
  BY <1>1, <1>2 DEF m
<1>4. Min({m, v}) = v
  <2>1. v \in {m, v} /\ \A y \in {m, v} : v <= y
    BY <1>1, <1>3
  <2>2. \A x \in {m, v} : (\A y \in {m, v} : x <= y) => x = v
    BY <1>1, <1>3
  <2> QED BY <2>1, <2>2 DEF Min
<1>5. Max({0, v}) \in {0, v}
  <2>1. \E x \in {0, v} : \A y \in {0, v} : x >= y
    OBVIOUS
  <2> QED BY <2>1 DEF Max
<1> QED BY <1>1, <1>3, <1>4, <1>5

\* Ballots the parser took.
Voted(b) == \A r \in Roles : BallotAccepted(b[r], r) /\ Listing(b[r].judgements) /\ Listing(b[r].scores)

\* Who scored a criterion with one of the scores.
Scorers(b, c, score) ==
  {r \in Roles : \E s \in Range(Items(b[r].scores)) : s.criterion = c /\ s.score \in score}

LEMMA RolesFinite == IsFiniteSet(Roles)
<1>1. Roles = {"SCIENTIFIC_REVIEWER", "PROPOSAL_ENGINEER"} \cup {"RED_TEAM_REVIEWER"}
  BY DEF Roles, REVIEWER_ORDER, Range
<1>2. IsFiniteSet({"SCIENTIFIC_REVIEWER"} \cup {"PROPOSAL_ENGINEER"})
  BY FS_Singleton, FS_AddElement
<1>3. {"SCIENTIFIC_REVIEWER"} \cup {"PROPOSAL_ENGINEER"} = {"SCIENTIFIC_REVIEWER", "PROPOSAL_ENGINEER"}
  OBVIOUS
<1> QED BY <1>1, <1>2, <1>3, FS_AddElement

\* The scores behind a median are those of the evaluators who gave one.
LEMMA ScoresAre ==
  ASSUME NEW b, Voted(b), NEW c
  PROVE  /\ DOMAIN ScoresOf(b, c) = Scorers(b, c, 0..100)
         /\ \A r \in DOMAIN ScoresOf(b, c) : ScoresOf(b, c)[r] \in 0..100
         /\ {r \in DOMAIN ScoresOf(b, c) : ScoresOf(b, c)[r] = 100} \subseteq Scorers(b, c, {100})
<1> DEFINE given(r) == {i \in DOMAIN Items(b[r].scores) : b[r].scores[i].criterion = c}
           D == {q \in Roles : given(q) # {}}
<1>1. \A r \in Roles : \A i \in DOMAIN Items(b[r].scores) :
        /\ Items(b[r].scores)[i] = b[r].scores[i] /\ b[r].scores[i] \in Range(Items(b[r].scores))
        /\ b[r].scores[i].score \in 0..100
  <2> SUFFICES ASSUME NEW r \in Roles, NEW i \in DOMAIN Items(b[r].scores)
               PROVE  /\ Items(b[r].scores)[i] = b[r].scores[i]
                      /\ b[r].scores[i] \in Range(Items(b[r].scores))
                      /\ b[r].scores[i].score \in 0..100
    OBVIOUS
  <2>1. AssessmentAccepted(b[r].scores)
    BY DEF Voted, BallotAccepted
  <2>2. b[r].scores # Absent /\ Items(b[r].scores) = b[r].scores
    BY DEF Items, IsList
  <2>3. b[r].scores[i] \in Range(b[r].scores)
    BY <2>2 DEF Range
  <2> QED BY <2>1, <2>2, <2>3 DEF AssessmentAccepted, ScoreAccepted
<1>2. \A r \in Roles : given(r) # {} => Min(given(r)) \in given(r)
  <2> SUFFICES ASSUME NEW r \in Roles, given(r) # {} PROVE Min(given(r)) \in given(r)
    OBVIOUS
  <2>1. Listing(b[r].scores) /\ AssessmentAccepted(b[r].scores)
    BY DEF Voted, BallotAccepted
  <2>2. Listing(b[r].scores) /\ b[r].scores # Junk
    <3>1. CASE b[r].scores = Absent /\ Absent = Junk
      BY <3>1 DEF Items, IsList
    <3> QED BY <2>1, <3>1 DEF AssessmentAccepted
  <2>3. PICK n \in Nat : DOMAIN Items(b[r].scores) = 1..n
    BY <2>2, ListOf
  <2>4. given(r) \subseteq Nat
    BY <2>3
  <2> QED BY <2>4, HasMin
<1>3. DOMAIN ScoresOf(b, c) = D /\ \A r \in D : ScoresOf(b, c)[r] = b[r].scores[Min(given(r))].score
  BY DEF ScoresOf
<1>4. D = Scorers(b, c, 0..100)
  <2>1. \A r \in D : r \in Scorers(b, c, 0..100)
    BY <1>1, <1>2 DEF Scorers
  <2>2. ASSUME NEW r \in Scorers(b, c, 0..100) PROVE r \in D
    <3>1. PICK i \in DOMAIN Items(b[r].scores) : Items(b[r].scores)[i].criterion = c
      BY DEF Scorers, Range
    <3>2. r \in Roles
      BY DEF Scorers
    <3> QED BY <1>1, <3>1, <3>2
  <2> QED BY <2>1, <2>2
<1>5. \A r \in D : b[r].scores[Min(given(r))] \in Range(Items(b[r].scores))
                     /\ b[r].scores[Min(given(r))].criterion = c
                     /\ b[r].scores[Min(given(r))].score \in 0..100
  BY <1>1, <1>2
<1>6. ASSUME NEW r \in D, ScoresOf(b, c)[r] = 100 PROVE r \in Scorers(b, c, {100})
  <2> DEFINE s == b[r].scores[Min(given(r))]
  <2>1. s \in Range(Items(b[r].scores)) /\ s.criterion = c /\ s.score = 100
    BY <1>3, <1>5, <1>6
  <2>2. r \in Roles
    OBVIOUS
  <2> HIDE DEF s, D
  <2> QED BY <2>1, <2>2 DEF Scorers
<1> HIDE DEF D
<1> QED BY <1>3, <1>4, <1>5, <1>6

\* The rows of the matrix are finitely many.
LEMMA RowsFinite ==
  ASSUME NEW b, Voted(b), NEW d
  PROVE  IsFiniteSet(DOMAIN Matrix(b, d))
<1>1. ASSUME NEW r \in Roles PROVE IsFiniteSet(Judged(b[r]))
  <2> DEFINE list == b[r].judgements
  <2>1. IsList(list) /\ Listing(list)
    BY DEF Voted, BallotAccepted
  <2>2. PICK n \in Nat : DOMAIN list = 1..n
    BY <2>1, ListOf DEF IsList, Items
  <2> DEFINE f == [i \in 1..n |-> list[i].id]
  <2>3. f \in Surjection(1..n, Judged(b[r]))
    <3>1. \A i \in 1..n : list[i] \in Range(list)
      BY <2>2 DEF Range
    <3>2. f \in [1..n -> Judged(b[r])]
      BY <3>1 DEF Judged
    <3>3. \A x \in Judged(b[r]) : \E i \in 1..n : f[i] = x
      BY <2>2 DEF Judged, Range
    <3> QED BY <3>2, <3>3 DEF Surjection
  <2>4. IsFiniteSet(1..n)
    BY FS_Interval
  <2> QED BY <2>3, <2>4, FS_Surjection
<1>2. DOMAIN Matrix(b, d) = (Judged(b["SCIENTIFIC_REVIEWER"]) \cup Judged(b["PROPOSAL_ENGINEER"]))
                             \cup Judged(b["RED_TEAM_REVIEWER"])
  <2>1. Roles = {"SCIENTIFIC_REVIEWER", "PROPOSAL_ENGINEER", "RED_TEAM_REVIEWER"}
    BY DEF Roles, REVIEWER_ORDER, Range
  <2>2. DOMAIN Matrix(b, d) = UNION {Judged(b[r]) : r \in Roles}
    BY DEF Matrix
  <2> QED BY <2>1, <2>2
<1>3. \A r \in {"SCIENTIFIC_REVIEWER", "PROPOSAL_ENGINEER", "RED_TEAM_REVIEWER"} : r \in Roles
  BY DEF Roles, REVIEWER_ORDER, Range
<1>4. IsFiniteSet(Judged(b["SCIENTIFIC_REVIEWER"]) \cup Judged(b["PROPOSAL_ENGINEER"]))
  BY <1>1, <1>3, FS_Union
<1> QED BY <1>1, <1>2, <1>3, <1>4, FS_Union

\* Nothing is subtracted only if there was nothing to subtract for.
LEMMA PenaltyIs ==
  ASSUME NEW b, Voted(b), NEW d, NEW S, NEW claims \in Seq(S), NEW missing \in BOOLEAN
  PROVE  LET p == Penalty(Matrix(b, d), d, claims, missing)
         IN  /\ p \in Nat
             /\ p = 0 => /\ claims = << >>
                         /\ Unresolved(Matrix(b, d), d, "critical") = {}
                         /\ Unresolved(Matrix(b, d), d, "high") = {}
<1> DEFINE m == Matrix(b, d)
           u(s) == Cardinality(Unresolved(m, d, s))
           last == IF missing THEN 10 ELSE 0
<1>1. \A s : u(s) \in Nat /\ (u(s) = 0 => Unresolved(m, d, s) = {})
  <2> SUFFICES ASSUME NEW s PROVE u(s) \in Nat /\ (u(s) = 0 => Unresolved(m, d, s) = {})
    OBVIOUS
  <2>1. Unresolved(m, d, s) \subseteq DOMAIN m
    BY DEF Unresolved
  <2>2. IsFiniteSet(Unresolved(m, d, s))
    BY <2>1, RowsFinite, FS_Subset
  <2> QED BY <2>2, FS_CardinalityType, FS_EmptySet
<1>2. Len(claims) \in Nat /\ (Len(claims) = 0 => claims = << >>)
  BY EmptySeq
<1>3. Penalty(m, d, claims, missing) = 15 * u("critical") + 8 * u("high") + 3 * Len(claims) + last
  BY DEF Penalty
<1>4. last \in Nat
  OBVIOUS
<1>5. u("critical") \in Nat /\ u("high") \in Nat
  BY <1>1
<1> HIDE DEF u, last
<1>6. Penalty(m, d, claims, missing) \in Nat
  BY <1>2, <1>3, <1>4, <1>5
<1>7. Penalty(m, d, claims, missing) = 0 => u("critical") = 0 /\ u("high") = 0 /\ Len(claims) = 0
  BY <1>2, <1>3, <1>4, <1>5
<1> QED BY <1>1, <1>2, <1>6, <1>7

\* Who says what about the item id in the ballots b.
Saying(b, id, what) ==
  {r \in Roles : \E j \in Range(b[r].judgements) : j.id = id /\ j.judgement \in what}

\* FullReadinessIsEarned, of the ballots b, the docket d and the claims.
Earned(b, d, claims) ==
  /\ claims = << >>
  /\ \A x \in Range(d) : x.severity \in {"critical", "high"} =>
       Saying(b, x.id, {"AGREE"}) = Roles \/ Saying(b, x.id, Judgements) = {}
  /\ \A c \in Criteria : 2 * Cardinality(Scorers(b, c, {100})) > Cardinality(Scorers(b, c, 0..100))

\* An item somebody judged has a row, and a row not everybody agrees to is unresolved.
LEMMA OpenItem ==
  ASSUME NEW b, Voted(b), NEW d, NEW x \in Range(d),
         Unresolved(Matrix(b, d), d, x.severity) = {}
  PROVE  Saying(b, x.id, {"AGREE"}) = Roles \/ Saying(b, x.id, Judgements) = {}
<1> SUFFICES ASSUME Saying(b, x.id, Judgements) # {} PROVE Saying(b, x.id, {"AGREE"}) = Roles
  OBVIOUS
<1>1. x.id \in DOMAIN Matrix(b, d)
  <2>1. PICK r \in Roles : \E j \in Range(b[r].judgements) : j.id = x.id
    BY DEF Saying
  <2>2. x.id \in Judged(b[r])
    BY <2>1 DEF Judged
  <2> QED BY <2>2 DEF Matrix
<1>2. ~Matrix(b, d)[x.id].unresolved
  BY <1>1 DEF Unresolved
<1>3. Matrix(b, d)[x.id] = Row(b, d, x.id)
  BY <1>1 DEF Matrix
<1>4. \A r \in Roles : BallotAccepted(b[r], r)
  BY DEF Voted
<1>5. Follows(Row(b, d, x.id), b, x.id)
  BY <1>4, RowsFollowVotes
<1> QED BY <1>2, <1>3, <1>5 DEF Follows, Saying

\* The points can be full only when nothing is subtracted and every median is full.
LEMMA FullIsEarned ==
  ASSUME NEW b, Voted(b), NEW d, NEW S, NEW claims \in Seq(S), NEW missing \in BOOLEAN,
         Readiness(b, Penalty(Matrix(b, d), d, claims, missing)) = 100 * Scale
  PROVE  Earned(b, d, claims)
<1> DEFINE p == Penalty(Matrix(b, d), d, claims, missing)
           w == Weighted(Medians(b))
<1>1. /\ p \in Nat
      /\ p = 0 => /\ claims = << >>
                  /\ Unresolved(Matrix(b, d), d, "critical") = {}
                  /\ Unresolved(Matrix(b, d), d, "high") = {}
  BY PenaltyIs
<1>2. \A c \in Criteria : IsFiniteSet(DOMAIN ScoresOf(b, c)) /\ IsFiniteSet(Scorers(b, c, {100}))
  <2>1. \A c \in Criteria : \A s : Scorers(b, c, s) \subseteq Roles
    BY DEF Scorers
  <2> QED BY <2>1, ScoresAre, RolesFinite, FS_Subset
<1>3. \A c \in Criteria : Medians(b)[c] = TwiceMedian(ScoresOf(b, c))
  BY DEF Medians
<1>4. \A c \in Criteria :
        /\ Medians(b)[c] \in 0..200
        /\ Medians(b)[c] = 200 =>
             2 * Cardinality({r \in DOMAIN ScoresOf(b, c) : ScoresOf(b, c)[r] = 100})
               > Cardinality(DOMAIN ScoresOf(b, c))
  BY <1>2, <1>3, ScoresAre, MedianIs
<1> DEFINE md == Medians(b)
<1>a. \A c \in Criteria : md[c] \in 0..200
  BY <1>4
<1> HIDE DEF md
<1>b. /\ Weighted(md) \in Nat /\ Weighted(md) <= 100 * Scale
      /\ Weighted(md) >= 100 * Scale => \A c \in Criteria : md[c] = 200
  BY <1>a, WeightedIs
<1>5. /\ w \in Nat /\ w <= 100 * Scale
      /\ w >= 100 * Scale => \A c \in Criteria : Medians(b)[c] = 200
  BY <1>b DEF md
<1>6. Clamp(w - p * Scale) = 100 * Scale
  BY DEF Readiness
<1> HIDE DEF p, w
<1>7. p * Scale \in Nat /\ (p * Scale = 0 => p = 0)
  BY <1>1, ScaleType
<1>8. w - p * Scale >= 100 * Scale
  BY <1>1, <1>5, <1>6, <1>7, ClampIs
<1>9. w >= 100 * Scale /\ p = 0
  BY <1>5, <1>7, <1>8, ScaleType
<1>10. \A c \in Criteria : 2 * Cardinality(Scorers(b, c, {100})) > Cardinality(Scorers(b, c, 0..100))
  <2> SUFFICES ASSUME NEW c \in Criteria
               PROVE  2 * Cardinality(Scorers(b, c, {100})) > Cardinality(Scorers(b, c, 0..100))
    OBVIOUS
  <2> DEFINE T == {r \in DOMAIN ScoresOf(b, c) : ScoresOf(b, c)[r] = 100}
  <2>1. 2 * Cardinality(T) > Cardinality(Scorers(b, c, 0..100))
    BY <1>4, <1>5, <1>9, ScoresAre
  <2>2. T \in SUBSET Scorers(b, c, {100}) /\ IsFiniteSet(Scorers(b, c, {100}))
    BY <1>2, ScoresAre
  <2>3. IsFiniteSet(Scorers(b, c, 0..100))
    BY <1>2, ScoresAre
  <2> HIDE DEF T
  <2>4. Cardinality(T) <= Cardinality(Scorers(b, c, {100})) /\ IsFiniteSet(T)
    BY <2>2, FS_Subset
  <2>5. /\ Cardinality(T) \in Nat /\ Cardinality(Scorers(b, c, {100})) \in Nat
        /\ Cardinality(Scorers(b, c, 0..100)) \in Nat
    BY <2>2, <2>3, <2>4, FS_CardinalityType
  <2> QED BY <2>1, <2>4, <2>5
<1>11. \A x \in Range(d) : x.severity \in {"critical", "high"} =>
          Saying(b, x.id, {"AGREE"}) = Roles \/ Saying(b, x.id, Judgements) = {}
  BY <1>1, <1>9, OpenItem
<1> QED BY <1>1, <1>9, <1>10, <1>11 DEF Earned

\* FullReadinessIsEarned says this of the calls and the ballots of round two.
LEMMA FullReadinessIs ==
  FullReadinessIsEarned <=>
    (readiness = 100 * Scale => /\ \A r \in Roles : calls[r].state = "COMPLETED"
                                /\ Earned(Answers, docket, bundle.claims))
<1> DEFINE S(c, score) == {r \in Roles : \E s \in Range(Items(Answered(r).scores)) :
                                             s.criterion = c /\ s.score \in score}
           V(x, what) == {r \in Roles : \E j \in Range(Answered(r).judgements) :
                                             j.id = x.id /\ j.judgement \in what}
           Major == \A c \in Criteria : 2 * Cardinality(S(c, {100})) > Cardinality(S(c, 0..100))
           Settled == \A x \in Range(docket) : x.severity \in {"critical", "high"} =>
                        V(x, {"AGREE"}) = Roles \/ V(x, Judgements) = {}
           All == \A r \in Roles : calls[r].state = "COMPLETED"
<1>1. \A r \in Roles : Answers[r] = Answered(r)
  BY DEF Answers
<1>2. \A c, score : Scorers(Answers, c, score) = S(c, score)
  BY <1>1 DEF Scorers
<1>3. \A x, what : Saying(Answers, x.id, what) = V(x, what)
  BY <1>1 DEF Saying
<1>4. FullReadinessIsEarned <=>
        (readiness = 100 * Scale => All /\ bundle.claims = << >> /\ Settled /\ Major)
  BY DEF FullReadinessIsEarned
<1> HIDE DEF S, V
<1>5. Earned(Answers, docket, bundle.claims) <=> bundle.claims = << >> /\ Settled /\ Major
  BY <1>2, <1>3 DEF Earned
<1> QED BY <1>4, <1>5

\* The claims of a bundle are a sequence.
LEMMA ClaimsAreList ==
  ASSUME NEW a, NEW d, Sound(a, d), NEW h, NEW reviews, reviews = [r \in Roles |-> Review(a[r])]
  PROVE  LET b == Aggregate(reviews, h) IN b.claims \in Seq(Range(b.claims))
<1> DEFINE c == [k \in DOMAIN REVIEWER_ORDER |-> reviews[REVIEWER_ORDER[k]].claims]
           S == Range(c[1]) \cup Range(c[2]) \cup Range(c[3])
<1>1. DOMAIN REVIEWER_ORDER = 1..3 /\ \A k \in 1..3 : REVIEWER_ORDER[k] \in Roles
  BY DEF REVIEWER_ORDER, Roles, Range
<1>2. ASSUME NEW k \in 1..3 PROVE \E n \in Nat : c[k] \in [1..n -> Range(c[k])]
  <2> DEFINE v == a[REVIEWER_ORDER[k]].claims
  <2>1. c[k] = Items(v)
    BY <1>1 DEF Review
  <2>2. Listing(v) /\ v # Junk
    BY <1>1 DEF Sound, Usable, AnswerShaped, ReviewAccepted, Bounded
  <2>3. \E n \in Nat : DOMAIN Items(v) = 1..n /\ Items(v) = [i \in 1..n |-> Items(v)[i]]
    BY <2>2, ListOf
  <2> HIDE DEF v, c
  <2> QED BY <2>1, <2>3 DEF Range
<1>3. Aggregate(reviews, h).claims = FlattenSeq(c)
  BY DEF Aggregate
<1>4. Len(c) = 3
  BY <1>1
<1> HIDE DEF c
<1>5. c[1] \in Seq(S) /\ c[2] \in Seq(S) /\ c[3] \in Seq(S)
  <2>1. ASSUME NEW k \in 1..3 PROVE c[k] \in Seq(S)
    <3>1. PICK n \in Nat : c[k] \in [1..n -> Range(c[k])]
      BY <1>2
    <3>2. Range(c[k]) \subseteq S
      OBVIOUS
    <3>3. c[k] \in [1..n -> S]
      BY <3>1, <3>2
    <3> QED BY <3>3, SeqDef
  <2> QED BY <2>1
<1> HIDE DEF S
<1> DEFINE all == (c[1] \o c[2]) \o c[3]
<1>6. all \in Seq(S)
  BY <1>5, ConcatProperties
<1>7. Aggregate(reviews, h).claims = all
  BY <1>3, <1>4, FlattenThree
<1> HIDE DEF all
<1>8. PICK n \in Nat : all \in [1..n -> S]
  BY <1>6, SeqDef
<1>9. all \in [1..n -> Range(all)]
  BY <1>8 DEF Range
<1>10. all \in Seq(Range(all))
  BY <1>9, SeqDef
<1> QED BY <1>7, <1>10

\* During round two: the ballots are some that may be cast, nothing is weighed.
WeighingInv ==
  /\ step # "ended" => readiness = None
  /\ step \in {"between", "bind", "second"} => bundle.claims \in Seq(Range(bundle.claims))
  /\ step = "second" => \A r \in Roles : calls[r].state \notin {"waiting", "FAILED"} => Answered(r) \in Ballots[r]

ReadinessInv == WeighingInv /\ FullReadinessIsEarned

LEMMA NoneIsNotFull == None # 100 * Scale
BY NoneAssumption, ScaleType

LEMMA ReadinessInit ==
  ASSUME Init PROVE ReadinessInv
BY NoneIsNotFull DEF Init, ReadinessInv, WeighingInv, FullReadinessIsEarned

\* Before round two is over there is no readiness.
LEMMA ReadinessEarly ==
  ASSUME ReadinessInv,
         \/ Refuse \/ Validate \/ LoadSnapshot \/ FingerprintBlueprint \/ Freeze
         \/ (\E r \in Roles : BeginCall(r) \/ EndCall(r)) \/ ReloadSnapshot \/ EditProposal \/ EditBlueprint
  PROVE  ReadinessInv'
<1>1. /\ step # "ended" /\ UNCHANGED <<bundle, readiness>>
      /\ \/ UNCHANGED <<step, calls>>
         \/ step' \notin {"between", "bind", "second"}
         \/ step = "between" /\ step' = "bind"
  BY DEF Refuse, Validate, LoadSnapshot, FingerprintBlueprint, Freeze, BeginCall, EndCall, ReloadSnapshot,
         EditProposal, EditBlueprint, Finish
<1>2. WeighingInv'
  BY <1>1 DEF ReadinessInv, WeighingInv, Answered
<1>3. readiness' = None
  BY <1>1 DEF ReadinessInv, WeighingInv
<1> QED BY <1>2, <1>3, NoneIsNotFull DEF ReadinessInv, FullReadinessIsEarned

LEMMA ReadinessJoin ==
  ASSUME PanelInv, BundleInv, ReadinessInv, JoinReviews PROVE ReadinessInv'
<1>1. /\ step = "first" /\ \A r \in Roles : calls[r].state \notin {"waiting", "running"}
      /\ readiness' = None
  BY DEF JoinReviews, ReadinessInv, WeighingInv
<1>2. \/ step' = "ended"
      \/ step' = "between" /\ Unusable = "" /\ bundle' = Aggregate(Results, hash)
  BY DEF JoinReviews, Finish
<1>3. ASSUME step' = "between", Unusable = "", bundle' = Aggregate(Results, hash)
      PROVE  bundle'.claims \in Seq(Range(bundle'.claims))
  <2>1. Failed = {}
    BY <1>3 DEF Unusable
  <2>2. Sound(Answers, Dual)
    BY <1>1, <2>1 DEF BundleInv, ReviewInv, Failed, Sound, Answers
  <2>3. Results = [r \in Roles |-> Review(Answers[r])]
    BY DEF Results, Answers
  <2> QED BY <1>3, <2>2, <2>3, ClaimsAreList
<1>4. WeighingInv'
  BY <1>1, <1>2, <1>3 DEF WeighingInv
<1> QED BY <1>1, <1>4, NoneIsNotFull DEF ReadinessInv, FullReadinessIsEarned

LEMMA ReadinessBind ==
  ASSUME ReadinessInv, BindRound PROVE ReadinessInv'
<1>1. /\ step = "bind" /\ step' \in {"second", "ended"} /\ UNCHANGED <<bundle, readiness>>
      /\ step' = "ended" \/ calls' = [r \in Roles |-> [Waiting EXCEPT !.answer = Answered(r)]]
  BY DEF BindRound, Finish
<1>2. step' = "ended" \/ \A r \in Roles : calls'[r].state = "waiting"
  BY <1>1 DEF Waiting
<1>3. readiness' = None
  BY <1>1 DEF ReadinessInv, WeighingInv
<1>4. WeighingInv'
  BY <1>1, <1>2, <1>3 DEF ReadinessInv, WeighingInv
<1> QED BY <1>3, <1>4, NoneIsNotFull DEF ReadinessInv, FullReadinessIsEarned

LEMMA ReadinessBallot ==
  ASSUME PanelInv, ReadinessInv, NEW r \in Roles, EndBallot(r) PROVE ReadinessInv'
<1>1. step = "second" /\ UNCHANGED <<step, bundle, readiness>>
  BY DEF EndBallot
<1>2. PICK ballot \in Ballots[r] \cup {None} :
        LET accepted == IF ballot = None THEN FALSE ELSE BallotAccepted(ballot, r)
        IN  calls' = [calls EXCEPT ![r] = Ended(@, IF accepted THEN "COMPLETED" ELSE "FAILED", ballot)]
  BY DEF EndBallot
<1>3. PICK state \in {"COMPLETED", "FAILED"} :
        /\ state = "COMPLETED" => ballot \in Ballots[r]
        /\ calls' = [calls EXCEPT ![r] = Ended(@, state, ballot)]
  <2>1. CASE ballot # None /\ BallotAccepted(ballot, r)
    BY <1>2, <2>1
  <2>2. CASE ballot = None \/ ~BallotAccepted(ballot, r)
    BY <1>2, <2>2
  <2> QED BY <2>1, <2>2
<1>4. /\ \A x \in Roles : x # r => calls'[x] = calls[x]
      /\ calls'[r] = Ended(calls[r], state, ballot)
  BY <1>3 DEF PanelInv, FilesInv
<1>5. calls'[r].state = state /\ (state = "COMPLETED" => calls'[r].answer = ballot)
  BY <1>4 DEF Shaped, PanelInv, FilesInv, Ended
<1>6. ASSUME NEW x \in Roles, calls'[x].state \notin {"waiting", "FAILED"}
      PROVE  calls'[x].answer \in Ballots[x]
  <2>1. CASE x = r
    BY <1>3, <1>5, <1>6, <2>1
  <2>2. CASE x # r
    BY <1>1, <1>4, <1>6, <2>2 DEF ReadinessInv, WeighingInv, Answered
  <2> QED BY <2>1, <2>2
<1>7. readiness' = None
  BY <1>1 DEF ReadinessInv, WeighingInv
<1>8. WeighingInv'
  BY <1>1, <1>6, <1>7 DEF ReadinessInv, WeighingInv, Answered
<1> QED BY <1>7, <1>8, NoneIsNotFull DEF ReadinessInv, FullReadinessIsEarned

\* The only step that weighs the ballots.
LEMMA ReadinessWeighs ==
  ASSUME PanelInv, ReadinessInv, JoinBallots PROVE ReadinessInv'
<1>1. /\ step = "second" /\ \A r \in Roles : calls[r].state # "waiting"
      /\ step' = "ended" /\ readiness = None /\ UNCHANGED <<calls, bundle, docket>>
  BY DEF JoinBallots, Finish, ReadinessInv, WeighingInv
<1>2. WeighingInv'
  BY <1>1 DEF WeighingInv
<1>3. \/ readiness' = None
      \/ /\ Failed = {} /\ matrix' = Matrix(Cast, docket)
         /\ \E missingSource \in BOOLEAN :
              readiness' = Readiness(Cast, Penalty(matrix', docket, bundle.claims, missingSource))
  BY <1>1 DEF JoinBallots
<1>4. ASSUME Failed = {}, matrix' = Matrix(Cast, docket), NEW missing \in BOOLEAN,
             readiness' = Readiness(Cast, Penalty(matrix', docket, bundle.claims, missing)),
             readiness' = 100 * Scale
      PROVE  (\A r \in Roles : calls[r].state = "COMPLETED") /\ Earned(Cast, docket, bundle.claims)
  <2>1. \A r \in Roles : Cast[r] = Answered(r) /\ calls[r].state = "COMPLETED"
    BY <1>4 DEF Cast, Failed
  <2>2. \A r \in Roles : BallotAccepted(Cast[r], r) /\ Cast[r] \in Ballots[r]
    BY <1>1, <2>1 DEF PanelInv, BallotInv, ReadinessInv, WeighingInv
  <2>3. Voted(Cast)
    BY <2>2, BallotsAssumption DEF Voted
  <2>4. bundle.claims \in Seq(Range(bundle.claims))
    BY <1>1 DEF ReadinessInv, WeighingInv
  <2> QED BY <1>4, <2>1, <2>3, <2>4, FullIsEarned
<1>5. FullReadinessIsEarned'
  <2> DEFINE all == \A r \in Roles : calls[r].state = "COMPLETED"
  <2>1. readiness' = 100 * Scale => all /\ Earned(Cast, docket, bundle.claims)
    BY <1>3, <1>4, NoneIsNotFull
  <2>2. Answers' = Cast
    BY <1>1 DEF Answers, Answered, Cast
  <2>3. readiness' = 100 * Scale => all' /\ Earned(Answers', docket', bundle'.claims)
    BY <1>1, <2>1, <2>2
  <2>4. (FullReadinessIsEarned
          <=> (readiness = 100 * Scale => all /\ Earned(Answers, docket, bundle.claims)))'
    BY FullReadinessIs, PTL
  <2> QED BY <2>3, <2>4
<1> QED BY <1>2, <1>5 DEF ReadinessInv

-----------------------------------------------------------------------------
(* The theorems *)

\* Everything above holds in every reachable state.
THEOREM PanelInvariance == Spec => []PanelInv
<1>1. ASSUME PanelInv, [Next]_vars PROVE PanelInv'
  <2>1. CASE Next
    BY <1>1, <2>1, EntryStep, BeginStep, EndStep, JoinStep, ReloadStep, BallotStep, VoteStep,
       EditStep DEF Next
  <2>2. CASE UNCHANGED vars
    BY <1>1, <2>2 DEF vars, PanelInv, FilesInv, ReadInv, BallotInv, ReviewedOneRevision, VotesDecide,
       Dual, Running, Spoilt, Answered
  <2> QED BY <1>1, <2>1, <2>2
<1> QED BY InitOK, <1>1, PTL DEF Spec

\* Nothing but the documents a bundle names was on disk while a review of it ran.
THEOREM RevisionCorrect == Spec => []ReviewedOneRevision
<1>1. PanelInv => ReviewedOneRevision
  BY DEF PanelInv
<1> QED BY <1>1, PanelInvariance, PTL

\* A row is resolved by three votes to agree, and blocks by one vote that it does.
THEOREM VotesCorrect == Spec => []VotesDecide
<1>1. PanelInv => VotesDecide
  BY DEF PanelInv
<1> QED BY <1>1, PanelInvariance, PTL

THEOREM BundleInvariance == Spec => []BundleInv
<1>1. ASSUME PanelInv, BundleInv, [Next]_vars PROVE BundleInv'
  <2>1. CASE Next
    BY <1>1, <2>1, BundleEntry, BundleBegin, BundleEnd, BundleJoin, BundleLater DEF Next
  <2>2. CASE UNCHANGED vars
    BY <1>1, <2>2 DEF vars, BundleInv, ReviewInv, CompleteInv, PassIsClean, Answers, Answered, Dual
  <2> QED BY <1>1, <2>1, <2>2
<1> QED BY BundleInit, PanelInvariance, <1>1, PTL DEF Spec

\* Whatever three independent answers claim: a bundle that says PASS has no
\* critical or high finding and no unverified claim.
THEOREM PassCorrect == Spec => []PassIsClean
<1>1. BundleInv => PassIsClean
  BY DEF BundleInv
<1> QED BY BundleInvariance, <1>1, PTL

\* For reviews of any length: no finding and no patch is dropped, doubled,
\* relabelled or put out of order on the way to the docket.
THEOREM DocketCorrect == Spec => []NothingLost
<1>1. BundleInv => NothingLost
  BY NothingLostIs DEF BundleInv, CompleteInv, Answers
<1> QED BY BundleInvariance, <1>1, PTL

\* Nothing is weighed before the ballots are in, and then only what was cast.
THEOREM ReadinessInvariance == Spec => []ReadinessInv
<1>1. ASSUME PanelInv, BundleInv, ReadinessInv, [Next]_vars PROVE ReadinessInv'
  <2>1. CASE Next
    BY <1>1, <2>1, ReadinessEarly, ReadinessJoin, ReadinessBind, ReadinessBallot, ReadinessWeighs DEF Next
  <2>2. CASE UNCHANGED vars
    BY <1>1, <2>2 DEF vars, ReadinessInv, WeighingInv, FullReadinessIsEarned, Answered
  <2> QED BY <1>1, <2>1, <2>2
<1> QED BY ReadinessInit, PanelInvariance, BundleInvariance, <1>1, PTL DEF Spec

\* For any criteria, ballots and docket: a readiness of 100 takes the ballots of
\* all three, a majority at 100 of whoever scored each criterion, the AGREE of
\* all three to each critical or high item anybody judged, and no unverified claim.
THEOREM ReadinessCorrect == Spec => []FullReadinessIsEarned
<1>1. ReadinessInv => FullReadinessIsEarned
  BY DEF ReadinessInv
<1> QED BY ReadinessInvariance, <1>1, PTL

=============================================================================
