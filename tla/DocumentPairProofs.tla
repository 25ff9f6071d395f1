------------------------- MODULE DocumentPairProofs -------------------------
(***************************************************************************)
(* Proofs about DocumentPair, for any set of texts and any number of       *)
(* commits, edits, imports and crashes: what the files hold at each write  *)
(* of a commit and of its rollback, that a rollback reported as restored   *)
(* restored everything, and that the four files change as AtomicPair says. *)
(***************************************************************************)
EXTENDS DocumentPair, TLAPS

\* A file holds what the snapshot says, or what the commit writes, unless
\* somebody else wrote it since.
BpOld == bp = w.bp \/ "bp" \in touched
BpNew == bp = w.new.bp \/ "bp" \in touched
PrOld == pr = w.pr \/ "pr" \in touched
PrNew == pr = w.new.pr \/ "pr" \in touched
StOld == state = w.state \/ "state" \in touched
StNew == state = (IF w.orig = None THEN w.state ELSE NewState) \/ "state" \in touched

\* The record of a commit that has begun.
Work == [bp : Texts, pr : Texts, state : States \cup {None}, new : Pairs,
         orig : Texts \cup {None}]

\* Where the original and its importer stand: a blueprint that is being made
\* current comes from an original that is there.
OriginInv ==
  /\ ui.at # "idle" => orig # None
  /\ ui.at \in {"migrate", "record"} => ui.cur # None
  /\ state # None => state.orig # None

\* What the commit knows of its own snapshot.
WorkInv ==
  /\ pc # "idle" => w \in Work /\ result = "running"
  /\ pc # "idle" /\ w.orig = None => w.state = None
  /\ pc # "idle" /\ w.state # None => w.state.orig # None
  /\ pc = "state" => w.orig # None
  /\ pc # "idle" /\ ~doubt => touched = {}

\* What the files hold before each write.
FilesInv ==
  /\ pc = "bp"       => BpOld /\ PrOld /\ StOld
  /\ pc = "pr"       => BpNew /\ PrOld /\ StOld
  /\ pc = "state"    => BpNew /\ PrNew /\ StOld
  /\ pc = "manifest" => BpNew /\ PrNew /\ StNew

\* What they hold before each step of the rollback, and after it.
UndoInv ==
  /\ pc \in {"undoBp", "undoPr", "verify"} =>
       /\ fault # "none"
       /\ IF fault = "manifest" THEN StNew ELSE StOld
  /\ pc = "undoBp" /\ fault = "pr" => PrOld
  /\ pc = "undoPr" => BpOld /\ fault # "pr"
  /\ pc \in {"verify", "undoState"} => BpOld /\ PrOld
  /\ result = "restored" => BpOld /\ PrOld /\ StOld

IInv == TypeOK /\ OriginInv /\ WorkInv /\ FilesInv /\ UndoInv /\ NoUnexplainedDrift

-----------------------------------------------------------------------------
(* The steps of the commit *)

\* A fresh skeleton, or an imported blueprint, satisfies the invariant.
LEMMA InitOK ==
  ASSUME Init PROVE IInv
<1> USE PairAssumption DEF Init, UiIdle, NoWork
<1>1. TypeOK
  <2>1. orig \in Texts \cup {None} /\ bp \in Texts \cup {None} /\ pr \in Texts
    OBVIOUS
  <2>2. state \in States \cup {None} /\ mani \in Pairs \cup {None}
    BY DEF States
  <2>3. w = NoWork /\ fault = "none" /\ result = "none" /\ pc = "idle" /\ touched = {} /\ doubt \in BOOLEAN
    OBVIOUS
  <2>4. commits \in 0..MaxCommits /\ edits \in 0..MaxEdits
        /\ imports \in 0..MaxImports /\ crashes \in 0..MaxCrashes
    OBVIOUS
  <2> QED BY <2>1, <2>2, <2>3, <2>4 DEF TypeOK
<1>2. OriginInv /\ WorkInv /\ FilesInv /\ UndoInv
  BY DEF OriginInv, WorkInv, FilesInv, UndoInv
<1>3. NoUnexplainedDrift
  BY DEF NoUnexplainedDrift, Promised!Consistent, Open
<1> QED BY <1>1, <1>2, <1>3 DEF IInv

\* A commit starts from a snapshot of the live files, or is refused.
LEMMA PrepareStep ==
  ASSUME IInv, Prepare PROVE IInv'
<1> USE PairAssumption DEF IInv, Prepare, files
<1>1. TypeOK'
  BY DEF TypeOK, MayCommit, Pair, Pairs, Anchor, States, OriginInv
<1>2. OriginInv'
  BY DEF OriginInv
<1>3. WorkInv'
  BY DEF WorkInv, OriginInv, Work, TypeOK, MayCommit, Anchor, Pair, Pairs, States
<1>4. FilesInv' /\ UndoInv'
  BY DEF FilesInv, UndoInv, BpOld, PrOld, StOld
<1>5. NoUnexplainedDrift'
  BY DEF NoUnexplainedDrift, Promised!Consistent, Open
<1> QED BY <1>1, <1>2, <1>3, <1>4, <1>5

\* The blueprint is replaced, or the commit is refused and nothing has changed.
LEMMA ReplaceBlueprintStep ==
  ASSUME IInv, ReplaceBlueprint PROVE IInv'
<1> USE PairAssumption DEF IInv, ReplaceBlueprint, files, bounds, Goes, Ends, Writes
<1>1. TypeOK'
  <2>1. bp' \in Texts \cup {None} /\ touched' \subseteq {"bp", "pr", "state"}
    BY DEF TypeOK, WorkInv, Work, Pairs
  <2>2. pc' \in {"idle", "pr"} /\ result' \in {"running", "refused"} /\ w' = w /\ fault' = fault
    BY DEF WorkInv
  <2> QED BY <2>1, <2>2 DEF TypeOK
<1>2. OriginInv'
  BY DEF OriginInv, TypeOK, WorkInv, Work
<1>3. WorkInv'
  BY DEF WorkInv, TypeOK, Work
<1>4. FilesInv' /\ UndoInv'
  BY DEF FilesInv, UndoInv, WorkInv, TypeOK, Work, BpOld, BpNew, PrOld, PrNew, StOld, StNew, NewState
<1>5. NoUnexplainedDrift'
  BY DEF NoUnexplainedDrift, Promised!Consistent, Open, WorkInv, Work, FilesInv, UndoInv, TypeOK,
         BpOld, BpNew, PrOld, PrNew, StOld, StNew, NewState, Pairs, States
<1> QED BY <1>1, <1>2, <1>3, <1>4, <1>5

\* The proposal follows the blueprint, or the rollback begins.
LEMMA ReplaceProposalStep ==
  ASSUME IInv, ReplaceProposal PROVE IInv'
<1> USE PairAssumption DEF IInv, ReplaceProposal, files, bounds, Goes, FailsAt, Writes, AfterBoth
<1>1. TypeOK'
  <2>1. pr' \in Texts /\ touched' \subseteq {"bp", "pr", "state"}
    BY DEF TypeOK, WorkInv, Work, Pairs
  <2>2. pc' \in {"state", "manifest", "undoBp"} /\ fault' \in {fault, "pr"}
        /\ w' = w /\ result' = result
    OBVIOUS
  <2> QED BY <2>1, <2>2 DEF TypeOK
<1>2. OriginInv'
  BY DEF OriginInv, TypeOK, WorkInv, Work
<1>3. WorkInv'
  BY DEF WorkInv, TypeOK, Work
<1>4. FilesInv' /\ UndoInv'
  BY DEF FilesInv, UndoInv, WorkInv, TypeOK, Work, BpOld, BpNew, PrOld, PrNew, StOld, StNew, NewState
<1>5. NoUnexplainedDrift'
  BY DEF NoUnexplainedDrift, Promised!Consistent, Open, WorkInv, Work, FilesInv, UndoInv, TypeOK,
         BpOld, BpNew, PrOld, PrNew, StOld, StNew, NewState, Pairs, States
<1> QED BY <1>1, <1>2, <1>3, <1>4, <1>5

\* The state file follows both documents, or the rollback begins.
LEMMA AdvanceStateStep ==
  ASSUME IInv, AdvanceState PROVE IInv'
<1> USE PairAssumption DEF IInv, AdvanceState, files, bounds, Goes, FailsAt, Writes, NewState
<1>1. TypeOK'
  <2>1. state' \in States \cup {None} /\ touched' \subseteq {"bp", "pr", "state"}
    <3>1. NewState \in States
      BY DEF NewState, WorkInv, Work, States, Pairs, TypeOK
    <3> QED BY <3>1 DEF TypeOK
  <2>2. pc' \in {"manifest", "undoBp"} /\ fault' \in {"none", "pr", "state", "manifest"}
        /\ w' = w /\ result' = result
    BY DEF TypeOK
  <2> QED BY <2>1, <2>2 DEF TypeOK
<1>2. OriginInv'
  BY DEF OriginInv, TypeOK, WorkInv, Work
<1>3. WorkInv'
  BY DEF WorkInv, TypeOK, Work
<1>4. FilesInv' /\ UndoInv'
  BY DEF FilesInv, UndoInv, WorkInv, TypeOK, Work, BpOld, BpNew, PrOld, PrNew, StOld, StNew, NewState
<1>5. NoUnexplainedDrift'
  BY DEF NoUnexplainedDrift, Promised!Consistent, Open, WorkInv, Work, FilesInv, UndoInv, TypeOK,
         BpOld, BpNew, PrOld, PrNew, StOld, StNew, NewState, Pairs, States
<1> QED BY <1>1, <1>2, <1>3, <1>4, <1>5

\* The manifest comes last: the files already hold the pair it names.
LEMMA WriteManifestStep ==
  ASSUME IInv, WriteManifest PROVE IInv'
<1> USE PairAssumption DEF IInv, WriteManifest, files, bounds, Ends, FailsAt
<1>1. TypeOK'
  <2>1. mani' \in Pairs \cup {None} /\ doubt' \in BOOLEAN
    BY DEF TypeOK, WorkInv, Work
  <2>2. pc' \in {"idle", "undoBp"} /\ fault' \in {fault, "manifest"}
        /\ result' \in {result, "committed"} /\ w' = w
    OBVIOUS
  <2> QED BY <2>1, <2>2 DEF TypeOK
<1>2. OriginInv'
  BY DEF OriginInv, TypeOK, WorkInv, Work
<1>3. WorkInv'
  BY DEF WorkInv, TypeOK, Work
<1>4. FilesInv' /\ UndoInv'
  BY DEF FilesInv, UndoInv, WorkInv, TypeOK, Work, BpOld, BpNew, PrOld, PrNew, StOld, StNew, NewState
<1>5. NoUnexplainedDrift'
  BY DEF NoUnexplainedDrift, Promised!Consistent, Open, WorkInv, Work, FilesInv, UndoInv, TypeOK,
         BpOld, BpNew, PrOld, PrNew, StOld, StNew, NewState, Pairs, States
<1> QED BY <1>1, <1>2, <1>3, <1>4, <1>5

\* The rollback restores the blueprint, or leaves the function in doubt.
LEMMA UndoBlueprintStep ==
  ASSUME IInv, UndoBlueprint PROVE IInv'
<1> USE PairAssumption DEF IInv, UndoBlueprint, files, bounds, Goes, Ends, Writes, Disturbed
<1>1. TypeOK'
  <2>1. bp' \in Texts \cup {None} /\ touched' \subseteq {"bp", "pr", "state"} /\ doubt' \in BOOLEAN
    BY DEF TypeOK, WorkInv, Work
  <2>2. pc' \in {"verify", "undoPr", "idle"} /\ result' \in {"running", "escaped"}
        /\ w' = w /\ fault' = fault
    BY DEF WorkInv
  <2> QED BY <2>1, <2>2 DEF TypeOK
<1>2. OriginInv'
  BY DEF OriginInv, TypeOK, WorkInv, Work
<1>3. WorkInv'
  BY DEF WorkInv, TypeOK, Work
<1>4. FilesInv' /\ UndoInv'
  BY DEF FilesInv, UndoInv, WorkInv, TypeOK, Work, BpOld, BpNew, PrOld, PrNew, StOld, StNew, NewState
<1>5. NoUnexplainedDrift'
  BY DEF NoUnexplainedDrift, Promised!Consistent, Open, WorkInv, Work, FilesInv, UndoInv, TypeOK,
         BpOld, BpNew, PrOld, PrNew, StOld, StNew, NewState, Pairs, States
<1> QED BY <1>1, <1>2, <1>3, <1>4, <1>5

\* The rollback restores the proposal, or leaves the function in doubt.
LEMMA UndoProposalStep ==
  ASSUME IInv, UndoProposal PROVE IInv'
<1> USE PairAssumption DEF IInv, UndoProposal, files, bounds, Goes, Ends, Writes, Disturbed
<1>1. TypeOK'
  <2>1. pr' \in Texts /\ touched' \subseteq {"bp", "pr", "state"} /\ doubt' \in BOOLEAN
    BY DEF TypeOK, WorkInv, Work
  <2>2. pc' \in {"verify", "idle"} /\ result' \in {"running", "escaped"} /\ w' = w /\ fault' = fault
    BY DEF WorkInv
  <2> QED BY <2>1, <2>2 DEF TypeOK
<1>2. OriginInv'
  BY DEF OriginInv, TypeOK, WorkInv, Work
<1>3. WorkInv'
  BY DEF WorkInv, TypeOK, Work
<1>4. FilesInv' /\ UndoInv'
  BY DEF FilesInv, UndoInv, WorkInv, TypeOK, Work, BpOld, BpNew, PrOld, PrNew, StOld, StNew, NewState
<1>5. NoUnexplainedDrift'
  BY DEF NoUnexplainedDrift, Promised!Consistent, Open, WorkInv, Work, FilesInv, UndoInv, TypeOK,
         BpOld, BpNew, PrOld, PrNew, StOld, StNew, NewState, Pairs, States
<1> QED BY <1>1, <1>2, <1>3, <1>4, <1>5

\* The fingerprints decide whether the rollback may report a restoration.
LEMMA VerifyStep ==
  ASSUME IInv, Verify PROVE IInv'
<1> USE PairAssumption DEF IInv, Verify, files, bounds, Ends, Disturbed, RollbackEnds, Verified, StateToUndo
<1>1. TypeOK'
  <2>1. /\ pc' \in {"undoState", "undoStateOnly", "idle"}
        /\ result' \in {"running", "restored", "unverified"}
        /\ w' = w /\ fault' = fault /\ doubt' \in BOOLEAN
    BY DEF WorkInv, TypeOK
  <2> QED BY <2>1 DEF TypeOK
<1>2. OriginInv'
  BY DEF OriginInv, TypeOK, WorkInv, Work
<1>3. WorkInv'
  BY DEF WorkInv, TypeOK, Work
<1>4. FilesInv' /\ UndoInv'
  BY DEF FilesInv, UndoInv, WorkInv, TypeOK, Work, BpOld, BpNew, PrOld, PrNew, StOld, StNew, NewState
<1>5. NoUnexplainedDrift'
  BY DEF NoUnexplainedDrift, Promised!Consistent, Open, WorkInv, Work, FilesInv, UndoInv, TypeOK,
         BpOld, BpNew, PrOld, PrNew, StOld, StNew, NewState, Pairs, States
<1> QED BY <1>1, <1>2, <1>3, <1>4, <1>5

\* The state file is restored last; only then is restored=True reported.
LEMMA UndoStateStep ==
  ASSUME IInv, UndoState PROVE IInv'
<1> USE PairAssumption DEF IInv, UndoState, files, bounds, Ends, Disturbed, RollbackEnds, Writes
<1>1. TypeOK'
  <2>1. state' \in States \cup {None} /\ touched' \subseteq {"bp", "pr", "state"}
    BY DEF TypeOK, WorkInv, Work
  <2>2. pc' = "idle" /\ result' \in {"restored", "unverified"} /\ doubt' \in BOOLEAN
        /\ w' = w /\ fault' = fault
    BY DEF TypeOK
  <2> QED BY <2>1, <2>2 DEF TypeOK
<1>2. OriginInv'
  BY DEF OriginInv, TypeOK, WorkInv, Work
<1>3. WorkInv'
  BY DEF WorkInv, TypeOK, Work
<1>4. FilesInv' /\ UndoInv'
  BY DEF FilesInv, UndoInv, WorkInv, TypeOK, Work, BpOld, BpNew, PrOld, PrNew, StOld, StNew, NewState
<1>5. NoUnexplainedDrift'
  BY DEF NoUnexplainedDrift, Promised!Consistent, Open, WorkInv, Work, FilesInv, UndoInv, TypeOK,
         BpOld, BpNew, PrOld, PrNew, StOld, StNew, NewState, Pairs, States
<1> QED BY <1>1, <1>2, <1>3, <1>4, <1>5

\* An import writes the original only.
LEMMA ImportBlueprintStep ==
  ASSUME IInv, ImportBlueprint PROVE IInv'
<1> USE PairAssumption DEF IInv, ImportBlueprint, files, bounds, UiIdle, commit, history
<1>1. TypeOK'
  <2>1. orig' \in Texts \cup {None} /\ imports' \in 0..MaxImports
    BY DEF TypeOK
  <2>2. ui' \in [at : {"idle", "ensure", "migrate", "record"}, cur : Texts \cup {None}]
    OBVIOUS
  <2> QED BY <2>1, <2>2 DEF TypeOK
<1>2. OriginInv'
  BY DEF OriginInv, TypeOK, WorkInv, Work
<1>3. WorkInv'
  BY DEF WorkInv, TypeOK, Work
<1>4. FilesInv' /\ UndoInv'
  BY DEF FilesInv, UndoInv, WorkInv, TypeOK, Work, BpOld, BpNew, PrOld, PrNew, StOld, StNew, NewState
<1>5. NoUnexplainedDrift'
  BY DEF NoUnexplainedDrift, Promised!Consistent, Open, WorkInv, Work, FilesInv, UndoInv, TypeOK,
         BpOld, BpNew, PrOld, PrNew, StOld, StNew, NewState, Pairs, States
<1> QED BY <1>1, <1>2, <1>3, <1>4, <1>5

\* ensure_current_blueprint decides on what it read, and writes nothing.
LEMMA EnsureStep ==
  ASSUME IInv, Ensure PROVE IInv'
<1> USE PairAssumption DEF IInv, Ensure, files, bounds, UiIdle, commit, history, bounds
<1>1. TypeOK'
  <2>1. ui' \in [at : {"idle", "ensure", "migrate", "record"}, cur : Texts \cup {None}]
    BY DEF TypeOK
  <2> QED BY <2>1 DEF TypeOK
<1>2. OriginInv'
  BY DEF OriginInv, TypeOK, WorkInv, Work
<1>3. WorkInv'
  BY DEF WorkInv, TypeOK, Work
<1>4. FilesInv' /\ UndoInv'
  BY DEF FilesInv, UndoInv, WorkInv, TypeOK, Work, BpOld, BpNew, PrOld, PrNew, StOld, StNew, NewState
<1>5. NoUnexplainedDrift'
  BY DEF NoUnexplainedDrift, Promised!Consistent, Open, WorkInv, Work, FilesInv, UndoInv, TypeOK,
         BpOld, BpNew, PrOld, PrNew, StOld, StNew, NewState, Pairs, States
<1> QED BY <1>1, <1>2, <1>3, <1>4, <1>5

\* The blueprint it makes current replaces none, and no commit is open, unless
\* a doubt is raised.
LEMMA MigrateStep ==
  ASSUME IInv, Migrate PROVE IInv'
<1> USE PairAssumption DEF IInv, Migrate, files, bounds, UiIdle, commit, history, bounds
<1>1. TypeOK'
  <2>1. bp' \in Texts \cup {None}
    BY DEF TypeOK
  <2>2. ui' \in [at : {"idle", "ensure", "migrate", "record"}, cur : Texts \cup {None}]
    BY DEF TypeOK
  <2>3. touched' \subseteq {"bp", "pr", "state"} /\ doubt' \in BOOLEAN
    BY DEF TypeOK
  <2> QED BY <2>1, <2>2, <2>3 DEF TypeOK
<1>2. OriginInv'
  BY DEF OriginInv, TypeOK, WorkInv, Work
<1>3. WorkInv'
  BY DEF WorkInv, TypeOK, Work
<1>4. FilesInv' /\ UndoInv'
  BY DEF FilesInv, UndoInv, WorkInv, TypeOK, Work, BpOld, BpNew, PrOld, PrNew, StOld, StNew, NewState
<1>5. NoUnexplainedDrift'
  <2>1. CASE doubt'
    BY <2>1 DEF NoUnexplainedDrift
  <2>2. CASE UNCHANGED <<bp, touched, doubt>>
    BY <2>2 DEF NoUnexplainedDrift, Promised!Consistent, Open
  <2>3. CASE bp' = ui.cur /\ pc = "idle" /\ bp = None /\ ~doubt
    <3>1. mani = None /\ state = None
      BY <2>3 DEF NoUnexplainedDrift, Promised!Consistent, Open, TypeOK, Pairs, States
    <3> QED BY <2>3, <3>1 DEF NoUnexplainedDrift, Promised!Consistent, Open
  <2> QED BY <2>1, <2>2, <2>3 DEF TypeOK
<1> QED BY <1>1, <1>2, <1>3, <1>4, <1>5

\* The state file it derives describes the blueprint, or a doubt is raised.
LEMMA RecordStateStep ==
  ASSUME IInv, RecordState PROVE IInv'
<1> USE PairAssumption DEF IInv, RecordState, files, bounds, UiIdle, commit, history, bounds
<1>1. TypeOK'
  <2>1. state' \in States \cup {None}
    BY DEF TypeOK, OriginInv, States
  <2>2. ui' \in [at : {"idle", "ensure", "migrate", "record"}, cur : Texts \cup {None}]
    BY DEF TypeOK
  <2>3. touched' \subseteq {"bp", "pr", "state"} /\ doubt' \in BOOLEAN
    BY DEF TypeOK
  <2> QED BY <2>1, <2>2, <2>3 DEF TypeOK
<1>2. OriginInv'
  BY DEF OriginInv, TypeOK, WorkInv, Work
<1>3. WorkInv'
  BY DEF WorkInv, TypeOK, Work
<1>4. FilesInv' /\ UndoInv'
  BY DEF FilesInv, UndoInv, WorkInv, TypeOK, Work, BpOld, BpNew, PrOld, PrNew, StOld, StNew, NewState
<1>5. NoUnexplainedDrift'
  <2>1. CASE doubt'
    BY <2>1 DEF NoUnexplainedDrift
  <2>2. CASE UNCHANGED <<state, touched, doubt>>
    BY <2>2 DEF NoUnexplainedDrift, Promised!Consistent, Open
  <2>3. CASE /\ state' = [orig |-> orig, cur |-> ui.cur, last |-> None]
             /\ pc = "idle" /\ bp = ui.cur /\ state = None /\ ~doubt
    BY <2>3 DEF NoUnexplainedDrift, Promised!Consistent, Open
  <2> QED BY <2>1, <2>2, <2>3 DEF TypeOK
<1> QED BY <1>1, <1>2, <1>3, <1>4, <1>5

\* An editor's save is always a doubt.
LEMMA EditStep ==
  ASSUME IInv, Edit PROVE IInv'
<1> USE PairAssumption DEF IInv, Edit, files, bounds, Disturbed, commit
<1>1. TypeOK'
  <2>1. edits' \in 0..MaxEdits
    BY DEF TypeOK
  <2>2. bp' \in Texts \cup {None} /\ pr' \in Texts /\ touched' \subseteq {"bp", "pr", "state"}
    BY DEF TypeOK
  <2> QED BY <2>1, <2>2 DEF TypeOK
<1>2. OriginInv'
  BY DEF OriginInv, TypeOK, WorkInv, Work
<1>3. WorkInv'
  BY DEF WorkInv, TypeOK, Work
<1>4. FilesInv' /\ UndoInv'
  BY DEF FilesInv, UndoInv, WorkInv, TypeOK, Work, BpOld, BpNew, PrOld, PrNew, StOld, StNew, NewState
<1>5. NoUnexplainedDrift'
  BY DEF NoUnexplainedDrift, Promised!Consistent, Open, WorkInv, Work, FilesInv, UndoInv, TypeOK,
         BpOld, BpNew, PrOld, PrNew, StOld, StNew, NewState, Pairs, States
<1> QED BY <1>1, <1>2, <1>3, <1>4, <1>5

\* A process that dies inside an open commit leaves a doubt.
LEMMA CrashStep ==
  ASSUME IInv, Crash PROVE IInv'
<1> USE PairAssumption DEF IInv, Crash, files, bounds, UiIdle, NoWork, Open
<1>1. TypeOK'
  BY DEF TypeOK, OriginInv, WorkInv, Work, Pairs, States
<1>2. OriginInv'
  BY DEF OriginInv, TypeOK, WorkInv, Work
<1>3. WorkInv'
  BY DEF WorkInv, TypeOK, Work
<1>4. FilesInv' /\ UndoInv'
  BY DEF FilesInv, UndoInv, WorkInv, TypeOK, Work, BpOld, BpNew, PrOld, PrNew, StOld, StNew, NewState
<1>5. NoUnexplainedDrift'
  BY DEF NoUnexplainedDrift, Promised!Consistent, Open, WorkInv, Work, FilesInv, UndoInv, TypeOK,
         BpOld, BpNew, PrOld, PrNew, StOld, StNew, NewState, Pairs, States
<1> QED BY <1>1, <1>2, <1>3, <1>4, <1>5

\* Every step of the commit, of its rollback and of everybody else keeps it.
LEMMA NextOK ==
  ASSUME IInv, [Next]_vars PROVE IInv'
<1>1. CASE UNCHANGED vars
  <2>1. UNCHANGED <<orig, bp, pr, state, mani, pc, w, fault, ui, result, touched, doubt,
                    commits, edits, imports, crashes>>
    BY <1>1 DEF vars, files, commit, history, bounds
  <2>2. TypeOK' /\ OriginInv' /\ WorkInv'
    BY <2>1 DEF IInv, TypeOK, OriginInv, WorkInv
  <2>3. FilesInv' /\ UndoInv'
    BY <2>1 DEF IInv, FilesInv, UndoInv, BpOld, BpNew, PrOld, PrNew, StOld, StNew, NewState
  <2>4. NoUnexplainedDrift'
    BY <2>1 DEF IInv, NoUnexplainedDrift, Promised!Consistent, Open
  <2> QED BY <2>2, <2>3, <2>4 DEF IInv
<1>2. CASE Prepare \/ ReplaceBlueprint \/ ReplaceProposal \/ AdvanceState \/ WriteManifest
  BY <1>2, PrepareStep, ReplaceBlueprintStep, ReplaceProposalStep, AdvanceStateStep,
     WriteManifestStep
<1>3. CASE UndoBlueprint \/ UndoProposal \/ Verify \/ UndoState
  BY <1>3, UndoBlueprintStep, UndoProposalStep, VerifyStep, UndoStateStep
<1>4. CASE ImportBlueprint \/ Ensure \/ Migrate \/ RecordState \/ Edit \/ Crash
  BY <1>4, ImportBlueprintStep, EnsureStep, MigrateStep, RecordStateStep, EditStep, CrashStep
<1> QED BY <1>1, <1>2, <1>3, <1>4 DEF Next

-----------------------------------------------------------------------------
(* The steps as AtomicPair sees them *)

\* A step that leaves the manifest alone and ends in doubt is explained.
LEMMA DoubtExplains ==
  ASSUME UNCHANGED mani, doubt' = TRUE PROVE Promised!Next
BY DEF Promised!Next, Promised!Disturb

\* Opening a commit shows nothing, as long as nobody else wrote since its
\* snapshot.
LEMMA ReplaceBlueprintSeen ==
  ASSUME IInv, ReplaceBlueprint PROVE [Promised!Next]_(Promised!vars)
<1>1. UNCHANGED <<mani, doubt>> /\ doubt \in BOOLEAN
  BY DEF ReplaceBlueprint, IInv, TypeOK
<1>2. CASE ~doubt
  <2>1. touched = {} /\ bp = w.bp /\ pr = w.pr /\ state = w.state
    BY <1>2 DEF IInv, WorkInv, FilesInv, BpOld, PrOld, StOld, ReplaceBlueprint
  <2>2. pc = "bp" /\ w' = w /\ UNCHANGED <<pr, state>> /\ (pc' = "pr" \/ (pc' = "idle" /\ UNCHANGED bp))
    BY DEF ReplaceBlueprint, Goes, Ends
  <2>3. UNCHANGED Promised!vars
    BY <1>1, <2>1, <2>2 DEF Promised!vars, Open
  <2> QED BY <2>3
<1> QED BY <1>1, <1>2, DoubtExplains

\* A rollback that ends without a doubt ends where the commit began.
LEMMA RollbackSeen ==
  ASSUME IInv, UndoBlueprint \/ UndoProposal \/ Verify \/ UndoState
  PROVE  [Promised!Next]_(Promised!vars)
<1>0. IInv'
  BY UndoBlueprintStep, UndoProposalStep, VerifyStep, UndoStateStep
<1>1. UNCHANGED mani /\ w' = w /\ Open
  BY DEF UndoBlueprint, UndoProposal, Verify, UndoState, files, Goes, Ends, RollbackEnds, Open
<1>2. CASE doubt' = TRUE
  BY <1>1, <1>2, DoubtExplains
<1>3. CASE UNCHANGED doubt /\ ~doubt /\ (Open' \/ result' = "restored")
  <2>1. touched = {} /\ touched' = {}
    BY <1>3 DEF IInv, WorkInv, UndoBlueprint, UndoProposal, Verify, UndoState, Writes, Open
  <2>2. CASE Open'
    BY <1>1, <1>3, <2>2 DEF Promised!vars
  <2>3. CASE ~Open'
    <3>1. bp' = w.bp /\ pr' = w.pr /\ state' = w.state
      BY <1>0, <1>1, <1>3, <2>1, <2>3 DEF IInv, UndoInv, BpOld, PrOld, StOld
    <3> QED BY <1>1, <1>3, <2>3, <3>1 DEF Promised!vars
  <2> QED BY <2>2, <2>3
<1>4. doubt' = TRUE \/ (UNCHANGED doubt /\ (Open' \/ result' = "restored"))
  BY DEF UndoBlueprint, UndoProposal, Verify, UndoState, Goes, Ends, RollbackEnds, Disturbed, Open
<1> QED BY <1>2, <1>3, <1>4 DEF IInv, TypeOK

\* The manifest makes the new pair appear, all four files at once.
LEMMA WriteManifestSeen ==
  ASSUME IInv, WriteManifest PROVE [Promised!Next]_(Promised!vars)
<1>1. CASE mani' = w.new /\ Ends("committed") /\ doubt' = (touched # {})
  <2>0. w \in Work /\ w.new # None /\ UNCHANGED <<bp, pr, state>> /\ ~Open'
    BY <1>1, PairAssumption DEF IInv, WorkInv, WriteManifest, Work, Pairs, Ends, Open
  <2>1. CASE touched = {}
    <3>1. bp = w.new.bp /\ pr = w.new.pr
          /\ state = (IF w.orig = None THEN w.state ELSE NewState)
      BY <2>1 DEF IInv, FilesInv, BpNew, PrNew, StNew, WriteManifest
    <3>2. state = None \/ (state.cur = w.new.bp /\ state.last = w.new)
      BY <3>1 DEF IInv, WorkInv, WriteManifest, NewState
    <3>3. Promised!Commit
      BY <1>1, <2>0, <2>1, <3>1, <3>2 DEF Promised!Commit
    <3> QED BY <3>3 DEF Promised!Next
  <2>2. CASE touched # {}
    BY <1>1, <2>0, <2>2 DEF Promised!Next, Promised!CommitDisturbed
  <2> QED BY <2>1, <2>2
<1>2. CASE FailsAt("manifest") /\ UNCHANGED <<mani, doubt>>
  BY <1>2 DEF WriteManifest, FailsAt, Promised!vars, Open
<1> QED BY <1>1, <1>2 DEF WriteManifest

\* ensure_current_blueprint, undisturbed, is an adoption.
LEMMA EnsureSeen ==
  ASSUME IInv, Migrate \/ RecordState PROVE [Promised!Next]_(Promised!vars)
<1>0. UNCHANGED <<mani, pr, pc, w>> /\ (Open' <=> Open)
  BY DEF Migrate, RecordState, commit, Open
<1>1. CASE doubt' = TRUE
  BY <1>0, <1>1, DoubtExplains
<1>2. CASE UNCHANGED <<bp, pr, state, doubt>>
  BY <1>0, <1>2 DEF Promised!vars
<1>3. CASE /\ ~doubt' /\ UNCHANGED doubt /\ pc = "idle" /\ bp = None
           /\ bp' \in Texts /\ UNCHANGED state
  <2>1. Promised!Adopt
    BY <1>0, <1>3 DEF Promised!Adopt, Open
  <2> QED BY <2>1 DEF Promised!Next
<1>4. CASE /\ ~doubt' /\ UNCHANGED doubt /\ pc = "idle" /\ state = None /\ UNCHANGED bp
           /\ state' # None /\ state'.cur = bp /\ state'.last = None
  <2>1. Promised!Adopt
    BY <1>0, <1>4 DEF Promised!Adopt, Open
  <2> QED BY <2>1 DEF Promised!Next
<1>5. CASE Migrate
  <2>1. ui.cur \in Texts
    BY <1>5 DEF Migrate, IInv, TypeOK, OriginInv
  <2>2. doubt' \in BOOLEAN /\ doubt \in BOOLEAN
    BY <1>5 DEF Migrate, IInv, TypeOK, history
  <2> QED BY <1>1, <1>2, <1>3, <1>5, <2>1, <2>2 DEF Migrate, history
<1>6. CASE RecordState
  <2>1. [orig |-> orig, cur |-> ui.cur, last |-> None] # None
    <3>1. [orig |-> orig, cur |-> ui.cur, last |-> None] \in States
      BY <1>6 DEF RecordState, IInv, TypeOK, OriginInv, States
    <3> QED BY <3>1, PairAssumption
  <2>2. CASE UNCHANGED <<state, history>>
    BY <1>0, <1>2, <1>6, <2>2 DEF RecordState, history
  <2>3. CASE /\ state' = [orig |-> orig, cur |-> ui.cur, last |-> None]
             /\ pc = "idle" /\ bp = ui.cur /\ state = None /\ doubt = FALSE /\ doubt' = FALSE
    BY <1>4, <1>6, <2>1, <2>3 DEF RecordState
  <2>4. doubt \in BOOLEAN
    BY DEF IInv, TypeOK
  <2> QED BY <1>1, <1>6, <2>2, <2>3, <2>4 DEF RecordState
<1> QED BY <1>5, <1>6

\* Every step of DocumentPair is a step of AtomicPair, or shows nothing.
LEMMA NextSeen ==
  ASSUME IInv, [Next]_vars PROVE [Promised!Next]_(Promised!vars)
<1>1. CASE ReplaceBlueprint
  BY <1>1, ReplaceBlueprintSeen
<1>2. CASE UndoBlueprint \/ UndoProposal \/ Verify \/ UndoState
  BY <1>2, RollbackSeen
<1>3. CASE WriteManifest
  BY <1>3, WriteManifestSeen
<1>4. CASE Migrate \/ RecordState
  BY <1>4, EnsureSeen
<1>5. CASE Prepare
  BY <1>5 DEF Prepare, files, Promised!vars, Open
<1>6. CASE ReplaceProposal \/ AdvanceState
  <2>1. UNCHANGED <<w, mani, doubt>> /\ Open /\ Open'
    BY <1>6 DEF ReplaceProposal, AdvanceState, Goes, FailsAt, AfterBoth, Open
  <2> QED BY <2>1 DEF Promised!vars
<1>7. CASE ImportBlueprint \/ Ensure
  BY <1>7 DEF ImportBlueprint, Ensure, files, commit, history, Promised!vars, Open
<1>8. CASE Edit
  BY <1>8, DoubtExplains DEF Edit, Disturbed
<1>9. CASE Crash
  <2>1. CASE Open
    BY <1>9, <2>1, DoubtExplains DEF Crash, files
  <2>2. CASE ~Open
    BY <1>9, <2>2 DEF Crash, files, Promised!vars, Open, IInv, TypeOK
  <2> QED BY <2>1, <2>2
<1>10. CASE UNCHANGED vars
  BY <1>10 DEF vars, files, commit, history, Promised!vars, Open
<1> QED BY <1>1, <1>2, <1>3, <1>4, <1>5, <1>6, <1>7, <1>8, <1>9, <1>10 DEF Next

-----------------------------------------------------------------------------
(* The theorems *)

\* What is true of the files at every write of a commit and of its rollback.
THEOREM PairInvariance == Spec => []IInv
<1>1. Init => IInv
  BY InitOK
<1>2. IInv /\ [Next]_vars => IInv'
  BY NextOK
<1> QED BY <1>1, <1>2, PTL DEF Spec

\* Every file, and every field of the commit in progress, keeps its type.
THEOREM PairTypeCorrect == Spec => []TypeOK
<1>1. IInv => TypeOK
  BY DEF IInv
<1> QED BY <1>1, PairInvariance, PTL

\* A failed commit that reports restored=True has restored both documents and the
\* state file, whichever write failed and whatever happened in earlier commits.
THEOREM RestoredCorrect == Spec => []RestoredIsExact
<1>1. IInv => RestoredIsExact
  BY DEF IInv, UndoInv, RestoredIsExact, BpOld, PrOld, StOld
<1> QED BY <1>1, PairInvariance, PTL

\* Unless another writer, a crash inside a commit or a failed rollback came
\* between, the manifest and the state file agree with the documents.
THEOREM NoDriftCorrect == Spec => []NoUnexplainedDrift
<1>1. IInv => NoUnexplainedDrift
  BY DEF IInv
<1> QED BY <1>1, PairInvariance, PTL

\* The commit that replaces four files one by one implements the commit that
\* replaces them in one step.
THEOREM CommitIsAtomic == Spec => ImplementsAtomicPair
<1>1. Init => Promised!Init
  BY PairAssumption DEF Init, Promised!Init, Open
<1>2. IInv /\ [Next]_vars => [Promised!Next]_(Promised!vars)
  BY NextSeen
<1> QED BY <1>1, <1>2, PairInvariance, PTL DEF Spec, ImplementsAtomicPair, Promised!Spec
=============================================================================
