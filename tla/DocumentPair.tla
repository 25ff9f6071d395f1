---------------------------- MODULE DocumentPair ----------------------------
(***************************************************************************)
(* commit_document_pair file by file: four files are replaced one after    *)
(* the other, each replacement atomic, and a failure rolls back.  Beside   *)
(* the worker that commits, the operator imports a blueprint (the import   *)
(* buttons stay enabled during a run), an editor saves either document,    *)
(* and the process may die between any two writes.                         *)
(***************************************************************************)
EXTENDS Naturals

CONSTANTS
  Texts,       \* contents of a document; a text stands for its SHA-256
  None,        \* an absent file
  MaxCommits,  \* bound: commits attempted
  MaxEdits,    \* bound: documents saved outside the program
  MaxImports,  \* bound: blueprint imports
  MaxCrashes   \* bound: times the process dies

\* What the manifest and the state file may say.
Pairs  == [iter : 1..MaxCommits, bp : Texts, pr : Texts]
States == [orig : Texts \cup {None}, cur : Texts, last : Pairs \cup {None}]

\* An absent file is no content.
ASSUME PairAssumption ==
  /\ None \notin Texts \cup Pairs \cup States
  /\ {MaxCommits, MaxEdits, MaxImports, MaxCrashes} \subseteq Nat

VARIABLES
  orig,     \* 00_SOURCE_OF_TRUTH/MASTER_BLUEPRINT.md
  bp, pr,   \* CURRENT_BLUEPRINT.md, MASTER_PROPOSAL.md
  state,    \* 05_CONTROL/BLUEPRINT_STATE.json
  mani,     \* 05_CONTROL/DOCUMENT_PAIR_STATE.json: the pair it commits
  pc,       \* the next write of the commit
  w,        \* the commit's snapshot and the pair it writes
  fault,    \* the write that failed
  ui,       \* ensure_current_blueprint: where it stands, the hash it read
  result,   \* how the last commit ended
  touched,  \* history: files another writer changed after the commit did
  doubt,    \* history: see AtomicPair
  commits, edits, imports, crashes

files   == <<bp, pr, state, mani>>
commit  == <<pc, w, fault, result>>
history == <<touched, doubt>>
bounds  == <<commits, edits, imports, crashes>>
vars    == <<orig, files, commit, ui, history, bounds>>

Pair(n, b, p) == [iter |-> n, bp |-> b, pr |-> p]   \* pair_revision_id
NoWork == [bp |-> None, pr |-> None, state |-> None, new |-> None, orig |-> None]
UiIdle == [at |-> "idle", cur |-> None]

Init ==
  /\ \/ orig = None /\ bp = None /\ state = None      \* a fresh skeleton
     \/ /\ orig \in Texts /\ bp = orig                \* an imported blueprint
        /\ state = [orig |-> orig, cur |-> bp, last |-> None]
  /\ pr \in Texts /\ mani = None
  /\ pc = "idle" /\ w = NoWork /\ fault = "none" /\ result = "none"
  /\ ui = UiIdle
  /\ touched = {} /\ doubt = FALSE
  /\ commits = 0 /\ edits = 0 /\ imports = 0 /\ crashes = 0

-----------------------------------------------------------------------------
(* The commit. *)

Goes(next) == pc' = next /\ UNCHANGED <<w, fault, result>>
Ends(how)  == pc' = "idle" /\ result' = how /\ UNCHANGED <<w, fault>>
FailsAt(what) == pc' = "undoBp" /\ fault' = what /\ UNCHANGED <<w, result>>

Writes(file) == touched' = touched \ {file}
Disturbed    == doubt' = TRUE

\* Mutant: a workspace without a living blueprint is not refused.
MayCommit_AnyWorkspace == TRUE

MayCommit == bp # None

\* The immutable original's hash: from the prior state, or from the file.
Anchor == IF state # None THEN state.orig ELSE orig

\* Guards, snapshot, staging: nothing live is touched.  A failed read or
\* staging is a refusal.
Prepare ==
  /\ pc = "idle" /\ commits < MaxCommits
  /\ commits' = commits + 1
  /\ fault' = "none" /\ touched' = {}
  /\ \/ pc' = "idle" /\ result' = "refused" /\ w' = NoWork
     \/ /\ MayCommit
        /\ \E b, p \in Texts :
             w' = [bp |-> bp, pr |-> pr, state |-> state,
                   new |-> Pair(commits + 1, b, p), orig |-> Anchor]
        /\ pc' = "bp" /\ result' = "running"
  /\ UNCHANGED <<orig, files, ui, doubt, edits, imports, crashes>>

ReplaceBlueprint ==
  /\ pc = "bp"
  /\ \/ bp' = w.new.bp /\ Goes("pr") /\ Writes("bp")
     \/ Ends("refused") /\ UNCHANGED <<bp, touched>>
  /\ UNCHANGED <<orig, pr, state, mani, ui, doubt, bounds>>

AfterBoth == IF w.orig # None THEN "state" ELSE "manifest"

ReplaceProposal ==
  /\ pc = "pr"
  /\ \/ pr' = w.new.pr /\ Goes(AfterBoth) /\ Writes("pr")
     \/ FailsAt("pr") /\ UNCHANGED <<pr, touched>>
  /\ UNCHANGED <<orig, bp, state, mani, ui, doubt, bounds>>

\* Mutant: the living-blueprint state keeps the hash of the previous pair.
NewState_Stale == [orig |-> w.orig, cur |-> w.bp, last |-> w.new]

NewState == [orig |-> w.orig, cur |-> w.new.bp, last |-> w.new]

AdvanceState ==
  /\ pc = "state"
  /\ \/ state' = NewState /\ Goes("manifest") /\ Writes("state")
     \/ FailsAt("state") /\ UNCHANGED <<state, touched>>
  /\ UNCHANGED <<orig, bp, pr, mani, ui, doubt, bounds>>

WriteManifest ==
  /\ pc = "manifest"
  /\ \/ mani' = w.new /\ Ends("committed") /\ doubt' = (touched # {})
     \/ FailsAt("manifest") /\ UNCHANGED <<mani, doubt>>
  /\ UNCHANGED <<orig, bp, pr, state, ui, touched, bounds>>

-----------------------------------------------------------------------------
(* The rollback.  An OSError of a restoration leaves the function. *)

UndoBlueprint ==
  /\ pc = "undoBp"
  /\ \/ /\ bp' = w.bp /\ Writes("bp")
        /\ Goes(IF fault = "pr" THEN "verify" ELSE "undoPr")
        /\ UNCHANGED doubt
     \/ Ends("escaped") /\ Disturbed /\ UNCHANGED <<bp, touched>>
  /\ UNCHANGED <<orig, pr, state, mani, ui, bounds>>

UndoProposal ==
  /\ pc = "undoPr"
  /\ \/ pr' = w.pr /\ Writes("pr") /\ Goes("verify") /\ UNCHANGED doubt
     \/ Ends("escaped") /\ Disturbed /\ UNCHANGED <<pr, touched>>
  /\ UNCHANGED <<orig, bp, state, mani, ui, bounds>>

\* Mutant: a state file the commit created is left behind.
StateToUndo_PriorOnly == fault \in {"state", "manifest"} /\ w.state # None

\* After a failed state write the prior state is written again; after a failed
\* manifest the advanced one is replaced by the prior one, or removed.
StateToUndo == \/ fault = "state" /\ w.state # None
               \/ fault = "manifest" /\ w.orig # None

Verified == bp = w.bp /\ (fault = "pr" \/ pr = w.pr)

RollbackEnds(ok) ==
  IF ok THEN Ends("restored") /\ UNCHANGED doubt ELSE Ends("unverified") /\ Disturbed

Verify ==
  /\ pc = "verify"
  /\ \/ /\ StateToUndo
        /\ pc' = IF Verified THEN "undoState" ELSE "undoStateOnly"
        /\ UNCHANGED <<w, fault, result, doubt>>
     \/ ~StateToUndo /\ RollbackEnds(Verified)
     \/ Ends("unverified") /\ Disturbed           \* a fingerprint failed
  /\ UNCHANGED <<orig, files, ui, touched, bounds>>

UndoState ==
  /\ pc \in {"undoState", "undoStateOnly"}
  /\ \/ /\ state' = w.state /\ Writes("state")
        /\ RollbackEnds(pc = "undoState")
     \/ RollbackEnds(FALSE) /\ UNCHANGED <<state, touched>>
  /\ UNCHANGED <<orig, bp, pr, mani, ui, bounds>>

-----------------------------------------------------------------------------
(* Everybody else. *)

\* The import may be cancelled or fail: ensure_current_blueprint follows anyway.
ImportBlueprint ==
  /\ ui.at = "idle" /\ imports < MaxImports
  /\ imports' = imports + 1
  /\ orig' \in Texts \cup {orig} /\ orig' # None
  /\ ui' = [UiIdle EXCEPT !.at = "ensure"]
  /\ UNCHANGED <<files, commit, history, commits, edits, crashes>>

\* With a state file it only compares; otherwise it derives or migrates.
Ensure ==
  /\ ui.at = "ensure"
  /\ ui' = CASE state # None              -> UiIdle
             [] state = None /\ bp # None -> [at |-> "record", cur |-> bp]
             [] OTHER                     -> [at |-> "migrate", cur |-> orig]
  /\ UNCHANGED <<orig, files, commit, history, bounds>>

Migrate ==
  /\ ui.at = "migrate"
  /\ \/ /\ bp' = ui.cur /\ ui' = [ui EXCEPT !.at = "record"]
        /\ touched' = touched \cup {"bp"}
        /\ doubt' = (doubt \/ pc # "idle" \/ bp # None)
     \/ ui' = UiIdle /\ UNCHANGED <<bp, history>>           \* the write failed
  /\ UNCHANGED <<orig, pr, state, mani, commit, bounds>>

RecordState ==
  /\ ui.at = "record"
  /\ ui' = UiIdle
  /\ \/ /\ state' = [orig |-> orig, cur |-> ui.cur, last |-> None]
        /\ touched' = touched \cup {"state"}
        /\ doubt' = (doubt \/ pc # "idle" \/ bp # ui.cur \/ state # None)
     \/ UNCHANGED <<state, history>>                        \* the write failed
  /\ UNCHANGED <<orig, bp, pr, mani, commit, bounds>>

\* An editor, or IMPORT EXISTING PROPOSAL.
Edit ==
  /\ edits < MaxEdits
  /\ edits' = edits + 1
  /\ \/ bp' \in Texts /\ touched' = touched \cup {"bp"} /\ UNCHANGED pr
     \/ pr' \in Texts /\ touched' = touched \cup {"pr"} /\ UNCHANGED bp
  /\ Disturbed
  /\ UNCHANGED <<orig, state, mani, commit, ui, commits, imports, crashes>>

Open == pc \notin {"idle", "bp"}    \* a live file may have been replaced

Crash ==
  /\ crashes < MaxCrashes /\ (pc # "idle" \/ ui # UiIdle)
  /\ crashes' = crashes + 1
  /\ pc' = "idle" /\ w' = NoWork /\ fault' = "none" /\ result' = "none"
  /\ ui' = UiIdle
  /\ doubt' = (doubt \/ Open)
  /\ UNCHANGED <<orig, files, touched, commits, edits, imports>>

Next ==
  \/ Prepare \/ ReplaceBlueprint \/ ReplaceProposal \/ AdvanceState \/ WriteManifest
  \/ UndoBlueprint \/ UndoProposal \/ Verify \/ UndoState
  \/ ImportBlueprint \/ Ensure \/ Migrate \/ RecordState \/ Edit \/ Crash

Spec == Init /\ [][Next]_vars
-----------------------------------------------------------------------------
(* Properties. *)

\* Every file, and every field of the commit in progress, keeps its type.
TypeOK ==
  /\ orig \in Texts \cup {None} /\ bp \in Texts \cup {None} /\ pr \in Texts
  /\ state \in States \cup {None} /\ mani \in Pairs \cup {None}
  /\ pc \in {"idle", "bp", "pr", "state", "manifest", "undoBp", "undoPr", "verify",
             "undoState", "undoStateOnly"}
  /\ w = NoWork \/ w \in [bp : Texts, pr : Texts, state : States \cup {None},
                          new : Pairs, orig : Texts \cup {None}]
  /\ fault \in {"none", "pr", "state", "manifest"}
  /\ ui \in [at : {"idle", "ensure", "migrate", "record"}, cur : Texts \cup {None}]
  /\ result \in {"none", "running", "refused", "restored", "unverified", "escaped",
                 "committed"}
  /\ touched \subseteq {"bp", "pr", "state"} /\ doubt \in BOOLEAN
  /\ commits \in 0..MaxCommits /\ edits \in 0..MaxEdits
  /\ imports \in 0..MaxImports /\ crashes \in 0..MaxCrashes

\* restored=True of a DocumentPairStateError: both documents and the state file
\* are exactly what they were when the commit took its snapshot, whichever write
\* failed and whatever was committed, edited or lost in a crash before.
RestoredIsExact ==
  result = "restored" /\ touched = {} =>
    bp = w.bp /\ pr = w.pr /\ state = w.state

\* What a reader is promised while a commit is open: the pair of its snapshot.
Promised == INSTANCE AtomicPair WITH
  bp    <- IF Open THEN w.bp ELSE bp,
  pr    <- IF Open THEN w.pr ELSE pr,
  state <- IF Open THEN w.state ELSE state

\* "All-or-rollback": seen from outside the commit, the four files change in one
\* step or not at all, unless someone else writes, a crash hits the open commit
\* or the rollback itself fails; the next commit that succeeds makes good.
ImplementsAtomicPair == Promised!Spec

\* Without such a disturbance the manifest and the state file never contradict
\* the documents: ensure_current_blueprint finds no current_drift.
NoUnexplainedDrift == doubt \/ Promised!Consistent
=============================================================================
