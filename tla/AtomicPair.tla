----------------------------- MODULE AtomicPair -----------------------------
(***************************************************************************)
(* What commit_document_pair promises: the living blueprint, the proposal, *)
(* BLUEPRINT_STATE and the manifest change together or not at all.         *)
(* doubt is raised by whatever the commit does not answer for: another     *)
(* writer, a crash inside the commit, a rollback that failed.              *)
(***************************************************************************)
CONSTANTS Texts, None

VARIABLES bp, pr, state, mani, doubt
vars == <<bp, pr, state, mani, doubt>>

\* The state file and the manifest speak of the documents on disk.
Consistent ==
  /\ mani # None => bp = mani.bp /\ pr = mani.pr
  /\ state # None => state.cur = bp /\ state.last \in {None, mani}

Init ==
  /\ bp \in Texts \cup {None} /\ pr \in Texts
  /\ mani = None /\ doubt = FALSE
  /\ state = None \/ (state.cur = bp /\ state.last = None)

\* The whole commit in one step.
Commit ==
  /\ mani' # None
  /\ doubt' = FALSE
  /\ bp' = mani'.bp /\ pr' = mani'.pr
  /\ state' = None \/ (state'.cur = bp' /\ state'.last = mani')

\* A commit into whose files another writer wrote.
CommitDisturbed == mani' # None /\ doubt' = TRUE

\* ensure_current_blueprint: the living blueprint and its record come to be.
Adopt ==
  /\ UNCHANGED <<pr, mani, doubt>>
  /\ \/ bp = None /\ bp' \in Texts /\ UNCHANGED state
     \/ /\ state = None /\ state' # None /\ UNCHANGED bp
        /\ state'.cur = bp /\ state'.last = None

Disturb == mani' = mani /\ doubt' = TRUE

Next == Commit \/ CommitDisturbed \/ Adopt \/ Disturb

Spec == Init /\ [][Next]_vars
=============================================================================
