---------------------------- MODULE SourceImport ----------------------------
(***************************************************************************)
(* The import of the operator's files into a proposal workspace            *)
(* (proposal/source_import.py and the import buttons of ui/proposal_mode): *)
(* the original bytes are kept, the text they hold becomes the canonical   *)
(* file of its role, what stood there is frozen first, and a record goes   *)
(* to the manifest.  Every file write is a step of its own, and a crash, a *)
(* failed write or another writer of the workspace may come between them:  *)
(* the buttons stay enabled while a worker rewrites the same documents.    *)
(***************************************************************************)
EXTENDS Integers, FiniteSets, SequencesExt

CONSTANTS
  Files,                  \* the operator's files: [name, stable, holds]
  NoFile,                 \* no such file, or one without content
  Corrupt,                \* a manifest that cannot be read
  MaxCopies,              \* the 9999 names a directory offers for one file name
  MaxImports, MaxEdits    \* bounds: selections made, texts other writers bring

ASSUME ImportAssumption ==
  /\ MaxCopies \in Nat /\ MaxImports \in Nat /\ MaxEdits \in Nat
  /\ NoFile \notin {"written"} \X Nat       \* what a writer brings is a text

VARIABLES
  originals,              \* preserved bytes: [dir, name, copy] -> file
  canonical,              \* canonical path -> text
  backups,                \* frozen texts: [dir, path, copy] -> text
  manifest,               \* the records, oldest first, or Corrupt
  direct,                 \* the workspace path is its own resolution
  role, queue, replace,   \* the selection under import and its replace flag
  step,                   \* the step of import_source, "idle" or "asking"
  kept, frozen,           \* where this import put the bytes and the old text
  asked,                  \* history: the path whose replacement was confirmed
  late,                   \* history: what others wrote since this import looked
  replaced,               \* history: what imports have overwritten
  imports, edits          \* counters for the bounds

files == <<originals, canonical, backups, manifest>>
underway == <<role, queue, replace, step, kept, frozen>>
history == <<asked, late, replaced>>
bounds == <<imports, edits>>
importVars == <<files, direct, underway, history, bounds>>

ImportsDir ==
  [master_blueprint |-> "SOURCE_OF_TRUTH", existing_proposal |-> "SOURCE_OF_TRUTH",
   application_template |-> "OFFICIAL", official_document |-> "OFFICIAL"]
Roles == DOMAIN ImportsDir

Canonical(r, f) == IF r = "official_document" THEN <<"NORMALIZED", f.stable>> ELSE <<r>>
Paths == {Canonical(r, f) : r \in Roles, f \in Files}

\* A file that is missing, empty, too large, of another format or that its
\* parser refuses is refused before anything is written.  A PDF without text
\* is not: its page markers count as text.
Extracted(f) == IF f.holds \in {"text", "pages only"} THEN <<f.holds, f.name>> ELSE NoFile

Held(path) == canonical[path] # NoFile

\* Mutant: the plain name, whether or not it is taken.
FreeCopy_Plain(taken) == IF MaxCopies < 1 THEN 0 ELSE 1

\* The first name that no file has, 0 when all are taken.
FreeCopy(taken) ==
  LET free == (1..MaxCopies) \ taken
  IN  IF free = {} THEN 0 ELSE Min(free)

Current == Head(queue)
Target == Canonical(role, Current)
Dir == ImportsDir[role]

-----------------------------------------------------------------------------

ImportInit ==
  /\ originals = << >> /\ backups = << >>
  /\ canonical = [p \in Paths |-> NoFile]
  /\ manifest \in {<< >>, Corrupt}
  /\ direct \in BOOLEAN
  /\ role = "official_document" /\ queue = << >> /\ replace = FALSE /\ step = "idle"
  /\ kept = 0 /\ frozen = 0
  /\ asked = NoFile /\ late = {} /\ replaced = {}
  /\ imports = 0 /\ edits = 0

End == /\ step' = "idle" /\ queue' = << >> /\ replace' = FALSE
       /\ kept' = 0 /\ frozen' = 0 /\ asked' = NoFile /\ late' = {}
       /\ UNCHANGED <<files, direct, role, replaced, bounds>>

Go(to) == /\ step' = to /\ late' = {}
          /\ UNCHANGED <<files, direct, role, queue, replace, kept, frozen, asked, replaced, bounds>>

\* import_source is called on the first file of the selection.
Enter == step' = "read" /\ kept' = 0 /\ frozen' = 0 /\ late' = {}

Import(r, selection) ==
  /\ step = "idle" /\ imports < MaxImports
  /\ imports' = imports + 1
  /\ role' = r /\ queue' = selection
  /\ UNCHANGED <<files, direct, replace, asked, replaced, edits>>

\* One file for a role with one canonical text, any number of official documents.
SelectFiles ==
  \E r \in Roles \ {"existing_proposal"} :
    \E selection \in IF r = "official_document" THEN SeqOf(Files, 2) \ {<< >>}
                     ELSE {<<f>> : f \in Files} :
      Import(r, selection) /\ Enter

\* The draft is asked about before import_source is called at all.
SelectDraft ==
  \E f \in Files :
    /\ Import("existing_proposal", <<f>>)
    /\ IF Held(<<"existing_proposal">>)
       THEN step' = "asking" /\ UNCHANGED <<kept, frozen, late>>
       ELSE Enter

\* The flag stays set for the files of the selection that follow.
Confirm ==
  /\ step = "asking"
  /\ replace' = TRUE /\ asked' = Target /\ Enter
  /\ UNCHANGED <<files, direct, role, queue, replaced, bounds>>

Decline == step = "asking" /\ End

Read ==
  /\ step = "read"
  /\ IF Extracted(Current) = NoFile THEN End
     ELSE Go("keep")

KeepOriginal ==
  /\ step = "keep"
  /\ LET copy == FreeCopy({k \in 1..MaxCopies : [dir |-> Dir, name |-> Current.name, copy |-> k] \in DOMAIN originals})
         place == [dir |-> Dir, name |-> Current.name, copy |-> copy]
     IN  IF copy = 0 THEN End
         ELSE /\ originals' = [p \in DOMAIN originals \cup {place} |-> IF p = place THEN Current ELSE originals[p]]
              /\ kept' = copy /\ step' = "look"
              /\ UNCHANGED <<canonical, backups, manifest, direct, role, queue, replace, frozen, history, bounds>>

\* A text that stands there is only replaced on demand; without the flag the
\* import is refused, and the operator asked once (never by the draft's button,
\* which has asked before).
Look ==
  /\ step = "look"
  /\ \/ ~Held(Target) /\ Go("write")
     \/ Held(Target) /\ replace /\ Go("freeze")
     \/ Held(Target) /\ ~replace /\ role # "existing_proposal" /\ Go("asking")
     \/ Held(Target) /\ ~replace /\ role = "existing_proposal" /\ End

\* Mutant: one frozen text is thought to be enough.
Freeze_Once ==
  /\ step = "freeze"
  /\ LET place == [dir |-> Dir, path |-> Target, copy |-> 1]
     IN  backups' = IF place \in DOMAIN backups THEN backups
                    ELSE [p \in DOMAIN backups \cup {place} |-> IF p = place THEN canonical[Target] ELSE backups[p]]
  /\ frozen' = 1 /\ step' = "write" /\ late' = {}
  /\ UNCHANGED <<originals, canonical, manifest, direct, role, queue, replace, kept, asked, replaced, bounds>>

\* The bytes are read a second time.
Freeze ==
  /\ step = "freeze"
  /\ LET copy == FreeCopy({k \in 1..MaxCopies : [dir |-> Dir, path |-> Target, copy |-> k] \in DOMAIN backups})
         place == [dir |-> Dir, path |-> Target, copy |-> copy]
     IN  IF copy = 0 THEN End
         ELSE /\ backups' = [p \in DOMAIN backups \cup {place} |-> IF p = place THEN canonical[Target] ELSE backups[p]]
              /\ frozen' = copy /\ step' = "write" /\ late' = {}
              /\ UNCHANGED <<originals, canonical, manifest, direct, role, queue, replace, kept, asked, replaced, bounds>>

WriteCanonical ==
  /\ step = "write"
  /\ canonical' = [canonical EXCEPT ![Target] = Extracted(Current)]
  /\ replaced' = replaced \cup IF Held(Target) /\ canonical[Target] \notin late THEN {canonical[Target]} ELSE {}
  /\ step' = "record"
  /\ UNCHANGED <<originals, backups, manifest, direct, role, queue, replace, kept, frozen, asked, late, bounds>>

Record ==
  [file |-> Current, path |-> Target,
   original |-> [dir |-> Dir, name |-> Current.name, copy |-> kept],
   backup |-> IF frozen = 0 THEN NoFile ELSE [dir |-> Dir, path |-> Target, copy |-> frozen]]

\* The path is made relative to the resolved workspace, which fails below any
\* other; a manifest that cannot be read is noticed only here.
AppendManifest ==
  /\ step = "record"
  /\ IF ~direct \/ manifest = Corrupt THEN End
     ELSE /\ manifest' = Append(manifest, Record)
          /\ queue' = Tail(queue) /\ kept' = 0 /\ frozen' = 0 /\ late' = {}
          /\ IF Len(queue) > 1 THEN step' = "read" /\ UNCHANGED <<replace, asked>>
             ELSE step' = "idle" /\ replace' = FALSE /\ asked' = NoFile
          /\ UNCHANGED <<originals, canonical, backups, direct, role, replaced, bounds>>

\* A crash, or a write that fails: the file it was for stays as it was.
Interrupt == step # "idle" /\ End

\* The operator or a worker writes one of the documents.
Edit ==
  /\ edits < MaxEdits
  /\ edits' = edits + 1
  /\ \E path \in {<<"master_blueprint">>, <<"existing_proposal">>} :
       /\ canonical' = [canonical EXCEPT ![path] = <<"written", edits'>>]
       /\ late' = IF queue # << >> /\ Target = path THEN late \cup {<<"written", edits'>>} ELSE late
  /\ UNCHANGED <<originals, backups, manifest, direct, underway, asked, replaced, imports>>

ImportNext ==
  \/ SelectFiles \/ SelectDraft \/ Confirm \/ Decline
  \/ Read \/ KeepOriginal \/ Look \/ Freeze \/ WriteCanonical \/ AppendManifest
  \/ Interrupt \/ Edit

ImportSpec == ImportInit /\ [][ImportNext]_importVars

-----------------------------------------------------------------------------

\* What an import has overwritten is still in a backup, through any number of
\* replacements, refusals, crashes and failed writes; only a text that another
\* writer brought while that import ran may be gone.
ReplacedIsFrozen ==
  \A text \in replaced : \E place \in DOMAIN backups : backups[place] = text

\* The manifest never becomes untrue: the bytes a record names are still the
\* file it was made from, and the backup it names is still another text of the
\* same canonical path.
RecordsStayTrue ==
  manifest # Corrupt =>
    \A i \in DOMAIN manifest :
      LET r == manifest[i]
      IN  /\ r.original \in DOMAIN originals /\ originals[r.original] = r.file
          /\ r.backup # NoFile =>
               r.backup \in DOMAIN backups /\ r.backup.path = r.path /\ backups[r.backup] # NoFile
          /\ \A j \in DOMAIN manifest \ {i} :
               manifest[j].original # r.original /\ (r.backup # NoFile => manifest[j].backup # r.backup)

\* Refuted: nothing is silently overwritten; each replacement was confirmed.
\* The flag of one confirmation serves the files that follow it, and a text
\* written after the look is not looked at.
AskedBeforeReplacing ==
  [][WriteCanonical /\ Held(Target) => asked = Target]_importVars

\* Refuted: a failed import leaves the workspace untouched; the bytes of a
\* declined or failed one stay, and no record tells of them.
FailureLeavesNoTrace ==
  step = "idle" /\ manifest # Corrupt =>
    \A place \in DOMAIN originals : \E i \in DOMAIN manifest : manifest[i].original = place

\* Refuted: an empty canonical source is never fabricated.
CanonicalHoldsText == \A path \in Paths : Held(path) => Head(canonical[path]) # "pages only"

=============================================================================
