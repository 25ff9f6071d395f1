------------------------------ MODULE EdgeProofs ------------------------------
(***************************************************************************)
(* Proofs about the edges at which the application meets what it does not  *)
(* control: the engines it runs (EngineRun), the operator's files it takes *)
(* in (SourceImport) and the answers it reads (Answers).  The three share  *)
(* no state; each has its own invariant and its own specification,         *)
(* RunSpec, ImportSpec and AnswerSpec.                                     *)
(*                                                                         *)
(* EngineRun, for any number of prompts, records and session files: a      *)
(* success is verified, and a Codex thread is only resumed in its own      *)
(* workspace, whatever the child and its descendants do.                   *)
(*                                                                         *)
(* SourceImport, for every set of files and every bound: what imports      *)
(* overwrite stays in a backup, and the manifest stays true.  Its          *)
(* invariant says what an import under way already holds: the place of the *)
(* bytes it kept and of the text it froze, which no record names yet; that *)
(* the text it is about to overwrite is frozen or came too late to be      *)
(* seen; and that a place, once taken, keeps its content.                  *)
(*                                                                         *)
(* Answers, for any answers and bounds: what a parser accepts is what is   *)
(* sound as a whole, and the order of its candidates is that of the text.  *)
(***************************************************************************)
EXTENDS EngineRun, SourceImport, Answers, SequenceTheorems, FiniteSetTheorems,
        WellFoundedInduction, TLAPS

-----------------------------------------------------------------------------
(* The run of a prompt *)

\* What a child may write.
Records == {"init", "text", "result_bare", "result_0", "result_1", "result_odd", "thread",
            "message", "completed", "failed", "odd_msg", "answer", "other", "bytes"}

\* The prompt under way is one of the prompts, each with its processes.
ShapeInv ==
  /\ n \in 0..MaxPrompts /\ (pc # "idle" => n # 0)
  /\ pc \in {"idle", "waiting", "draining"}
  /\ alive = [p \in Prompts |-> alive[p]]
  /\ child \in [ended : {"no", "exited", "killed"}, code : 0..1]
  /\ stream \in Seq(Records)

\* Until it returns a prompt has no success, and its child, once it has ended, is gone.
WaitInv ==
  /\ pc # "idle" => result.outcome # "ok"
  /\ pc = "waiting" /\ child.ended = "exited" => "child" \notin alive[n]

EngineInv == ShapeInv /\ WaitInv /\ SuccessIsVerified /\ ResumeStaysHome

-----------------------------------------------------------------------------
(* The output and its result *)

\* A record that was read has its place in the output.
LEMMA RecordPlaces ==
  ASSUME NEW out \in Seq(Records)
  PROVE  DOMAIN out = 1..Len(out) /\ Range(out) = {out[i] : i \in 1..Len(out)}
BY LenProperties DEF Range

\* Hermes: the last exit code, if there is one, is no failure.
LEMMA HermesWord ==
  ASSUME NEW out \in Seq(Records), HermesOutput(out).terminal, HermesOutput(out).good
  PROVE  \E i \in 1..Len(out) :
           out[i] \in HermesResults \ {"result_1"} /\ \A j \in i..Len(out) : out[j] # "result_1"
<1> DEFINE codes == {i \in DOMAIN out : out[i] \in HermesResults \ {"result_bare"}}
<1>1. /\ Range(out) \cap HermesResults # {}
      /\ codes = {} \/ \E i \in codes : out[i] # "result_1" /\ \A j \in codes : j <= i
  BY DEF HermesOutput
<1>2. DOMAIN out = 1..Len(out) /\ Len(out) \in Nat
  BY RecordPlaces, LenProperties
<1>3. CASE codes = {}
  <2>1. PICK i \in 1..Len(out) : out[i] \in HermesResults
    BY <1>1, RecordPlaces
  <2>2. \A j \in 1..Len(out) : out[j] # "result_1"
    BY <1>2, <1>3 DEF HermesResults
  <2>3. \A j \in i..Len(out) : j \in 1..Len(out)
    BY <1>2, <2>1
  <2> QED BY <2>1, <2>2, <2>3
<1>4. ASSUME NEW i \in codes, out[i] # "result_1", \A j \in codes : j <= i
      PROVE  \A j \in i..Len(out) : out[j] # "result_1"
  <2> SUFFICES ASSUME NEW j \in i..Len(out), out[j] = "result_1" PROVE FALSE
    OBVIOUS
  <2>1. i \in 1..Len(out)
    BY <1>2
  <2>2. j \in codes /\ i \in Nat /\ j \in Nat /\ i <= j
    BY <1>2, <2>1 DEF HermesResults
  <2>3. j = i
    BY <1>4, <2>2
  <2> QED BY <1>4, <2>3
<1> QED BY <1>1, <1>2, <1>3, <1>4

\* A successful result ends in time, with code 0 and a good last word.
LEMMA OkMeans ==
  ASSUME ShapeInv, NEW code, NEW timedOut \in BOOLEAN, NEW out \in Seq(Records),
         Mapped(code, timedOut, out).outcome = "ok"
  PROVE  ~timedOut /\ code = 0 /\ (out = stream => NoLastFailure)
<1>1. CASE call.engine = "hermes"
  <2>1. Mapped(code, timedOut, out) = FromOutput(HermesOutput(out), code, timedOut)
    BY <1>1 DEF Mapped, HermesResult
  <2>2. ~timedOut /\ code = 0 /\ HermesOutput(out).terminal /\ HermesOutput(out).good
    BY <2>1 DEF FromOutput
  <2> QED BY <1>1, <2>2, HermesWord DEF NoLastFailure
<1>2. CASE call.engine = "codex"
  <2>1. Mapped(code, timedOut, out) = CodexResult(code, timedOut, out)
    BY <1>2 DEF Mapped
  <2>2. CodexResult(code, timedOut, out) = FromOutput(CodexOutput(out), code, timedOut)
    BY <2>1 DEF CodexResult, Not, NoResult
  <2>3. ~timedOut /\ code = 0 /\ CodexOutput(out).terminal /\ CodexOutput(out).good
    BY <2>1, <2>2 DEF FromOutput
  <2> QED BY <1>2, <2>3 DEF NoLastFailure, CodexOutput
<1>3. CASE call.engine # "hermes" /\ call.engine # "codex"
  <2>1. Mapped(code, timedOut, out) = GenericResult(call.mode, code, timedOut, out)
    BY <1>3 DEF Mapped
  <2>2. ~timedOut /\ GenericOutput(call.mode, out) /\ code = 0
    BY <2>1 DEF GenericResult
  <2>3. out # << >>
    <3>1. <<"answer">> # << >> /\ Range(<< >>) = {}
      BY DEF Range
    <3> QED BY <2>2, <3>1 DEF GenericOutput
  <2> QED BY <1>3, <2>2, <2>3 DEF NoLastFailure
<1> QED BY <1>1, <1>2, <1>3

-----------------------------------------------------------------------------
(* The steps *)

\* A thread that was discovered in this workspace is rooted in it.
LEMMA DiscoveredIsHome ==
  ASSUME NEW store, NEW id, id \in Discovered(store) PROVE RootedHere(store, id)
BY DEF Discovered, Heads, RootedHere

\* A prompt is refused, or launched where it belongs.
LEMMA DispatchStep ==
  ASSUME EngineInv, Dispatch PROVE EngineInv'
<1>1. n' = n + 1 /\ n' \in Prompts /\ n' \in 0..MaxPrompts /\ n' # 0
  BY EngineAssumption DEF Dispatch, EngineInv, ShapeInv, Prompts
<1>2. PICK c \in Requests : \E store \in StoresFor(c) :
        /\ call' = [c EXCEPT !.atHome = ~c.resume \/ RootedHere(store, 1)]
        /\ CASE Refuses(c)                 -> Refused(Not("blocked"))
             [] Breaks(c)                  -> Refused(Not("raised"))
             [] ResumeRefused(c, store, 1) -> Refused(Not("failed"))
             [] c.flaw = "empty_prompt"    -> Refused(Not("raised"))
             [] ArgvRefused(c)             -> Refused([Not("failed") EXCEPT !.started = Started])
             [] OTHER                      -> Launch(c)
  BY DEF Dispatch
<1>3. PICK store \in StoresFor(c) :
        /\ call' = [c EXCEPT !.atHome = ~c.resume \/ RootedHere(store, 1)]
        /\ CASE Refuses(c)                 -> Refused(Not("blocked"))
             [] Breaks(c)                  -> Refused(Not("raised"))
             [] ResumeRefused(c, store, 1) -> Refused(Not("failed"))
             [] c.flaw = "empty_prompt"    -> Refused(Not("raised"))
             [] ArgvRefused(c)             -> Refused([Not("failed") EXCEPT !.started = Started])
             [] OTHER                      -> Launch(c)
  BY <1>2
<1>4. /\ call'.engine = c.engine
      /\ call'.atHome = (~c.resume \/ RootedHere(store, 1))
  BY <1>3 DEF Requests
<1>5. stream' \in Seq(Records) /\ alive = [p \in Prompts |-> alive[p]]
      /\ child \in [ended : {"no", "exited", "killed"}, code : 0..1]
  <2>1. stream' = << >>
    BY <1>3 DEF Refused, Launch
  <2> QED BY <2>1, EmptySeq DEF EngineInv, ShapeInv
<1>6. CASE Launch(c) /\ ~ResumeRefused(c, store, 1)
  <2>1. call'.engine = "codex" => call'.atHome
    BY <1>4, <1>6, DiscoveredIsHome DEF ResumeRefused
  <2>2. ResumeStaysHome'
    BY <2>1 DEF ResumeStaysHome
  <2>3. /\ child' = [ended |-> "no", code |-> 0] /\ pc' \in {"idle", "waiting"}
        /\ result' \in {Not("raised"), NoResult}
        /\ alive' = alive \/ alive' = [alive EXCEPT ![n'] = {"child"}]
    BY <1>6 DEF Launch
  <2>4. result'.outcome # "ok"
    BY <2>3 DEF Not, NoResult
  <2>5. ShapeInv'
    BY <1>1, <1>5, <2>3 DEF ShapeInv
  <2>6. WaitInv' /\ SuccessIsVerified'
    BY <2>3, <2>4 DEF WaitInv, SuccessIsVerified
  <2> QED BY <2>2, <2>5, <2>6 DEF EngineInv
<1>7. ASSUME NEW r \in {Not("blocked"), Not("raised"), Not("failed"),
                        [Not("failed") EXCEPT !.started = Started]}, Refused(r)
      PROVE  EngineInv'
  <2>1. r.outcome # "ok"
    BY DEF Not, NoResult
  <2>2. pc' = "idle" /\ result'.outcome # "ok" /\ UNCHANGED <<child, alive>>
    BY <1>7, <2>1 DEF Refused
  <2>3. ShapeInv'
    BY <1>1, <1>5, <2>2 DEF ShapeInv
  <2>4. WaitInv' /\ SuccessIsVerified' /\ ResumeStaysHome'
    BY <2>2 DEF WaitInv, SuccessIsVerified, ResumeStaysHome
  <2> QED BY <2>3, <2>4 DEF EngineInv
<1> QED BY <1>3, <1>6, <1>7

\* While a prompt is under way it has no success to lose.
LEMMA ProcessStep ==
  ASSUME EngineInv, Write \/ Spawn \/ ChildEnds PROVE EngineInv'
<1>1. pc = "waiting" /\ UNCHANGED <<pc, n, call, result>> /\ result.outcome # "ok"
  BY DEF Write, Spawn, ChildEnds, EngineInv, WaitInv
<1>2. n \in Prompts
  BY <1>1, EngineAssumption DEF EngineInv, ShapeInv, Prompts
<1>3. /\ alive' = [p \in Prompts |-> alive'[p]]
      /\ \A k : k \in alive'[n] /\ k \notin alive[n] => k # "child"
  <2>1. alive = [p \in Prompts |-> alive[p]]
    BY DEF EngineInv, ShapeInv
  <2>2. CASE Write
    BY <2>1, <2>2 DEF Write
  <2>3. CASE Spawn
    BY <1>2, <2>1, <2>3 DEF Spawn
  <2>4. CASE ChildEnds
    BY <1>2, <2>1, <2>4 DEF ChildEnds
  <2> QED BY <2>2, <2>3, <2>4
<1>4. stream' \in Seq(Records)
  <2>1. stream \in Seq(Records)
    BY DEF EngineInv, ShapeInv
  <2>2. CASE Write
    <3>1. PICK r \in Written(call) \cup {"bytes"} : stream' = Append(stream, r)
      BY <2>2 DEF Write
    <3>2. r \in Records
      BY DEF Written, Records
    <3> QED BY <2>1, <3>1, <3>2, AppendProperties
  <2> QED BY <2>1, <2>2 DEF Spawn, ChildEnds
<1>5. /\ child' \in [ended : {"no", "exited", "killed"}, code : 0..1]
      /\ child'.ended = "exited" => "child" \notin alive'[n]
  <2>1. /\ child \in [ended : {"no", "exited", "killed"}, code : 0..1]
        /\ child.ended = "exited" => "child" \notin alive[n]
        /\ alive = [p \in Prompts |-> alive[p]]
    BY <1>1 DEF EngineInv, ShapeInv, WaitInv
  <2>2. CASE ChildEnds
    <3>1. "child" \notin alive'[n]
      BY <1>2, <2>1, <2>2 DEF ChildEnds
    <3> QED BY <2>2, <3>1 DEF ChildEnds
  <2> QED BY <1>3, <2>1, <2>2 DEF Write, Spawn
<1>6. ShapeInv'
  BY <1>1, <1>3, <1>4, <1>5 DEF EngineInv, ShapeInv
<1>7. WaitInv' /\ SuccessIsVerified' /\ ResumeStaysHome'
  BY <1>1, <1>5 DEF EngineInv, WaitInv, SuccessIsVerified, ResumeStaysHome
<1> QED BY <1>6, <1>7 DEF EngineInv

\* A stray process that ends writes nothing any more.
LEMMA StrayStep ==
  ASSUME EngineInv, StrayEnds PROVE EngineInv'
<1>1. UNCHANGED <<pc, n, call, child, stream, launched, result>>
  BY DEF StrayEnds
<1>2. alive = [p \in Prompts |-> alive[p]]
  BY DEF EngineInv, ShapeInv
<1>3. PICK p \in Prompts : \E k : alive' = [alive EXCEPT ![p] = @ \ {k}]
  BY DEF StrayEnds
<1>4. alive' = [q \in Prompts |-> alive'[q]] /\ alive'[n] \subseteq alive[n]
  <2>1. PICK k : alive' = [alive EXCEPT ![p] = @ \ {k}]
    BY <1>3
  <2>2. alive' = [q \in Prompts |-> alive'[q]]
    BY <1>2, <2>1
  <2>3. CASE n \in Prompts
    BY <1>2, <2>1, <2>3
  <2>4. CASE n \notin Prompts
    BY <1>2, <2>1, <2>4
  <2> QED BY <2>2, <2>3, <2>4
<1>5. ShapeInv' /\ ResumeStaysHome'
  BY <1>1, <1>4 DEF EngineInv, ShapeInv, ResumeStaysHome
<1>6. WaitInv'
  BY <1>1, <1>4 DEF EngineInv, WaitInv
<1>7. SuccessIsVerified'
  BY <1>1, <1>4 DEF EngineInv, SuccessIsVerified, NoLastFailure
<1> QED BY <1>5, <1>6, <1>7 DEF EngineInv


\* A result whose time is up is no success.
LEMMA LateStep ==
  ASSUME EngineInv, Expire \/ Drained \/ GiveUp PROVE EngineInv'
<1>1. n \in Prompts /\ pc # "idle" /\ UNCHANGED <<n, call, stream>>
      /\ ShapeInv
  <2>1. ShapeInv
    BY DEF EngineInv
  <2>2. pc # "idle" /\ UNCHANGED <<n, call, stream>>
    BY DEF Expire, Drained, GiveUp, Returned
  <2> QED BY <2>1, <2>2, EngineAssumption DEF ShapeInv, Prompts
<1>2. CASE Expire
  <2>1. /\ pc' = "draining" /\ UNCHANGED result /\ result.outcome # "ok"
    BY <1>1, <1>2 DEF Expire, EngineInv, WaitInv
  <2>2. child' \in [ended : {"no", "exited", "killed"}, code : 0..1]
    BY <1>1, <1>2 DEF Expire, ShapeInv
  <2>3. alive' = [p \in Prompts |-> alive'[p]]
    BY <1>1, <1>2 DEF Expire, ShapeInv
  <2>4. ShapeInv'
    BY <1>1, <2>1, <2>2, <2>3 DEF ShapeInv
  <2>5. WaitInv' /\ SuccessIsVerified'
    BY <2>1 DEF WaitInv, SuccessIsVerified
  <2>6. ResumeStaysHome'
    BY <1>1 DEF EngineInv, ResumeStaysHome
  <2> QED BY <2>4, <2>5, <2>6 DEF EngineInv
<1>3. CASE Drained \/ GiveUp
  <2>1. PICK out \in {stream, << >>} :
          pc' = "idle" /\ result' = Mapped(1, TRUE, out) /\ UNCHANGED <<child, alive>>
    BY <1>3 DEF Drained, GiveUp, Returned
  <2>2. out \in Seq(Records)
    BY <1>1, <2>1, EmptySeq DEF ShapeInv
  <2>3. result'.outcome # "ok"
    BY <1>1, <2>1, <2>2, OkMeans
  <2>4. ShapeInv'
    BY <1>1, <2>1 DEF ShapeInv
  <2>5. WaitInv' /\ SuccessIsVerified' /\ ResumeStaysHome'
    BY <2>1, <2>3 DEF WaitInv, SuccessIsVerified, ResumeStaysHome
  <2> QED BY <2>4, <2>5 DEF EngineInv
<1> QED BY <1>2, <1>3

\* The output was read to its end: the child is gone, and whoever held its pipe.
LEMMA ReadStep ==
  ASSUME EngineInv, ReadToEnd PROVE EngineInv'
<1>1. /\ pc = "waiting" /\ child.ended = "exited" /\ "holder" \notin alive[n]
      /\ pc' = "idle" /\ UNCHANGED <<n, call, child, alive, stream>>
      /\ result' = IF "bytes" \in Range(stream) THEN Not("raised")
                   ELSE Mapped(child.code, FALSE, stream)
  BY DEF ReadToEnd, Returned
<1>2. ShapeInv /\ "child" \notin alive[n]
  BY <1>1 DEF EngineInv, WaitInv
<1>3. SuccessIsVerified'
  <2> SUFFICES ASSUME result'.outcome = "ok"
               PROVE  /\ child = [ended |-> "exited", code |-> 0]
                      /\ alive[n] \cap {"child", "holder"} = {}
                      /\ "bytes" \notin Range(stream)
                      /\ NoLastFailure'
    BY <1>1 DEF SuccessIsVerified
  <2>1. "bytes" \notin Range(stream) /\ Mapped(child.code, FALSE, stream).outcome = "ok"
    BY <1>1 DEF Not, NoResult
  <2>2. child.code = 0 /\ NoLastFailure
    BY <1>2, <2>1, OkMeans DEF ShapeInv
  <2>3. child = [ended |-> "exited", code |-> 0]
    BY <1>1, <1>2, <2>2 DEF ShapeInv
  <2>4. NoLastFailure'
    BY <1>1, <2>2 DEF NoLastFailure
  <2> QED BY <1>1, <1>2, <2>1, <2>3, <2>4
<1>4. ShapeInv'
  BY <1>1, <1>2 DEF ShapeInv
<1>5. WaitInv' /\ ResumeStaysHome'
  BY <1>1 DEF WaitInv, ResumeStaysHome
<1> QED BY <1>3, <1>4, <1>5 DEF EngineInv

-----------------------------------------------------------------------------
(* The theorems *)

\* Before the first prompt.
LEMMA RunInitOK ==
  ASSUME RunInit PROVE EngineInv
<1>1. /\ n = 0 /\ pc = "idle" /\ alive = [p \in Prompts |-> {}] /\ stream = << >>
      /\ child = [ended |-> "no", code |-> 0] /\ result = NoResult
  BY DEF RunInit
<1>2. ShapeInv
  BY <1>1, EngineAssumption, EmptySeq DEF ShapeInv
<1>3. WaitInv /\ SuccessIsVerified /\ ResumeStaysHome
  BY <1>1 DEF WaitInv, SuccessIsVerified, ResumeStaysHome, NoResult
<1> QED BY <1>2, <1>3 DEF EngineInv

\* Every step of the runner, the child and the executor keeps it.
LEMMA RunNextOK ==
  ASSUME EngineInv, [RunNext]_runVars PROVE EngineInv'
<1>1. CASE RunNext
  BY <1>1, DispatchStep, ProcessStep, StrayStep, LateStep, ReadStep DEF RunNext, Runner
<1>2. CASE UNCHANGED runVars
  <2>1. UNCHANGED <<pc, n, call, child, alive, stream, launched, result>>
    BY <1>2 DEF runVars
  <2>2. ShapeInv' /\ WaitInv'
    BY <2>1 DEF EngineInv, ShapeInv, WaitInv
  <2>3. SuccessIsVerified' /\ ResumeStaysHome'
    BY <2>1 DEF EngineInv, SuccessIsVerified, NoLastFailure, ResumeStaysHome
  <2> QED BY <2>2, <2>3 DEF EngineInv
<1> QED BY <1>1, <1>2

\* The invariant holds of every reachable state.
THEOREM EngineInvariance == RunSpec => []EngineInv
<1>1. RunInit => EngineInv
  BY RunInitOK
<1>2. EngineInv /\ [RunNext]_runVars => EngineInv'
  BY RunNextOK
<1> QED BY <1>1, <1>2, PTL DEF RunSpec

\* A prompt is reported as successful only when its child ended by itself with
\* code 0, nobody can add to its output, all of it was read, and the engine's
\* own last word on the run is no failure.
THEOREM SuccessCorrect == RunSpec => []SuccessIsVerified
<1>1. EngineInv => SuccessIsVerified
  BY DEF EngineInv
<1> QED BY <1>1, EngineInvariance, PTL

\* No Codex thread of another workspace is ever prompted, whatever the session
\* files hold and however many of them there are.
THEOREM ResumeCorrect == RunSpec => []ResumeStaysHome
<1>1. EngineInv => ResumeStaysHome
  BY DEF EngineInv
<1> QED BY <1>1, EngineInvariance, PTL

-----------------------------------------------------------------------------
(* The import of a file *)

Names == {f.name : f \in Files}
Dirs == {"SOURCE_OF_TRUTH", "OFFICIAL"}
Kept == [dir : Dirs, name : Names, copy : 1..MaxCopies]
Frozen == [dir : Dirs, path : Paths, copy : 1..MaxCopies]
ManifestRecords == [file : Files, path : Paths, original : Kept, backup : Frozen \cup {NoFile}]

\* The call of import_source, and the shape of the files.
CallInv ==
  /\ role \in Roles /\ queue \in Seq(Files) /\ (step # "idle" => queue # << >>)
  /\ kept \in 0..MaxCopies /\ frozen \in 0..MaxCopies /\ edits \in Nat
  /\ canonical = [p \in Paths |-> canonical[p]]
  /\ manifest = Corrupt \/ manifest \in Seq(ManifestRecords)

\* Where this import put the bytes, and the text that stood in its way.
KeptPlace   == [dir |-> Dir, name |-> Current.name, copy |-> kept]
FrozenPlace == [dir |-> Dir, path |-> Target, copy |-> frozen]

\* The bytes are kept at a place of their own.
KeptInv ==
  step \in {"look", "freeze", "write", "record"} =>
    /\ kept # 0 /\ KeptPlace \in DOMAIN originals /\ originals[KeptPlace] = Current
    /\ manifest # Corrupt => \A i \in DOMAIN manifest : manifest[i].original # KeptPlace

\* The old text is frozen, at a place of its own too, before it is overwritten.
FrozenInv ==
  /\ step \in {"read", "keep", "look", "freeze"} => frozen = 0
  /\ step = "freeze" => Held(Target)
  /\ step \in {"write", "record"} /\ frozen # 0 =>
       /\ FrozenPlace \in DOMAIN backups /\ backups[FrozenPlace] # NoFile
       /\ manifest # Corrupt => \A i \in DOMAIN manifest :
            manifest[i].backup # NoFile => manifest[i].backup # FrozenPlace
  /\ step = "write" /\ Held(Target) /\ canonical[Target] \notin late =>
       \E place \in DOMAIN backups : backups[place] = canonical[Target]

ImportInv == CallInv /\ KeptInv /\ FrozenInv /\ ReplacedIsFrozen /\ RecordsStayTrue

-----------------------------------------------------------------------------
(* Names and places *)

\* _free_name finds a name that is free, or none.
LEMMA FreeIsFree ==
  ASSUME NEW taken
  PROVE  FreeCopy(taken) \in 0..MaxCopies
         /\ (FreeCopy(taken) # 0 => FreeCopy(taken) \in (1..MaxCopies) \ taken)
<1> DEFINE free == (1..MaxCopies) \ taken
<1>0. MaxCopies \in Nat
  BY ImportAssumption
<1>1. CASE free = {}
  BY <1>0, <1>1 DEF FreeCopy
<1>2. CASE free # {}
  <2>1. free \in SUBSET Nat
    OBVIOUS
  <2>2. PICK x \in free : \A y \in free : ~(<<y, x>> \in OpToRel(<, Nat))
    BY <1>2, <2>1, NatLessThanWellFounded, WFMin
  <2>3. OpToRel(<, Nat) = {ss \in Nat \X Nat : ss[1] < ss[2]}
    BY DEF OpToRel
  <2>4. ASSUME NEW y \in free, y < x PROVE FALSE
    <3>1. <<y, x>> \in OpToRel(<, Nat)
      BY <2>1, <2>3, <2>4
    <3> QED BY <2>2, <2>4, <3>1
  <2>5. \A y \in free : x <= y
    BY <2>4
  <2>6. Min(free) \in free
    <3> HIDE DEF free
    <3> QED BY <2>5 DEF Min
  <2> QED BY <1>0, <1>2, <2>6 DEF FreeCopy
<1> QED BY <1>1, <1>2

\* The file under import has a canonical path and a directory.
LEMMA CurrentHasPlace ==
  ASSUME CallInv, step # "idle"
  PROVE  Current \in Files /\ Target \in Paths /\ Dir \in Dirs /\ Current.name \in Names
<1>1. Current \in Files
  BY DEF CallInv, Current
<1>2. Target \in Paths
  BY <1>1 DEF CallInv, Target, Paths
<1>3. Dir \in Dirs
  BY DEF CallInv, Dir, Dirs, ImportsDir, Roles
<1> QED BY <1>1, <1>2, <1>3 DEF Names

\* The end of an import, wherever it comes, leaves the files as they are.
LEMMA EndStep ==
  ASSUME ImportInv, End PROVE ImportInv'
<1>1. CallInv'
  BY ImportAssumption DEF ImportInv, CallInv, End, files, bounds
<1>2. KeptInv' /\ FrozenInv'
  BY DEF End, KeptInv, FrozenInv
<1>3. ReplacedIsFrozen' /\ RecordsStayTrue'
  BY DEF ImportInv, End, files, ReplacedIsFrozen, RecordsStayTrue
<1> QED BY <1>1, <1>2, <1>3 DEF ImportInv

\* Nothing is written, and the import of the current file goes on as before.
LEMMA FilesKept ==
  ASSUME ImportInv, UNCHANGED <<files, replaced>> PROVE ReplacedIsFrozen' /\ RecordsStayTrue'
BY DEF ImportInv, files, ReplacedIsFrozen, RecordsStayTrue

-----------------------------------------------------------------------------
(* The steps *)

\* A selection, a confirmed replacement: the import starts over with nothing kept.
LEMMA EnterStep ==
  ASSUME ImportInv, SelectFiles \/ SelectDraft \/ Confirm PROVE ImportInv'
<1>0. MaxCopies \in Nat
  BY ImportAssumption
<1>1. /\ UNCHANGED <<files, replaced>> /\ UNCHANGED edits
      /\ step' = "asking" \/ Enter
  BY DEF SelectFiles, SelectDraft, Confirm, Import, Enter, bounds
<1>2. /\ role' \in Roles /\ queue' \in Seq(Files) /\ queue' # << >>
      /\ kept' \in 0..MaxCopies /\ frozen' \in 0..MaxCopies
  <2>1. CASE SelectFiles
    <3>r. PICK r \in Roles \ {"existing_proposal"} :
            \E selection \in IF r = "official_document" THEN SeqOf(Files, 2) \ {<< >>}
                             ELSE {<<f>> : f \in Files} : Import(r, selection) /\ Enter
      BY <2>1 DEF SelectFiles
    <3>1. PICK selection \in IF r = "official_document" THEN SeqOf(Files, 2) \ {<< >>}
                             ELSE {<<f>> : f \in Files} : Import(r, selection) /\ Enter
      BY <3>r
    <3>2. selection \in Seq(Files) /\ selection # << >>
      <4>1. CASE selection \in SeqOf(Files, 2) \ {<< >>}
        <5>1. PICK size \in 0..2 : selection \in [1..size -> Files]
          BY <4>1 DEF SeqOf
        <5> QED BY <4>1, <5>1, SeqDef
      <4>2. CASE selection \in {<<f>> : f \in Files}
        <5>1. PICK f \in Files : selection = <<f>>
          BY <4>2
        <5> QED BY <5>1
      <4> QED BY <3>1, <4>1, <4>2
    <3> QED BY <1>0, <3>1, <3>2 DEF Import, Enter
  <2>2. CASE SelectDraft
    <3>1. PICK f \in Files :
            /\ Import("existing_proposal", <<f>>)
            /\ (step' = "asking" /\ UNCHANGED <<kept, frozen>>) \/ Enter
      BY <2>2 DEF SelectDraft
    <3>2. <<f>> \in Seq(Files) /\ <<f>> # << >> /\ "existing_proposal" \in Roles
      BY DEF Roles, ImportsDir
    <3> QED BY <1>0, <3>1, <3>2 DEF Import, Enter, ImportInv, CallInv
  <2>3. CASE Confirm
    BY <1>0, <2>3 DEF Confirm, Enter, ImportInv, CallInv
  <2> QED BY <2>1, <2>2, <2>3
<1>3. CallInv'
  BY <1>1, <1>2 DEF ImportInv, CallInv, files
<1>4. KeptInv' /\ FrozenInv'
  BY <1>1 DEF Enter, KeptInv, FrozenInv
<1>5. ReplacedIsFrozen' /\ RecordsStayTrue'
  BY <1>1, FilesKept
<1> QED BY <1>3, <1>4, <1>5 DEF ImportInv

\* A file that can be read is kept next; Look decides what becomes of the text.
LEMMA GoStep ==
  ASSUME ImportInv, Read \/ Look PROVE ImportInv'
<1>1. CASE End
  BY <1>1, EndStep
<1>2. CASE ~End
  <2>1. PICK to \in {"keep", "write", "freeze", "asking"} :
          /\ Go(to) /\ (to = "keep" => step = "read") /\ (to # "keep" => step = "look")
          /\ (to = "write" => ~Held(Target)) /\ (to = "freeze" => Held(Target))
    BY <1>2 DEF Read, Look
  <2>2. /\ UNCHANGED <<files, replaced, role, queue, kept, frozen, edits>> /\ step' = to
        /\ late' = {} /\ step # "idle"
    BY <2>1 DEF Go, bounds
  <2>3. CallInv'
    BY <2>1, <2>2 DEF ImportInv, CallInv, files
  <2>4. KeptPlace' = KeptPlace /\ Current' = Current /\ Target' = Target /\ (Held(Target)' <=> Held(Target))
    BY <2>2 DEF KeptPlace, Current, Target, Dir, Held, files
  <2>5. KeptInv'
    BY <2>1, <2>2, <2>4 DEF ImportInv, KeptInv, files
  <2>6. FrozenInv'
    BY <2>1, <2>2, <2>4 DEF ImportInv, FrozenInv
  <2> QED BY <2>2, <2>3, <2>5, <2>6, FilesKept DEF ImportInv
<1> QED BY <1>1, <1>2

\* The bytes are preserved under a name that no file has.
LEMMA KeepStep ==
  ASSUME ImportInv, KeepOriginal PROVE ImportInv'
<1>1. CASE End
  BY <1>1, EndStep
<1>2. CASE ~End
  <2>1. PICK copy : copy = FreeCopy({k \in 1..MaxCopies :
                             [dir |-> Dir, name |-> Current.name, copy |-> k] \in DOMAIN originals})
    OBVIOUS
  <2>2. PICK place : place = [dir |-> Dir, name |-> Current.name, copy |-> copy]
    OBVIOUS
  <2>3. /\ copy # 0 /\ kept' = copy /\ step = "keep" /\ step' = "look"
        /\ originals' = [p \in DOMAIN originals \cup {place} |->
                           IF p = place THEN Current ELSE originals[p]]
        /\ UNCHANGED <<canonical, backups, manifest, role, queue, frozen, late, replaced, edits>>
    BY <1>2, <2>1, <2>2 DEF KeepOriginal, history, bounds
  <2>4. copy \in 1..MaxCopies /\ place \notin DOMAIN originals
    BY <2>1, <2>2, <2>3, FreeIsFree
  <2>5. CallInv'
    BY <2>3, <2>4 DEF ImportInv, CallInv
  <2>6. /\ KeptPlace' = place /\ Current' = Current /\ place \in DOMAIN originals'
        /\ originals'[place] = Current
        /\ \A p \in DOMAIN originals : p \in DOMAIN originals' /\ originals'[p] = originals[p]
    BY <2>2, <2>3, <2>4 DEF KeptPlace, Current, Dir
  <2>7. KeptInv'
    <3>1. manifest # Corrupt => \A i \in DOMAIN manifest : manifest[i].original # place
      BY <2>4 DEF ImportInv, RecordsStayTrue
    <3> QED BY <2>3, <2>6, <3>1 DEF KeptInv
  <2>8. FrozenInv' /\ ReplacedIsFrozen'
    BY <2>3 DEF ImportInv, FrozenInv, ReplacedIsFrozen
  <2>9. RecordsStayTrue'
    BY <2>3, <2>6 DEF ImportInv, RecordsStayTrue
  <2> QED BY <2>5, <2>7, <2>8, <2>9 DEF ImportInv
<1> QED BY <1>1, <1>2

\* The text that is about to be overwritten is frozen under a name of its own.
LEMMA FreezeStep ==
  ASSUME ImportInv, Freeze PROVE ImportInv'
<1>1. CASE End
  BY <1>1, EndStep
<1>2. CASE ~End
  <2>1. PICK copy : copy = FreeCopy({k \in 1..MaxCopies :
                             [dir |-> Dir, path |-> Target, copy |-> k] \in DOMAIN backups})
    OBVIOUS
  <2>2. PICK place : place = [dir |-> Dir, path |-> Target, copy |-> copy]
    OBVIOUS
  <2>3. /\ copy # 0 /\ frozen' = copy /\ step = "freeze" /\ step' = "write"
        /\ backups' = [p \in DOMAIN backups \cup {place} |->
                         IF p = place THEN canonical[Target] ELSE backups[p]]
        /\ UNCHANGED <<originals, canonical, manifest, role, queue, kept, replaced, edits>>
    BY <1>2, <2>1, <2>2 DEF Freeze, bounds
  <2>4. copy \in 1..MaxCopies /\ place \notin DOMAIN backups
    BY <2>1, <2>2, <2>3, FreeIsFree
  <2>5. CallInv'
    BY <2>3, <2>4 DEF ImportInv, CallInv
  <2>6. /\ FrozenPlace' = place /\ Target' = Target /\ KeptPlace' = KeptPlace /\ Current' = Current
        /\ place \in DOMAIN backups' /\ backups'[place] = canonical[Target]
        /\ \A p \in DOMAIN backups : p \in DOMAIN backups' /\ backups'[p] = backups[p]
    BY <2>2, <2>3, <2>4 DEF FrozenPlace, KeptPlace, Current, Target, Dir
  <2>7. KeptInv'
    BY <2>3, <2>6 DEF ImportInv, KeptInv
  <2>8. FrozenInv'
    <3>1. manifest # Corrupt => \A i \in DOMAIN manifest :
            manifest[i].backup # NoFile => manifest[i].backup # place
      BY <2>4 DEF ImportInv, RecordsStayTrue
    <3>2. backups'[place] # NoFile
      BY <2>3, <2>6 DEF ImportInv, FrozenInv, Held
    <3> QED BY <2>3, <2>6, <3>1, <3>2 DEF FrozenInv
  <2>9. ReplacedIsFrozen' /\ RecordsStayTrue'
    BY <2>3, <2>6 DEF ImportInv, ReplacedIsFrozen, RecordsStayTrue
  <2> QED BY <2>5, <2>7, <2>8, <2>9 DEF ImportInv
<1> QED BY <1>1, <1>2

\* What is overwritten is in a backup, or came after the last look.
LEMMA WriteStep ==
  ASSUME ImportInv, WriteCanonical PROVE ImportInv'
<1>1. /\ step = "write" /\ step' = "record"
      /\ canonical' = [canonical EXCEPT ![Target] = Extracted(Current)]
      /\ UNCHANGED <<originals, backups, manifest, role, queue, kept, frozen, edits>>
  BY DEF WriteCanonical, bounds
<1>2. CallInv'
  BY <1>1 DEF ImportInv, CallInv
<1>3. KeptPlace' = KeptPlace /\ Current' = Current /\ FrozenPlace' = FrozenPlace
  BY <1>1 DEF KeptPlace, FrozenPlace, Current, Target, Dir
<1>4. KeptInv' /\ FrozenInv'
  BY <1>1, <1>3 DEF ImportInv, KeptInv, FrozenInv
<1>5. ReplacedIsFrozen'
  BY <1>1 DEF ImportInv, FrozenInv, ReplacedIsFrozen, WriteCanonical
<1>6. RecordsStayTrue'
  BY <1>1 DEF ImportInv, RecordsStayTrue
<1> QED BY <1>2, <1>4, <1>5, <1>6 DEF ImportInv

\* The record names the bytes and the backup of this import, which no other names.
LEMMA AppendStep ==
  ASSUME ImportInv, AppendManifest PROVE ImportInv'
<1>1. CASE End
  BY <1>1, EndStep
<1>2. CASE ~End
  <2>1. PICK r : r = Record
    OBVIOUS
  <2>2. /\ step = "record" /\ manifest # Corrupt /\ manifest' = Append(manifest, r)
        /\ queue' = Tail(queue) /\ kept' = 0 /\ frozen' = 0
        /\ \/ Len(queue) > 1 /\ step' = "read"
           \/ step' = "idle"
        /\ UNCHANGED <<originals, canonical, backups, role, replaced, edits>>
    BY <1>2, <2>1 DEF AppendManifest, bounds
  <2>3. /\ r.file = Current /\ r.path = Target /\ r.original = KeptPlace
        /\ r.backup = (IF frozen = 0 THEN NoFile ELSE FrozenPlace) /\ FrozenPlace.path = Target
    BY <2>1 DEF Record, KeptPlace, FrozenPlace
  <2>4. r \in ManifestRecords /\ manifest \in Seq(ManifestRecords)
    BY <2>1, <2>2, CurrentHasPlace
       DEF ImportInv, CallInv, KeptInv, Record, ManifestRecords, Kept, Frozen
  <2>5. /\ Len(manifest) \in Nat /\ DOMAIN manifest' = DOMAIN manifest \cup {Len(manifest) + 1}
        /\ manifest'[Len(manifest) + 1] = r /\ DOMAIN manifest = 1..Len(manifest)
        /\ \A i \in DOMAIN manifest : manifest'[i] = manifest[i]
    BY <2>2, <2>4
  <2>6. CallInv'
    <3>1. manifest' \in Seq(ManifestRecords)
      BY <2>2, <2>4
    <3>2. queue' \in Seq(Files) /\ (step' # "idle" => queue' # << >>)
      <4>1. queue \in Seq(Files) /\ queue # << >> /\ queue' = Tail(queue)
        BY <2>2 DEF ImportInv, CallInv
      <4>2. queue' \in Seq(Files) /\ Len(queue') = Len(queue) - 1 /\ Len(queue) \in Nat
        BY <4>1, HeadTailProperties
      <4>3. Len(queue) > 1 => queue' # << >>
        BY <4>2
      <4> QED BY <2>2, <4>2, <4>3
    <3> QED BY <2>2, <3>1, <3>2, ImportAssumption DEF ImportInv, CallInv
  <2>7. KeptInv' /\ FrozenInv'
    BY <2>2 DEF KeptInv, FrozenInv
  <2>8. /\ r.original \in DOMAIN originals /\ originals[r.original] = r.file
        /\ r.backup # NoFile =>
             r.backup \in DOMAIN backups /\ r.backup.path = r.path /\ backups[r.backup] # NoFile
        /\ \A i \in DOMAIN manifest :
             /\ manifest[i].original # r.original
             /\ r.backup # NoFile => manifest[i].backup # r.backup
    BY <2>2, <2>3 DEF ImportInv, KeptInv, FrozenInv
  <2>9. RecordsStayTrue'
    BY <2>2, <2>5, <2>8 DEF ImportInv, RecordsStayTrue
  <2>10. ReplacedIsFrozen'
    BY <2>2 DEF ImportInv, ReplacedIsFrozen
  <2> QED BY <2>6, <2>7, <2>9, <2>10 DEF ImportInv
<1> QED BY <1>1, <1>2

\* Another writer brings a text: one that no import has seen.
LEMMA EditStep ==
  ASSUME ImportInv, Edit PROVE ImportInv'
<1>0. PICK text : text = <<"written", edits + 1>>
  OBVIOUS
<1>1. PICK path \in {<<"master_blueprint">>, <<"existing_proposal">>} :
        /\ text = <<"written", edits + 1>> /\ edits' = edits + 1
        /\ canonical' = [canonical EXCEPT ![path] = text]
        /\ late' = IF queue # << >> /\ Target = path THEN late \cup {text} ELSE late
        /\ UNCHANGED <<originals, backups, manifest, underway, replaced>>
  BY <1>0 DEF Edit
<1>2. text # NoFile
  BY <1>1, ImportAssumption DEF ImportInv, CallInv
<1>3. CallInv'
  <2>1. canonical' = [p \in Paths |-> canonical'[p]]
    <3>1. canonical = [p \in Paths |-> canonical[p]] /\ canonical' = [canonical EXCEPT ![path] = text]
      BY <1>1 DEF ImportInv, CallInv
    <3> QED BY <3>1
  <2>2. edits' \in Nat
    BY <1>1 DEF ImportInv, CallInv
  <2> QED BY <1>1, <2>1, <2>2 DEF ImportInv, CallInv, underway
<1>4. KeptPlace' = KeptPlace /\ Current' = Current /\ FrozenPlace' = FrozenPlace /\ Target' = Target
  BY <1>1 DEF underway, KeptPlace, FrozenPlace, Current, Target, Dir
<1>5. KeptInv'
  BY <1>1, <1>4 DEF ImportInv, KeptInv, underway
<1>6. ASSUME step \in {"freeze", "write"}
      PROVE  /\ Held(Target) => Held(Target)'
             /\ Held(Target)' /\ canonical'[Target] \notin late' =>
                  /\ Held(Target) /\ canonical'[Target] = canonical[Target]
                  /\ canonical[Target] \notin late
  <2>1. queue # << >> /\ Target \in Paths
    BY <1>6, CurrentHasPlace DEF ImportInv, CallInv
  <2>2. CASE Target = path
    <3>1. canonical'[Target] = text /\ text \in late'
      BY <1>1, <2>1, <2>2 DEF ImportInv, CallInv
    <3> QED BY <1>2, <1>4, <3>1 DEF Held
  <2>3. CASE Target # path
    <3>1. canonical'[Target] = canonical[Target] /\ late' = late
      BY <1>1, <2>1, <2>3 DEF ImportInv, CallInv
    <3> QED BY <1>4, <3>1 DEF Held
  <2> QED BY <2>2, <2>3
<1>7. FrozenInv'
  BY <1>1, <1>4, <1>6 DEF ImportInv, FrozenInv, underway
<1>8. ReplacedIsFrozen' /\ RecordsStayTrue'
  BY <1>1 DEF ImportInv, ReplacedIsFrozen, RecordsStayTrue
<1> QED BY <1>3, <1>5, <1>7, <1>8 DEF ImportInv

-----------------------------------------------------------------------------
(* The theorems *)

\* An empty workspace holds it.
LEMMA ImportInitOK ==
  ASSUME ImportInit PROVE ImportInv
<1>1. CallInv
  <2>1. role \in Roles /\ queue \in Seq(Files) /\ step = "idle"
    BY DEF ImportInit, Roles, ImportsDir
  <2>2. canonical = [p \in Paths |-> canonical[p]]
    BY DEF ImportInit
  <2>3. manifest = Corrupt \/ manifest \in Seq(ManifestRecords)
    BY EmptySeq DEF ImportInit
  <2>4. kept \in 0..MaxCopies /\ frozen \in 0..MaxCopies /\ edits \in Nat
    BY ImportAssumption DEF ImportInit
  <2> QED BY <2>1, <2>2, <2>3, <2>4 DEF CallInv
<1>2. KeptInv /\ FrozenInv /\ ReplacedIsFrozen
  BY DEF ImportInit, KeptInv, FrozenInv, ReplacedIsFrozen
<1>3. RecordsStayTrue
  BY DEF ImportInit, RecordsStayTrue
<1> QED BY <1>1, <1>2, <1>3 DEF ImportInv

\* Every step keeps it.
LEMMA ImportNextOK ==
  ASSUME ImportInv, [ImportNext]_importVars PROVE ImportInv'
<1>1. CASE SelectFiles \/ SelectDraft \/ Confirm
  BY <1>1, EnterStep
<1>2. CASE Decline \/ Interrupt
  BY <1>2, EndStep DEF Decline, Interrupt
<1>3. CASE Read \/ Look
  BY <1>3, GoStep
<1>4. CASE KeepOriginal
  BY <1>4, KeepStep
<1>5. CASE Freeze
  BY <1>5, FreezeStep
<1>6. CASE WriteCanonical
  BY <1>6, WriteStep
<1>7. CASE AppendManifest
  BY <1>7, AppendStep
<1>8. CASE Edit
  BY <1>8, EditStep
<1>9. CASE UNCHANGED importVars
  <2>1. CallInv'
    BY <1>9 DEF importVars, files, underway, history, bounds, ImportInv, CallInv
  <2>2. KeptInv' /\ FrozenInv'
    BY <1>9 DEF importVars, files, underway, history, ImportInv, KeptInv, FrozenInv, KeptPlace, FrozenPlace,
                Current, Target, Dir, Held
  <2>3. ReplacedIsFrozen' /\ RecordsStayTrue'
    BY <1>9, FilesKept DEF importVars, history
  <2> QED BY <2>1, <2>2, <2>3 DEF ImportInv
<1> QED BY <1>1, <1>2, <1>3, <1>4, <1>5, <1>6, <1>7, <1>8, <1>9 DEF ImportNext

\* What an import under way holds is as described, in every reachable state.
THEOREM ImportInvariance == ImportSpec => []ImportInv
<1>1. ImportInit => ImportInv
  BY ImportInitOK
<1>2. ImportInv /\ [ImportNext]_importVars => ImportInv'
  BY ImportNextOK
<1> QED BY <1>1, <1>2, PTL DEF ImportSpec

\* What an import has overwritten is still in a backup, unless another writer
\* brought it while that import ran: for any files, any number of imports,
\* refusals, crashes and failed writes, and however few names are free.
THEOREM FrozenCorrect == ImportSpec => []ReplacedIsFrozen
<1>1. ImportInv => ReplacedIsFrozen
  BY DEF ImportInv
<1> QED BY <1>1, ImportInvariance, PTL

\* A record of the manifest never becomes untrue: its bytes and its backup are
\* still where it says, and no other record names them.
THEOREM ManifestCorrect == ImportSpec => []RecordsStayTrue
<1>1. ImportInv => RecordsStayTrue
  BY DEF ImportInv
<1> QED BY <1>1, ImportInvariance, PTL

-----------------------------------------------------------------------------
(* The reading of an answer *)

\* A list that must hold something, with every entry filled.
LEMMA FilledListIs ==
  ASSUME NEW list, Listed(list)
  PROVE  FilledList(list) <=> /\ IsList(list) /\ Len(list) \in 1..MaxEntries
                              /\ \A x \in Range(list) : Filled(x)
<1>1. CASE ~IsList(list)
  BY <1>1 DEF FilledList, Items
<1>2. CASE IsList(list)
  <2>1. list \in Seq(Range(list)) /\ Items(list) = list
    BY <1>2 DEF Listed, IsList, Items
  <2>2. Len(list) \in Nat /\ (list = << >> <=> Len(list) = 0)
    BY <2>1, EmptySeq, LenProperties
  <2>3. MaxEntries \in Nat
    BY AnswersAssumption
  <2> QED BY <1>2, <2>1, <2>2, <2>3 DEF FilledList
<1> QED BY <1>1, <1>2

\* A task is accepted at the place it names.
LEMMA TaskIs ==
  ASSUME NEW t, NEW k \in Int, t # Junk => Listed(t.criteria) /\ Listed(t.focus)
  PROVE  TaskAccepted(t) /\ t.index = k <=> Task(t, k)
BY FilledListIs DEF TaskAccepted, Task

\* As many tasks as places, and one for every place: each has a place of its own.
LEMMA EachHasAPlace ==
  ASSUME NEW size \in Nat, NEW place, {place[i] : i \in 1..size} = 1..size
  PROVE  \A i, j \in 1..size : place[i] = place[j] => i = j
<1> DEFINE f == [i \in 1..size |-> place[i]]
<1>1. f \in Surjection(1..size, 1..size)
  <2>1. f \in [1..size -> 1..size]
    OBVIOUS
  <2>2. \A k \in 1..size : \E i \in 1..size : f[i] = k
    OBVIOUS
  <2> HIDE DEF f
  <2> QED BY <2>1, <2>2 DEF Surjection
<1>2. IsFiniteSet(1..size)
  BY FS_Interval
<1>3. f \in Injection(1..size, 1..size)
  <2> HIDE DEF f
  <2> QED BY <1>1, <1>2, FS_SurjSameCardinalityImpliesInj
<1>4. \A i, j \in 1..size : f[i] = f[j] => i = j
  <2> HIDE DEF f
  <2> QED BY <1>3 DEF Injection, IsInjective
<1> QED BY <1>4

\* When there is a choice for every place, the choices use up what there is.
LEMMA AllAreChosen ==
  ASSUME NEW size \in Nat, NEW chosen,
         \A k \in 1..size : \E i \in 1..size : <<k, i>> \in chosen,
         \A k, l, i \in 1..size : <<k, i>> \in chosen /\ <<l, i>> \in chosen => k = l
  PROVE  \A i \in 1..size : \E k \in 1..size : <<k, i>> \in chosen
<1> DEFINE f == [k \in 1..size |-> CHOOSE i \in 1..size : <<k, i>> \in chosen]
<1>1. \A k \in 1..size : f[k] \in 1..size /\ <<k, f[k]>> \in chosen
  OBVIOUS
<1>2. f \in [1..size -> 1..size]
  BY <1>1
<1> HIDE DEF f
<1>3. f \in Injection(1..size, 1..size)
  BY <1>1, <1>2 DEF Injection, IsInjective
<1>4. IsFiniteSet(1..size)
  BY FS_Interval
<1>5. f \in Surjection(1..size, 1..size)
  BY <1>3, <1>4, FS_Injection
<1>6. \A i \in 1..size : \E k \in 1..size : f[k] = i
  BY <1>5 DEF Surjection
<1> QED BY <1>1, <1>6

\* As many titles as tasks: no title twice.
LEMMA AllDiffer ==
  ASSUME NEW size \in Nat, NEW title
  PROVE  Cardinality({title[i] : i \in 1..size}) = size
           <=> \A i, j \in 1..size : i # j => title[i] # title[j]
<1> DEFINE T == {title[i] : i \in 1..size}
           f == [i \in 1..size |-> title[i]]
<1>1. f \in Surjection(1..size, T)
  <2>1. f \in [1..size -> T]
    OBVIOUS
  <2>2. \A x \in T : \E i \in 1..size : f[i] = x
    OBVIOUS
  <2> HIDE DEF f, T
  <2> QED BY <2>1, <2>2 DEF Surjection
<1>2. IsFiniteSet(1..size) /\ Cardinality(1..size) = size
  BY FS_Interval
<1>3. Cardinality(T) = size <=> f \in Injection(1..size, T)
  <2> HIDE DEF f, T
  <2> QED BY <1>1, <1>2, FS_Surjection
<1>4. f \in Injection(1..size, T) <=> \A i, j \in 1..size : f[i] = f[j] => i = j
  <2> HIDE DEF f, T
  <2> QED BY <1>1 DEF Injection, IsInjective, Surjection
<1> QED BY <1>3, <1>4

\* A plan is adopted exactly when it is sound.
LEMMA PlanIs ==
  ASSUME NEW p, NEW size, PlanShaped(p)
  PROVE  PlanAccepted(p, size) <=> PlanSound(p, size)
<1> DEFINE given == /\ Filled(p.title) /\ Filled(p.objective)
                    /\ IsList(p.tasks) /\ Len(p.tasks) = size /\ size \in 1..MaxTasks
<1>1. MaxTasks \in Nat
  BY AnswersAssumption
<1>2. PlanAccepted(p, size) => given
  BY DEF PlanAccepted
<1>3. PlanSound(p, size) => given
  <2> SUFFICES ASSUME PlanSound(p, size) PROVE given
    OBVIOUS
  <2>1. IsList(p.tasks) /\ p.tasks \in Seq(Range(p.tasks))
    BY DEF PlanSound, PlanShaped, Listed, IsList
  <2>2. size \in Nat
    BY <2>1, LenProperties DEF PlanSound
  <2> QED BY <1>1, <2>2 DEF PlanSound
<1>4. ASSUME given PROVE PlanAccepted(p, size) <=> PlanSound(p, size)
  <2> DEFINE ts == p.tasks
  <2>1. /\ ts \in Seq(Range(ts)) /\ Items(ts) = ts
        /\ \A t \in Range(ts) : t # Junk => Listed(t.criteria) /\ Listed(t.focus)
    BY <1>4 DEF PlanShaped, Listed, IsList, Items
  <2>2. DOMAIN ts = 1..size /\ size \in Nat
    BY <1>1, <1>4, <2>1, LenProperties
  <2>3. Range(ts) = {ts[i] : i \in 1..size}
    BY <2>2 DEF Range
  <2> DEFINE title == [i \in 1..size |-> ts[i].title]
             accepted == (\A t \in Range(ts) : TaskAccepted(t)) /\ {ts[i].index : i \in 1..size} = 1..size
             sound == \A k \in 1..size : \E i \in DOMAIN ts : Task(ts[i], k)
             counted == Cardinality({ts[i].title : i \in DOMAIN ts}) = size
             differ == \A i, j \in DOMAIN ts : i # j => ts[i].title # ts[j].title
  <2>4. Cardinality({ts[i].title : i \in DOMAIN ts}) = size
          <=> \A i, j \in DOMAIN ts : i # j => ts[i].title # ts[j].title
    <3>1. {ts[i].title : i \in DOMAIN ts} = {title[i] : i \in 1..size}
      BY <2>2
    <3>2. \A i \in 1..size : title[i] = ts[i].title
      OBVIOUS
    <3> HIDE DEF title, ts
    <3>3. Cardinality({title[i] : i \in 1..size}) = size
            <=> \A i, j \in 1..size : i # j => title[i] # title[j]
      BY <2>2, AllDiffer
    <3> QED BY <2>2, <3>1, <3>2, <3>3
  <2>5. ASSUME \A t \in Range(ts) : TaskAccepted(t), {ts[i].index : i \in 1..size} = 1..size
        PROVE  \A k \in 1..size : \E i \in DOMAIN ts : Task(ts[i], k)
    <3> SUFFICES ASSUME NEW k \in 1..size PROVE \E i \in DOMAIN ts : Task(ts[i], k)
      OBVIOUS
    <3>1. PICK i \in 1..size : ts[i].index = k
      BY <2>5
    <3>2. ts[i] \in Range(ts) /\ k \in Int
      BY <2>3
    <3> HIDE DEF ts
    <3> QED BY <2>1, <2>2, <2>5, <3>1, <3>2, TaskIs
  <2>6. ASSUME \A k \in 1..size : \E i \in DOMAIN ts : Task(ts[i], k)
        PROVE  (\A t \in Range(ts) : TaskAccepted(t)) /\ {ts[i].index : i \in 1..size} = 1..size
    <3>1. \A k \in 1..size : \E i \in 1..size : Task(ts[i], k)
      BY <2>2, <2>6
    <3>2. \A k, i \in 1..size : Task(ts[i], k) => TaskAccepted(ts[i]) /\ ts[i].index = k
      <4>1. \A i \in 1..size : ts[i] # Junk => Listed(ts[i].criteria) /\ Listed(ts[i].focus)
        BY <2>1, <2>3
      <4>2. \A k \in 1..size : k \in Int
        OBVIOUS
      <4> HIDE DEF ts
      <4> QED BY <4>1, <4>2, TaskIs
    <3> DEFINE chosen == {ki \in (1..size) \X (1..size) : Task(ts[ki[2]], ki[1])}
    <3>3. \A k, i \in 1..size : <<k, i>> \in chosen <=> Task(ts[i], k)
      OBVIOUS
    <3>4. \A i \in 1..size : \E k \in 1..size : <<k, i>> \in chosen
      <4> HIDE DEF chosen, ts
      <4>1. \A k \in 1..size : \E i \in 1..size : <<k, i>> \in chosen
        BY <3>1, <3>3
      <4>2. \A k, l, i \in 1..size : <<k, i>> \in chosen /\ <<l, i>> \in chosen => k = l
        BY <3>2, <3>3
      <4> QED BY <2>2, <4>1, <4>2, AllAreChosen
    <3> HIDE DEF chosen, ts
    <3>5. \A i \in 1..size : TaskAccepted(ts[i])
      BY <3>2, <3>3, <3>4
    <3>6. {ts[i].index : i \in 1..size} = 1..size
      <4>1. \A k \in 1..size : \E i \in 1..size : ts[i].index = k
        BY <3>1, <3>2
      <4>2. ASSUME NEW i \in 1..size PROVE ts[i].index \in 1..size
        <5>1. PICK k \in 1..size : Task(ts[i], k)
          BY <3>3, <3>4
        <5>2. ts[i].index = k
          BY <3>2, <5>1
        <5> QED BY <5>1, <5>2
      <4> QED BY <4>1, <4>2
    <3> QED BY <2>3, <3>5, <3>6
  <2>7. counted <=> differ
    BY <2>4
  <2>8. accepted <=> sound
    BY <2>5, <2>6
  <2>9. PlanAccepted(p, size) <=> accepted /\ counted
    <3> HIDE DEF accepted, counted
    <3> QED BY <1>4 DEF PlanAccepted, accepted, counted
  <2>10. PlanSound(p, size) <=> sound /\ differ
    <3>1. 1 <= size /\ size <= MaxTasks
      BY <1>1, <1>4
    <3> HIDE DEF sound, differ
    <3> QED BY <1>4, <3>1 DEF PlanSound, sound, differ
  <2> HIDE DEF accepted, sound, counted, differ
  <2> QED BY <2>7, <2>8, <2>9, <2>10
<1> QED BY <1>2, <1>3, <1>4

\* Findings that may be said, and whether one of them is grave.
LEMMA FindingsAre ==
  ASSUME NEW list, Listed(list)
  PROVE  /\ FindingsAccepted(list) <=> FindingsSound(list)
         /\ ~Unresolved(list) <=> Grave(list) = {}
         /\ Items(list) # << >> <=> DOMAIN Items(list) # {}
<1>0. Absent # Junk /\ MaxEntries \in Nat
  BY AnswersAssumption
<1>1. /\ Items(list) \in Seq(Range(Items(list)))
      /\ Len(<< >>) = 0
      /\ DOMAIN Items(list) = 1..Len(Items(list)) /\ Len(Items(list)) \in Nat
  <2>1. Items(list) \in Seq(Range(Items(list)))
    BY EmptySeq DEF Listed, Items, IsList
  <2> QED BY <2>1, LenProperties
<1>2. Items(list) # << >> <=> DOMAIN Items(list) # {}
  BY <1>1, EmptySeq
<1>3. CASE ~IsList(list)
  <2>1. Items(list) = << >> /\ Range(<< >>) = {} /\ DOMAIN << >> = {}
    BY <1>3 DEF Items, Range
  <2> QED BY <1>0, <1>1, <1>2, <1>3, <2>1
          DEF FindingsAccepted, FindingsSound, Unresolved, Grave, IsList
<1>4. CASE IsList(list)
  <2>1. Items(list) = list /\ list # Absent /\ list # Junk
    BY <1>4 DEF Items, IsList
  <2>2. FindingsAccepted(list) <=> FindingsSound(list)
    BY <2>1 DEF FindingsAccepted, FindingsSound, Said, Defaulted
  <2>3. ~Unresolved(list) <=> Grave(list) = {}
    BY <2>1 DEF Unresolved, Grave, Range
  <2> QED BY <1>2, <2>2, <2>3
<1> QED BY <1>3, <1>4

\* A verdict is adopted exactly when it is sound.
LEMMA VerdictIs ==
  ASSUME NEW v, Listed(v.findings)
  PROVE  VerdictAccepted(v) <=> VerdictSound(v)
<1>1. /\ FindingsAccepted(v.findings) <=> FindingsSound(v.findings)
      /\ ~Unresolved(v.findings) <=> Grave(v.findings) = {}
  BY FindingsAre
<1>2. Defaulted(v.summary) /\ Defaulted(v.fix_prompt) <=> {Junk, Long} \cap {v.summary, v.fix_prompt} = {}
  BY DEF Defaulted
<1>3. Filled(v.fix_prompt) => Defaulted(v.fix_prompt)
  BY DEF Filled, Defaulted
<1>4. Defaulted(v.fix_prompt) => (~Filled(v.fix_prompt) <=> v.fix_prompt \in {Absent, Blank})
  BY DEF Filled, Defaulted
<1> QED BY <1>1, <1>2, <1>3, <1>4 DEF VerdictAccepted, VerdictSound

\* So is a final audit: with a next plan on PASS, and on PASS alone.
LEMMA FinalIs ==
  ASSUME NEW v, NEW size, Listed(v.findings), v.next \notin {Absent, Junk} => PlanShaped(v.next),
         IsList(v.assessment) => v.assessment = <<v.assessment[1], v.assessment[2]>>
  PROVE  FinalAccepted(v, size) <=> FinalSound(v, size)
<1>1. /\ FindingsAccepted(v.findings) <=> FindingsSound(v.findings)
      /\ ~Unresolved(v.findings) <=> Grave(v.findings) = {}
      /\ Items(v.findings) # << >> <=> DOMAIN Items(v.findings) # {}
  BY FindingsAre
<1>2. Assessed(v.assessment) <=> v.assessment \in BOOLEAN \X BOOLEAN
  <2> DEFINE a == v.assessment
  <2>1. CASE ~IsList(a)
    BY <2>1, AnswersAssumption DEF Assessed, IsList
  <2>2. CASE IsList(a)
    <3>1. a = <<a[1], a[2]>>
      BY <2>2
    <3>2. Range(a) = {a[1], a[2]}
      <4>1. DOMAIN <<a[1], a[2]>> = {1, 2}
        OBVIOUS
      <4>2. DOMAIN a = {1, 2}
        BY <3>1, <4>1
      <4> HIDE DEF a
      <4> QED BY <4>2 DEF Range
    <3>3. a[1] \in BOOLEAN /\ a[2] \in BOOLEAN <=> a \in BOOLEAN \X BOOLEAN
      BY <3>1
    <3>4. Assessed(a) <=> IsList(a) /\ Range(a) \subseteq BOOLEAN
      BY DEF Assessed
    <3>5. Assessed(a) <=> a \in BOOLEAN \X BOOLEAN
      <4> HIDE DEF a
      <4> QED BY <2>2, <3>2, <3>3, <3>4
    <3> QED BY <3>5
  <2> QED BY <2>1, <2>2
<1>3. v.next \notin {Absent, Junk} => (PlanAccepted(v.next, size) <=> PlanSound(v.next, size))
  BY PlanIs
<1>4. Defaulted(v.summary) <=> v.summary \notin {Junk, Long}
  BY DEF Defaulted
<1>5. ASSUME v.verdict = "PASS" PROVE FinalAccepted(v, size) <=> FinalSound(v, size)
  BY <1>1, <1>2, <1>3, <1>4, <1>5 DEF FinalAccepted, FinalSound
<1>6. ASSUME v.verdict = "NEEDS_FIX" PROVE FinalAccepted(v, size) <=> FinalSound(v, size)
  BY <1>1, <1>2, <1>4, <1>6 DEF FinalAccepted, FinalSound
<1>7. ASSUME v.verdict = "BLOCKED" PROVE FinalAccepted(v, size) <=> FinalSound(v, size)
  BY <1>1, <1>2, <1>4, <1>7 DEF FinalAccepted, FinalSound
<1>8. v.verdict \notin {"PASS", "NEEDS_FIX", "BLOCKED"} => ~FinalAccepted(v, size) /\ ~FinalSound(v, size)
  BY DEF FinalAccepted, FinalSound
<1> QED BY <1>5, <1>6, <1>7, <1>8

\* A list of an integration holds what it is named for.
LEMMA EntriesAre ==
  ASSUME NEW list, NEW action
  PROVE  EntriesAccepted(list, action) <=>
           \/ list = Absent
           \/ /\ list # Junk /\ Len(list) <= MaxEntries
              /\ \A x \in Range(list) : /\ x # Junk /\ x.keys = "exact" /\ x.action = action
                                        /\ Filled(x.id) /\ MayBeEmpty(x.reason)
<1>1. CASE list = Absent
  <2>1. Items(list) = << >> /\ Range(<< >>) = {} /\ Len(<< >>) = 0
    BY <1>1 DEF Items, IsList, Range
  <2>2. list # Junk /\ MaxEntries \in Nat
    BY <1>1, AnswersAssumption
  <2> QED BY <1>1, <2>1, <2>2 DEF EntriesAccepted
<1>2. CASE list = Junk
  BY <1>2, AnswersAssumption DEF EntriesAccepted
<1>3. CASE list \notin {Absent, Junk}
  <2>1. Items(list) = list
    BY <1>3 DEF Items, IsList
  <2> QED BY <1>3, <2>1 DEF EntriesAccepted
<1> QED BY <1>1, <1>2, <1>3

\* An integration is adopted exactly when it is sound.
LEMMA IntegrationIs ==
  ASSUME NEW v, NEW e
  PROVE  IntegrationAccepted(v, e) <=> IntegrationSound(v, e)
<1>1. <<v.role, v.iteration, v.hash>> = <<"ORCHESTRATOR", e.iteration, e.hash>>
        <=> v.role = "ORCHESTRATOR" /\ v.iteration = e.iteration /\ v.hash = e.hash
  OBVIOUS
<1>2. \A w : Defaulted(w) <=> w \notin {Junk, Long}
  BY DEF Defaulted
<1> DEFINE Sane(list, action) ==
             \/ list = Absent
             \/ /\ list # Junk /\ Len(list) <= MaxEntries
                /\ \A x \in Range(list) : /\ x # Junk /\ x.keys = "exact" /\ x.action = action
                                          /\ Filled(x.id) /\ MayBeEmpty(x.reason)
           lists == {<<"applied", v.applied>>, <<"rejected", v.rejected>>, <<"unresolved", v.unresolved>>}
<1>3. (\A l \in lists : Sane(l[2], l[1])) <=>
        Sane(v.applied, "applied") /\ Sane(v.rejected, "rejected") /\ Sane(v.unresolved, "unresolved")
  <2>1. \A a, b : <<a, b>>[1] = a /\ <<a, b>>[2] = b
    OBVIOUS
  <2> HIDE DEF Sane
  <2> QED BY <2>1
<1>4. IntegrationSound(v, e) <=>
        /\ v.role = "ORCHESTRATOR" /\ v.iteration = e.iteration /\ v.hash = e.hash
        /\ Filled(v.revised) /\ v.summary \notin {Junk, Long}
        /\ e.blueprint = Absent \/ (v.blueprint = e.blueprint /\ v.revised_blueprint \notin {Junk, Long})
        /\ \A l \in lists : Sane(l[2], l[1])
  BY <1>1 DEF IntegrationSound
<1>5. \A list, action : EntriesAccepted(list, action) <=> Sane(list, action)
  BY EntriesAre
<1> HIDE DEF Sane, lists
<1> QED BY <1>2, <1>3, <1>4, <1>5 DEF IntegrationAccepted

\* Whatever is asked for: what a parser accepts is sound as a whole, and
\* what is sound as a whole is accepted.
LEMMA AcceptedIsSound ==
  ASSUME NEW v, ValueShaped(v), answer.kind \in {"plan", "verdict", "final", "integration"}
  PROVE  Accepted(v) <=> Sound(v)
<1>1. CASE answer.kind = "plan"
  BY <1>1, PlanIs DEF Accepted, Sound, ValueShaped
<1>2. CASE answer.kind = "verdict"
  BY <1>2, VerdictIs DEF Accepted, Sound, ValueShaped
<1>3. CASE answer.kind = "final"
  BY <1>3, FinalIs DEF Accepted, Sound, ValueShaped
<1>4. CASE answer.kind = "integration"
  BY <1>4, IntegrationIs DEF Accepted, Sound
<1> QED BY <1>1, <1>2, <1>3, <1>4

-----------------------------------------------------------------------------
(* The markers *)

\* A set of numbers that is not empty has a least one.
LEMMA HasMin ==
  ASSUME NEW T, T \subseteq Nat, T # {}
  PROVE  Min(T) \in T /\ \A y \in T : Min(T) <= y
<1>1. PICK x \in T : \A y \in T : ~(<<y, x>> \in OpToRel(<, Nat))
  BY NatLessThanWellFounded, WFMin
<1>2. OpToRel(<, Nat) = {ss \in Nat \X Nat : ss[1] < ss[2]}
  BY DEF OpToRel
<1>3. ASSUME NEW y \in T, y < x PROVE FALSE
  <2>1. <<y, x>> \in OpToRel(<, Nat)
    BY <1>2, <1>3
  <2> QED BY <1>1, <2>1
<1>4. \A y \in T : x <= y
  BY <1>3
<1> QED BY <1>4 DEF Min

\* Where the envelope of a text begins, and what ends it.
After(text) == Min(Places(text, "START")) + 1
EndsOf(text) == {i \in Places(text, "END") : i > Min(Places(text, "START"))}
Stop(text) == IF EndsOf(text) = {} THEN Len(text) + 1 ELSE Min(EndsOf(text))

\* The envelope lies in the text, and nothing in it is an end marker.
LEMMA EnvelopeIs ==
  ASSUME NEW text, text \in Seq(Range(text)), Places(text, "START") # {}
  PROVE  /\ Len(text) \in Nat /\ DOMAIN text = 1..Len(text)
         /\ After(text) \in Nat /\ After(text) - 1 \in Places(text, "START")
         /\ Stop(text) \in After(text)..(Len(text) + 1)
         /\ Stop(text) <= Len(text) => Stop(text) \in EndsOf(text)
         /\ \A j \in EndsOf(text) : Stop(text) <= j
         /\ Enveloped(text) = SubSeq(text, After(text), Stop(text) - 1)
         /\ Enveloped(text) \in Seq(Range(text))
         /\ Len(Enveloped(text)) = Stop(text) - After(text)
         /\ \A k \in 1..Len(Enveloped(text)) : Enveloped(text)[k] = text[After(text) + k - 1]
<1> DEFINE m == Min(Places(text, "START"))
           ends == EndsOf(text)
<1>1. Len(text) \in Nat /\ DOMAIN text = 1..Len(text)
  BY LenProperties
<1>2. Places(text, "START") \subseteq Nat /\ Places(text, "END") \subseteq Nat
  BY <1>1 DEF Places
<1>3. m \in Places(text, "START") /\ m \in 1..Len(text)
  BY <1>1, <1>2, HasMin DEF Places
<1>4. After(text) = m + 1
  BY DEF After
<1>5. \A j \in ends : j \in 1..Len(text) /\ j > m
  BY <1>1 DEF EndsOf, Places
<1>7. ends # {} => Min(ends) \in ends /\ \A j \in ends : Min(ends) <= j
  <2>1. ends \subseteq Nat
    BY <1>2 DEF EndsOf
  <2> HIDE DEF ends
  <2> QED BY <2>1, HasMin
<1>8. /\ Stop(text) \in (m + 1)..(Len(text) + 1)
      /\ Stop(text) <= Len(text) => Stop(text) \in ends
      /\ \A j \in ends : Stop(text) <= j
  <2>1. CASE ends = {}
    BY <1>1, <1>3, <2>1 DEF Stop
  <2>2. CASE ends # {}
    <3>1. Stop(text) = Min(ends)
      BY <2>2 DEF Stop
    <3> HIDE DEF ends, m
    <3> QED BY <1>1, <1>3, <1>5, <1>7, <2>2, <3>1
  <2> QED BY <2>1, <2>2
<1>9. Enveloped(text) = SubSeq(text, m + 1, Stop(text) - 1)
  BY DEF Enveloped, Stop, EndsOf
<1>10. \A i \in (m + 1)..(Stop(text) - 1) : text[i] \in Range(text)
  <2>1. \A i \in (m + 1)..(Stop(text) - 1) : i \in DOMAIN text
    BY <1>1, <1>3, <1>8
  <2> QED BY <2>1 DEF Range
<1>11. /\ m + 1 \in Int /\ Stop(text) - 1 \in Int /\ m \in Int
       /\ SubSeq(text, m + 1, Stop(text) - 1) \in Seq(Range(text))
       /\ Len(SubSeq(text, m + 1, Stop(text) - 1)) = Stop(text) - (m + 1)
       /\ \A k \in 1..(Stop(text) - (m + 1)) :
            SubSeq(text, m + 1, Stop(text) - 1)[k] = text[(m + 1) + k - 1]
  <2> DEFINE s == Stop(text)
  <2>1. m \in Int /\ s \in Int /\ m + 1 \in Int /\ s - 1 \in Int /\ m + 1 <= s
    BY <1>1, <1>3, <1>8
  <2> HIDE DEF m, s
  <2>2. /\ SubSeq(text, m + 1, s - 1) \in Seq(Range(text))
        /\ Len(SubSeq(text, m + 1, s - 1)) = IF m + 1 <= s - 1 THEN (s - 1) - (m + 1) + 1 ELSE 0
        /\ \A i \in 1..((s - 1) - (m + 1) + 1) : SubSeq(text, m + 1, s - 1)[i] = text[(m + 1) + i - 1]
    BY <1>10, <2>1, SubSeqProperties DEF s
  <2>3. 1..((s - 1) - (m + 1) + 1) = 1..(s - (m + 1))
    BY <2>1
  <2>4. Len(SubSeq(text, m + 1, s - 1)) = s - (m + 1)
    BY <2>1, <2>2
  <2> QED BY <2>1, <2>2, <2>3, <2>4 DEF s
<1>12. After(text) \in Nat /\ After(text) - 1 = m
  BY <1>1, <1>3, <1>4
<1> HIDE DEF m
<1> QED BY <1>1, <1>3, <1>4, <1>8, <1>9, <1>11, <1>12

\* The payload, if there is one, is the envelope.
LEMMA PayloadIs ==
  ASSUME NEW text, text \in Seq(Range(text))
  PROVE  /\ Payload(text) \in Seq({Whole(Enveloped(text))}) /\ Len(Payload(text)) \in {0, 1}
         /\ Len(Payload(text)) = 1 <=>
              /\ Places(text, "START") # {} /\ Places(text, "END") # {}
              /\ Enveloped(text) # << >>
         /\ Len(Payload(text)) = 1 => Payload(text)[1] = Whole(Enveloped(text))
<1> DEFINE w == Whole(Enveloped(text))
           one == /\ Places(text, "START") # {} /\ Places(text, "END") # {}
                  /\ Enveloped(text) # << >>
<1>1. /\ Len(<<w>>) = 1 /\ <<w>>[1] = w /\ <<w>> \in Seq({w})
      /\ Len(<< >>) = 0 /\ << >> \in Seq({w})
  <2> HIDE DEF w
  <2> QED OBVIOUS
<1>2. Payload(text) = IF ~one THEN << >> ELSE <<w>>
  BY DEF Payload
<1> HIDE DEF w, one
<1>3. CASE one
  BY <1>1, <1>2, <1>3 DEF w, one
<1>4. CASE ~one
  BY <1>1, <1>2, <1>4 DEF w, one
<1> QED BY <1>3, <1>4

\* The one piece that is no part is the whole; an object or a list that is the
\* whole is that piece.
LEMMA WholeIs ==
  ASSUME NEW pieces
  PROVE  LET own == {k \in DOMAIN pieces : pieces[k].form # "PART"}
         IN  /\ \A k : own = {k} => Whole(pieces) = pieces[k]
             /\ Whole(pieces).form \in {"OBJECT", "LIST"} =>
                  \E k \in own : own = {k} /\ Whole(pieces) = pieces[k]
<1> DEFINE own == {k \in DOMAIN pieces : pieces[k].form # "PART"}
           c == CHOOSE k \in own : own = {k}
<1>1. Whole(pieces) = IF \E k \in own : own = {k} THEN pieces[c] ELSE NoJson
  BY DEF Whole
<1>2. NoJson.form \notin {"OBJECT", "LIST"}
  BY DEF NoJson
<1> HIDE DEF own
<1>3. ASSUME NEW k, own = {k} PROVE Whole(pieces) = pieces[k] /\ k \in own
  <2>1. c \in own /\ k \in own
    BY <1>3
  <2>2. c = k
    BY <1>3, <2>1
  <2> QED BY <1>1, <1>3, <2>1, <2>2
<1> QED BY <1>1, <1>2, <1>3 DEF own

\* What lies inside the markers is the envelope.
LEMMA InsideIs ==
  ASSUME NEW text, text \in Seq(Range(text)), Places(text, "START") # {}
  PROVE  /\ Inside(text) = After(text)..(Stop(text) - 1)
         /\ Inside(text) \subseteq DOMAIN text
<1> DEFINE m == Min(Places(text, "START"))
           stop == Stop(text)
<1>1. /\ Len(text) \in Nat /\ DOMAIN text = 1..Len(text)
      /\ stop \in After(text)..(Len(text) + 1)
      /\ stop <= Len(text) => stop \in EndsOf(text)
      /\ \A j \in EndsOf(text) : stop <= j
  BY EnvelopeIs
<1>2. m \in Places(text, "START") /\ m \in 1..Len(text) /\ After(text) = m + 1
  <2>1. Places(text, "START") \subseteq Nat
    BY LenProperties DEF Places
  <2> QED BY <1>1, <2>1, HasMin DEF After, Places
<1>3. /\ \A j \in Places(text, "END") : j \in 1..Len(text) /\ j # m
      /\ \A j : j \in EndsOf(text) <=> j \in Places(text, "END") /\ j > m
  BY <1>1, <1>2 DEF Places, EndsOf
<1>4. \A k : k \in Inside(text) <=>
             /\ k \in 1..Len(text) /\ k > m
             /\ \A j \in Places(text, "END") : j > k \/ j < m
  BY <1>1 DEF Inside
<1> HIDE DEF m, stop
<1>5. ASSUME NEW k \in Inside(text) PROVE k \in (m + 1)..(stop - 1)
  <2>1. k \in 1..Len(text) /\ k > m
    BY <1>4
  <2>2. ~(stop <= k)
    <3>1. ASSUME stop <= k PROVE FALSE
      <4>1. stop <= Len(text)
        BY <1>1, <1>2, <2>1, <3>1
      <4>2. stop \in Places(text, "END") /\ stop > m
        BY <1>1, <1>3, <4>1
      <4> QED BY <1>1, <1>2, <1>4, <2>1, <3>1, <4>2
    <3> QED BY <3>1
  <2> QED BY <1>1, <1>2, <2>1, <2>2
<1>6. ASSUME NEW k \in (m + 1)..(stop - 1) PROVE k \in Inside(text) /\ k \in DOMAIN text
  <2>1. k \in 1..Len(text) /\ k > m
    BY <1>1, <1>2
  <2>2. ASSUME NEW j \in Places(text, "END") PROVE j > k \/ j < m
    <3>1. j > m => stop <= j
      BY <1>1, <1>3
    <3> QED BY <1>1, <1>2, <1>3, <3>1
  <2> QED BY <1>1, <1>4, <2>1, <2>2
<1> QED BY <1>2, <1>5, <1>6 DEF stop

\* A piece that is all there is between the markers is the payload, and an
\* object or a list that is the payload is such a piece.
LEMMA EnclosedIs ==
  ASSUME NEW text, text \in Seq(Range(text))
  PROVE  /\ Places(text, "START") # {} =>
              \A i \in Enclosed(text) : /\ i \in DOMAIN text /\ text[i].form \in {"OBJECT", "LIST"}
                                        /\ Len(Payload(text)) = 1 /\ Payload(text)[1] = text[i]
         /\ Len(Payload(text)) = 1 /\ Payload(text)[1].form \in {"OBJECT", "LIST"} =>
              /\ Places(text, "START") # {}
              /\ \E i \in Enclosed(text) : Payload(text)[1] = text[i]
<1> DEFINE env == Enveloped(text)
           own == {k \in DOMAIN env : env[k].form # "PART"}
           in == Inside(text)
           a == After(text)
           stop == Stop(text)
\* Place k of the envelope is place a + k - 1 of the text.
<1>1. ASSUME Places(text, "START") # {}
      PROVE  /\ a \in Nat /\ stop \in Int /\ in = a..(stop - 1) /\ in \subseteq DOMAIN text
             /\ env \in Seq(Range(text)) /\ Len(env) \in Nat /\ DOMAIN env = 1..Len(env)
             /\ Len(env) = stop - a
             /\ \A k \in 1..Len(env) : env[k] = text[a + k - 1]
  <2>1. /\ a \in Nat /\ stop \in Int /\ env \in Seq(Range(text)) /\ Len(env) = stop - a
        /\ \A k \in 1..Len(env) : env[k] = text[a + k - 1]
    BY <1>1, EnvelopeIs
  <2>2. Len(env) \in Nat /\ DOMAIN env = 1..Len(env)
    <3> HIDE DEF env
    <3> QED BY <2>1, LenProperties
  <2>3. in = a..(stop - 1) /\ in \subseteq DOMAIN text
    BY <1>1, InsideIs
  <2> QED BY <2>1, <2>2, <2>3
<1>2. ASSUME Places(text, "START") # {}
      PROVE  /\ \A k \in DOMAIN env : a + k - 1 \in in /\ env[k] = text[a + k - 1]
             /\ \A i \in in : i - a + 1 \in DOMAIN env /\ env[i - a + 1] = text[i]
             /\ \A i \in in : \A k \in DOMAIN env : i = a + k - 1 <=> k = i - a + 1
  <2> HIDE DEF env, in, a, stop
  <2>1. ASSUME NEW k \in DOMAIN env PROVE a + k - 1 \in in /\ env[k] = text[a + k - 1]
    <3> DEFINE size == Len(env)
    <3>1. /\ a \in Nat /\ stop \in Int /\ size = stop - a /\ in = a..(stop - 1)
          /\ k \in 1..size /\ env[k] = text[a + k - 1]
      BY <1>1, <1>2
    <3> HIDE DEF size
    <3> QED BY <3>1
  <2>2. ASSUME NEW i \in in PROVE i - a + 1 \in DOMAIN env /\ a + (i - a + 1) - 1 = i
    BY <1>1, <1>2
  <2>3. ASSUME NEW i \in in, NEW k \in DOMAIN env PROVE i = a + k - 1 <=> k = i - a + 1
    <3>1. i \in Int /\ k \in Int /\ a \in Int
      BY <1>1, <1>2
    <3> QED BY <3>1
  <2> QED BY <2>1, <2>2, <2>3
<1>3. \A i : i \in Enclosed(text) <=>
             /\ i \in in /\ Places(text, "END") # {} /\ text[i].form \in {"OBJECT", "LIST"}
             /\ \A k \in in : k = i \/ text[k].form = "PART"
  BY DEF Enclosed
<1>4. /\ \A k : own = {k} => Whole(env) = env[k]
      /\ Whole(env).form \in {"OBJECT", "LIST"} => \E k \in own : own = {k} /\ Whole(env) = env[k]
  <2> HIDE DEF env
  <2> QED BY WholeIs
<1>5. ASSUME Places(text, "START") # {}, NEW i \in Enclosed(text)
      PROVE  /\ i \in DOMAIN text /\ text[i].form \in {"OBJECT", "LIST"}
             /\ Len(Payload(text)) = 1 /\ Payload(text)[1] = text[i]
  <2> DEFINE k0 == i - a + 1
  <2>1. /\ i \in in /\ Places(text, "END") # {} /\ text[i].form \in {"OBJECT", "LIST"}
        /\ \A k \in in : k = i \/ text[k].form = "PART"
    BY <1>3, <1>5
  <2>2. k0 \in DOMAIN env /\ env[k0] = text[i]
    <3> HIDE DEF env, in, a
    <3> QED BY <1>2, <1>5, <2>1
  <2>3. own = {k0}
    <3>1. k0 \in own
      <4> HIDE DEF env, k0
      <4> QED BY <2>1, <2>2
    <3>2. ASSUME NEW k \in own PROVE k = k0
      <4>1. k \in DOMAIN env /\ env[k].form # "PART"
        OBVIOUS
      <4>2. a + k - 1 \in in /\ text[a + k - 1].form # "PART"
        <5> HIDE DEF env, in, a
        <5> QED BY <1>2, <1>5, <4>1
      <4>3. a + k - 1 = i
        BY <2>1, <4>2
      <4> HIDE DEF env, in, a, own
      <4> QED BY <1>2, <1>5, <2>1, <4>1, <4>3
    <3> HIDE DEF own, k0
    <3> QED BY <3>1, <3>2
  <2>4. Whole(env) = text[i]
    <3> HIDE DEF env, own, k0
    <3> QED BY <1>4, <2>2, <2>3
  <2>5. env # << >>
    <3>1. DOMAIN << >> = {}
      OBVIOUS
    <3> HIDE DEF env, k0
    <3> QED BY <2>2, <3>1
  <2>6. i \in DOMAIN text
    BY <1>1, <1>5, <2>1
  <2> QED BY <1>5, <2>1, <2>4, <2>5, <2>6, PayloadIs
<1>6. ASSUME Len(Payload(text)) = 1, Payload(text)[1].form \in {"OBJECT", "LIST"}
      PROVE  /\ Places(text, "START") # {}
             /\ \E i \in Enclosed(text) : Payload(text)[1] = text[i]
  <2>1. /\ Places(text, "START") # {} /\ Places(text, "END") # {}
        /\ Payload(text)[1] = Whole(env)
    BY <1>6, PayloadIs
  <2>2. PICK k \in own : own = {k} /\ Whole(env) = env[k]
    BY <1>4, <1>6, <2>1
  <2> DEFINE i == a + k - 1
  <2>3. k \in DOMAIN env /\ i \in in /\ env[k] = text[i]
    <3>1. k \in DOMAIN env
      BY <2>2
    <3> HIDE DEF env, in, a, own
    <3> QED BY <1>2, <2>1, <3>1
  <2>4. ASSUME NEW j \in in, j # i PROVE text[j].form = "PART"
    <3>1. j - a + 1 \in DOMAIN env /\ env[j - a + 1] = text[j] /\ j - a + 1 # k
      <4> HIDE DEF env, in, a, own
      <4> QED BY <1>2, <2>1, <2>3, <2>4
    <3>2. j - a + 1 \notin own
      <4> HIDE DEF env, own
      <4> QED BY <2>2, <3>1
    <3> HIDE DEF a, in
    <3> QED BY <3>1, <3>2
  <2>5. i \in Enclosed(text)
    <3> HIDE DEF env, in, own, i
    <3> QED BY <1>3, <1>6, <2>1, <2>2, <2>3, <2>4
  <2> HIDE DEF i, env, own
  <2> QED BY <2>1, <2>2, <2>3, <2>5
<1> QED BY <1>5, <1>6

\* One start marker and one end marker make one pair.
LEMMA OnePair ==
  ASSUME NEW text, text \in Seq(Range(text))
  PROVE  /\ Cardinality(Places(text, "START")) = 1 /\ Cardinality(Places(text, "END")) = 1
              <=> Cardinality(Pairs(text)) = 1
         /\ Cardinality(Pairs(text)) = 1 => Places(text, "START") # {}
<1> DEFINE A == Places(text, "START")
           B == Places(text, "END")
<1>1. DOMAIN text = 1..Len(text) /\ Len(text) \in Nat
  BY LenProperties
<1>2. IsFiniteSet(A) /\ IsFiniteSet(B)
  <2>1. IsFiniteSet(1..Len(text))
    BY <1>1, FS_Interval
  <2> QED BY <1>1, <2>1, FS_Subset DEF Places
<1> HIDE DEF A, B
<1>3. Cardinality(A) \in Nat /\ Cardinality(B) \in Nat
  BY <1>2, FS_CardinalityType
<1>4. Cardinality(A \X B) = Cardinality(A) * Cardinality(B)
  BY <1>2, FS_Product
<1>5. A = {} => Cardinality(A) = 0
  BY FS_EmptySet
<1> DEFINE x == Cardinality(A)
           y == Cardinality(B)
<1>6. x * y = 1 <=> x = 1 /\ y = 1
  <2> HIDE DEF x, y
  <2>1. x \in Nat /\ y \in Nat
    BY <1>3 DEF x, y
  <2>2. x = 0 => x * y = 0
    BY <2>1
  <2>3. x = 1 => x * y = y
    BY <2>1
  <2>4. x >= 2 /\ y = 0 => x * y = 0
    BY <2>1
  <2>5. x >= 2 /\ y >= 1 => x * y >= 2
    BY <2>1
  <2> QED BY <2>1, <2>2, <2>3, <2>4, <2>5
<1>7. Pairs(text) = A \X B
  BY DEF Pairs, A, B
<1> QED BY <1>4, <1>5, <1>6, <1>7 DEF A, B

-----------------------------------------------------------------------------
(* The candidates *)

\* What the parser of this kind of answer reads one after another.
Cands == IF answer.kind = "integration" THEN OnlyCandidate(answer.text) ELSE Candidates(answer.text)

Strict == answer.kind = "integration"

\* The payload comes first, and then what the scan finds at each place; an
\* integration has nothing but the payload of its only two markers.
LEMMA CandsAre ==
  ASSUME answer.text \in Seq(Range(answer.text))
  PROVE  LET text == answer.text
             pay  == Payload(text)
         IN  /\ Len(Cands) \in Nat
             /\ \A k \in 1..Len(Cands) :
                  \/ /\ k = 1 /\ Len(pay) = 1 /\ Cands[k] = pay[1]
                     /\ Strict => Cardinality(Pairs(text)) = 1
                  \/ ~Strict /\ \E i \in DOMAIN text : Cands[k] = Region(text, i)
             /\ Len(pay) = 1 /\ (Strict => Cardinality(Pairs(text)) = 1) =>
                  1 <= Len(Cands) /\ Cands[1] = pay[1]
             /\ ~Strict => \A i \in DOMAIN text :
                             \E k \in 1..Len(Cands) : Cands[k] = Region(text, i)
<1> DEFINE text == answer.text
           pay == Payload(text)
           regs == Regions(text)
           paired == Cardinality(Pairs(text)) = 1
<1>1. DOMAIN text = 1..Len(text) /\ Len(text) \in Nat
  BY LenProperties
<1>2. /\ pay \in Seq({Whole(Enveloped(text))})
      /\ Len(pay) = 0 \/ Len(pay) = 1
  BY PayloadIs
<1>3. /\ regs \in Seq({Region(text, i) : i \in DOMAIN text}) /\ Len(regs) = Len(text)
      /\ \A i \in 1..Len(text) : regs[i] = Region(text, i)
  <2> DEFINE R == {Region(text, i) : i \in DOMAIN text}
  <2>1. regs = [i \in 1..Len(text) |-> Region(text, i)]
    BY <1>1 DEF Regions
  <2>2. regs \in [1..Len(text) -> R]
    BY <1>1, <2>1
  <2> HIDE DEF regs, R
  <2>3. regs \in Seq(R) /\ Len(regs) = Len(text)
    BY <1>1, <2>2, SeqDef, LenProperties
  <2> QED BY <2>1, <2>3 DEF R
<1>4. CASE Strict
  <2>1. Cands = IF paired THEN pay ELSE << >>
    BY <1>4, OnePair DEF Strict, Cands, OnlyCandidate
  <2>2. Len(<< >>) = 0
    OBVIOUS
  <2> HIDE DEF pay, text
  <2>3. Len(Cands) = (IF paired THEN Len(pay) ELSE 0)
    BY <2>1, <2>2
  <2>4. Len(Cands) \in Nat
    BY <1>2, <2>3
  <2>5. \A k \in 1..Len(Cands) : k = 1 /\ Len(pay) = 1 /\ Cands[k] = pay[1] /\ paired
    <3>1. CASE paired /\ Len(pay) = 1
      <4>1. Cands = pay
        BY <2>1, <3>1
      <4>2. \A k \in 1..1 : k = 1
        OBVIOUS
      <4>3. 1..Len(Cands) = 1..1
        BY <3>1, <4>1
      <4> QED BY <3>1, <4>1, <4>2, <4>3
    <3>2. CASE ~(paired /\ Len(pay) = 1)
      <4>1. Len(Cands) = 0
        BY <1>2, <2>3, <3>2
      <4> QED BY <4>1
    <3> QED BY <3>1, <3>2
  <2>6. Len(pay) = 1 /\ paired => 1 <= Len(Cands) /\ Cands[1] = pay[1]
    <3> SUFFICES ASSUME Len(pay) = 1, paired PROVE 1 <= Len(Cands) /\ Cands[1] = pay[1]
      OBVIOUS
    <3>1. Cands = pay
      BY <2>1
    <3>2. 1 <= Len(pay)
      OBVIOUS
    <3> QED BY <3>1, <3>2
  <2> QED BY <1>4, <2>4, <2>5, <2>6 DEF pay, text
<1>5. CASE ~Strict
  <2>1. Cands = pay \o regs
    BY <1>5 DEF Strict, Cands, Candidates
  <2> DEFINE S == {Whole(Enveloped(text))} \cup {Region(text, i) : i \in DOMAIN text}
  <2>2. pay \in Seq(S) /\ regs \in Seq(S)
    <3> HIDE DEF pay, regs, text
    <3> QED BY <1>2, <1>3, SeqMonotonic
  <2> HIDE DEF pay, regs, text, S
  <2>3. /\ Len(Cands) = Len(pay) + Len(regs)
        /\ \A k \in 1..Len(pay) + Len(regs) :
             Cands[k] = IF k <= Len(pay) THEN pay[k] ELSE regs[k - Len(pay)]
    BY <2>1, <2>2, ConcatProperties
  <2>4. Len(Cands) \in Nat
    BY <1>1, <1>2, <1>3, <2>3
  <2>5. ASSUME NEW k \in 1..Len(Cands)
        PROVE  \/ k = 1 /\ Len(pay) = 1 /\ Cands[k] = pay[1]
               \/ \E i \in DOMAIN text : Cands[k] = Region(text, i)
    <3>1. CASE k <= Len(pay)
      <4>1. k = 1 /\ Len(pay) = 1
        <5> DEFINE size == Len(pay)
        <5>1. k \in Nat /\ k >= 1 /\ k <= size /\ (size = 0 \/ size = 1)
          BY <1>2, <2>4, <3>1
        <5> HIDE DEF size
        <5>2. k = 1 /\ size = 1
          BY <5>1
        <5> QED BY <5>2 DEF size
      <4> QED BY <2>3, <3>1, <4>1
    <3>2. CASE ~(k <= Len(pay))
      <4>1. k - Len(pay) \in 1..Len(text)
        BY <1>1, <1>2, <1>3, <2>3, <3>2
      <4>2. Cands[k] = regs[k - Len(pay)]
        BY <2>3, <3>2
      <4> QED BY <1>1, <1>3, <4>1, <4>2
    <3> QED BY <3>1, <3>2
  <2>6. Len(pay) = 1 => 1 <= Len(Cands) /\ Cands[1] = pay[1]
    BY <1>1, <1>3, <2>3
  <2>7. ASSUME NEW i \in DOMAIN text PROVE \E k \in 1..Len(Cands) : Cands[k] = Region(text, i)
    <3>1. /\ Len(pay) + i \in 1..(Len(pay) + Len(regs))
          /\ ~(Len(pay) + i <= Len(pay)) /\ (Len(pay) + i) - Len(pay) = i
      BY <1>1, <1>2, <1>3
    <3>2. Cands[Len(pay) + i] = Region(text, i)
      BY <1>1, <1>3, <2>3, <3>1
    <3> QED BY <2>3, <3>1, <3>2
  <2> QED BY <1>5, <2>4, <2>5, <2>6, <2>7 DEF pay, text
<1> QED BY <1>4, <1>5

-----------------------------------------------------------------------------
(* The invariant *)

\* A candidate that neither ended the reading nor was adopted.
Passed(k) == Cands[k].form # "LIST" /\ ~(Cands[k].form = "OBJECT" /\ Accepted(Cands[k].value))

\* All candidates before the one under reading were passed; it is the one that
\* was adopted, or the one that ended the reading, or there is none left.
AnswerInv ==
  /\ AnswerShaped(answer)
  /\ at \in Nat \ {0} /\ outcome \in {"reading", "adopted", "refused"}
  /\ ~Readable(answer.text) => outcome # "adopted"
  /\ Readable(answer.text) =>
       /\ \A k \in 1..(at - 1) : Passed(k)
       /\ outcome = "adopted" => /\ at \in 1..Len(Cands) /\ Cands[at].form = "OBJECT"
                                 /\ Accepted(Cands[at].value) /\ adopted = Cands[at].value
       /\ outcome = "refused" => at > Len(Cands) \/ (at \in 1..Len(Cands) /\ Cands[at].form = "LIST")

\* One candidate is taken, whichever parser reads.
LEMMA TakeStep ==
  ASSUME AnswerInv, outcome = "reading", Readable(answer.text), Take(Cands)
  PROVE  AnswerInv'
<1>1. answer' = answer
  BY DEF Take, Refuse
<1>2. Cands' = Cands /\ \A v : Accepted(v)' <=> Accepted(v)
  BY <1>1 DEF Cands, Accepted
<1>3. Len(Cands) \in Nat
  BY CandsAre DEF AnswerInv, AnswerShaped
<1>4. at \in Nat \ {0} /\ \A k \in 1..(at - 1) : Passed(k)
  BY DEF AnswerInv
<1>5. \A k : Passed(k)' <=> Passed(k)
  BY <1>1 DEF Passed, Cands, Accepted
<1>6. ASSUME outcome' = "refused", at' = at,
             at > Len(Cands) \/ (at \in 1..Len(Cands) /\ Cands[at].form = "LIST")
      PROVE  AnswerInv'
  BY <1>1, <1>2, <1>4, <1>5, <1>6 DEF AnswerInv
<1>7. CASE at > Len(Cands)
  BY <1>6, <1>7 DEF Take, Refuse
<1>8. CASE at \in 1..Len(Cands) /\ Cands[at].form = "LIST"
  <2>1. Refuse
    BY <1>3, <1>8 DEF Take
  <2> QED BY <1>6, <1>8, <2>1 DEF Refuse
<1>9. CASE at \in 1..Len(Cands) /\ Cands[at].form = "OBJECT" /\ Accepted(Cands[at].value)
  <2>1. outcome' = "adopted" /\ adopted' = Cands[at].value /\ at' = at
    BY <1>3, <1>9 DEF Take
  <2> QED BY <1>1, <1>2, <1>4, <1>5, <1>9, <2>1 DEF AnswerInv
<1>10. CASE at \in 1..Len(Cands) /\ Passed(at)
  <2>1. at' = at + 1 /\ outcome' = outcome
    BY <1>3, <1>10 DEF Take, Passed
  <2>2. \A k \in 1..(at' - 1) : Passed(k)
    BY <1>4, <1>10, <2>1
  <2> QED BY <1>1, <1>4, <1>5, <2>1, <2>2 DEF AnswerInv
<1> QED BY <1>3, <1>4, <1>7, <1>8, <1>9, <1>10 DEF Passed

\* At first nothing is read.
LEMMA AnswerInitOK == AnswerInit => AnswerInv
<1> SUFFICES ASSUME AnswerInit PROVE AnswerInv
  OBVIOUS
<1>1. AnswerShaped(answer)
  BY AnswersAssumption DEF AnswerInit
<1> QED BY <1>1 DEF AnswerInit, AnswerInv

\* Every step keeps the invariant.
LEMMA AnswerNextOK ==
  ASSUME AnswerInv, [AnswerNext]_answerVars PROVE AnswerInv'
<1>1. CASE Unreadable
  BY <1>1 DEF Unreadable, Refuse, AnswerInv
<1>2. CASE ParseBatchPlan \/ ParseAuditVerdict \/ ParseFinalAudit
  <2>1. outcome = "reading" /\ Readable(answer.text) /\ ~Strict /\ Take(Candidates(answer.text))
    BY <1>2 DEF ParseBatchPlan, ParseAuditVerdict, ParseFinalAudit, Reading, Strict
  <2>2. Cands = Candidates(answer.text)
    BY <2>1 DEF Cands, Strict
  <2> QED BY <2>1, <2>2, TakeStep
<1>3. CASE ParseProposalIntegration
  <2>1. /\ outcome = "reading" /\ Readable(answer.text)
        /\ Cands = OnlyCandidate(answer.text) /\ Take(OnlyCandidate(answer.text))
    BY <1>3 DEF ParseProposalIntegration, Reading, Cands
  <2> QED BY <2>1, TakeStep
<1>4. CASE UNCHANGED <<answer, at, outcome, adopted>>
  BY <1>4 DEF AnswerInv, Passed, Cands, Accepted
<1>5. Materialise \/ Build \/ Approve \/ Restart \/ UNCHANGED answerVars
        => UNCHANGED <<answer, at, outcome, adopted>>
  BY DEF Materialise, Build, Approve, Work, Restart, answerVars
<1> QED BY <1>1, <1>2, <1>3, <1>4, <1>5 DEF AnswerNext

\* AnswerInv is an invariant.
THEOREM AnswerInvariance == AnswerSpec => []AnswerInv
<1>1. AnswerInit => AnswerInv
  BY AnswerInitOK
<1>2. AnswerInv /\ [AnswerNext]_answerVars => AnswerInv'
  BY AnswerNextOK
<1> QED BY <1>1, <1>2, PTL DEF AnswerSpec

\* A text that is read is made of shaped pieces.
LEMMA PiecesAre ==
  ASSUME AnswerShaped(answer), Readable(answer.text)
  PROVE  /\ answer.text \in Seq(Range(answer.text))
         /\ \A i \in DOMAIN answer.text :
              answer.text[i].form \in {"OBJECT", "PART"} =>
                (Accepted(answer.text[i].value) <=> Sound(answer.text[i].value))
<1>1. answer.text \in Seq(Range(answer.text))
  BY DEF AnswerShaped
<1> SUFFICES ASSUME NEW i \in DOMAIN answer.text, answer.text[i].form \in {"OBJECT", "PART"}
             PROVE  Accepted(answer.text[i].value) <=> Sound(answer.text[i].value)
  BY <1>1
<1>2. answer.text[i] \in Range(answer.text)
  BY DEF Range
<1>3. ValueShaped(answer.text[i].value)
  BY <1>2 DEF AnswerShaped
<1> QED BY <1>3, AcceptedIsSound DEF AnswerShaped

\* What is found at a place is the object that stands there.
LEMMA RegionIs ==
  ASSUME NEW text, NEW i
  PROVE  /\ Region(text, i).form \in {"OBJECT", "PROSE"}
         /\ Region(text, i).form = "OBJECT" <=> Scanned(text, i)
         /\ Scanned(text, i) => text[i].form \in {"OBJECT", "PART"}
         /\ Region(text, i).form = "OBJECT" => Region(text, i).value = text[i].value
<1>1. /\ [form |-> "OBJECT", net |-> 0, value |-> text[i].value].form = "OBJECT"
      /\ [form |-> "OBJECT", net |-> 0, value |-> text[i].value].value = text[i].value
      /\ NoJson.form = "PROSE"
  BY DEF NoJson
<1> QED BY <1>1 DEF Region, Scanned

\* AnswersFailClosed: for any answers, texts, plans and bounds, an answer is
\* adopted only for an object that is sound as a whole and either all there is
\* between the markers or found where the scan counts no open brace; the object
\* between the markers comes first; and a refusal means that no sound object
\* stood at such a place.
THEOREM AnswersCorrect == AnswerSpec => []AnswersFailClosed
<1>1. AnswerInv => AnswersFailClosed
  <2> DEFINE text == IF Readable(answer.text) THEN answer.text ELSE << >>
             enclosed == IF Places(text, "START") = {} THEN {} ELSE Enclosed(text)
             objects == {i \in DOMAIN text : text[i].form \in {"OBJECT", "PART"} /\ Sound(text[i].value)}
             pay == Payload(text)
             paired == Cardinality(Pairs(text)) = 1
             isAdopted(i) == adopted = text[i].value
             Whence == outcome = "adopted" =>
                         \E i \in objects : isAdopted(i) /\ (i \in enclosed \/ (~Strict /\ Scanned(text, i)))
             First == \A i \in enclosed \cap objects : (Strict => paired) => isAdopted(i)
             Alone == outcome = "adopted" /\ Strict => paired
             Nothing == outcome = "refused" /\ ~Strict =>
                          \/ \E i \in enclosed : text[i].form = "LIST"
                          \/ \A i \in objects : ~Scanned(text, i)
  <2> SUFFICES ASSUME AnswerInv, outcome # "reading" PROVE Whence /\ First /\ Alone /\ Nothing
    BY DEF AnswersFailClosed, Strict
  <2>1. CASE ~Readable(answer.text)
    <3>1. text = << >> /\ DOMAIN << >> = {}
      BY <2>1
    <3>2. Places(text, "START") = {} /\ objects = {} /\ outcome # "adopted"
      BY <2>1, <3>1 DEF Places, AnswerInv
    <3>3. enclosed = {}
      BY <3>2
    <3> HIDE DEF text, enclosed, objects
    <3> QED BY <3>2, <3>3
  <2>2. CASE Readable(answer.text)
    <3>1. text = answer.text
      BY <2>2
    <3>2. /\ text \in Seq(Range(text))
          /\ \A i \in DOMAIN text : text[i].form \in {"OBJECT", "PART"} =>
               (Accepted(text[i].value) <=> Sound(text[i].value))
      BY <2>2, <3>1, PiecesAre DEF AnswerInv
    <3>3. /\ Len(Cands) \in Nat
          /\ \A k \in 1..Len(Cands) :
               \/ k = 1 /\ Len(pay) = 1 /\ Cands[k] = pay[1] /\ (Strict => paired)
               \/ ~Strict /\ \E i \in DOMAIN text : Cands[k] = Region(text, i)
          /\ Len(pay) = 1 /\ (Strict => paired) => 1 <= Len(Cands) /\ Cands[1] = pay[1]
          /\ ~Strict => \A i \in DOMAIN text : \E k \in 1..Len(Cands) : Cands[k] = Region(text, i)
      BY <2>2, <3>1, <3>2, CandsAre
    <3>4. /\ \A i \in enclosed : /\ i \in DOMAIN text /\ text[i].form \in {"OBJECT", "LIST"}
                                 /\ Len(pay) = 1 /\ pay[1] = text[i]
          /\ Len(pay) = 1 /\ pay[1].form \in {"OBJECT", "LIST"} => \E i \in enclosed : pay[1] = text[i]
      BY <3>2, EnclosedIs
    <3>5. /\ at \in Nat \ {0}
          /\ \A k \in 1..(at - 1) : Passed(k)
          /\ outcome = "adopted" => /\ at \in 1..Len(Cands) /\ Cands[at].form = "OBJECT"
                                    /\ Accepted(Cands[at].value) /\ adopted = Cands[at].value
          /\ outcome = "refused" => at > Len(Cands) \/ (at \in 1..Len(Cands) /\ Cands[at].form = "LIST")
          /\ outcome \in {"adopted", "refused"}
      BY <2>2 DEF AnswerInv
    <3> HIDE DEF text, enclosed, pay, paired
    <3>6. ASSUME outcome = "adopted"
          PROVE  /\ \E i \in objects : isAdopted(i) /\ (i \in enclosed \/ (~Strict /\ Scanned(text, i)))
                 /\ Strict => paired
      <4>1. CASE at = 1 /\ Len(pay) = 1 /\ Cands[at] = pay[1] /\ (Strict => paired)
        <5>1. PICK i \in enclosed : pay[1] = text[i]
          BY <3>4, <3>5, <3>6, <4>1
        <5>2. isAdopted(i) /\ Accepted(text[i].value) /\ text[i].form = "OBJECT"
          BY <3>5, <3>6, <4>1, <5>1
        <5>3. i \in objects
          BY <3>2, <3>4, <5>1, <5>2
        <5> HIDE DEF isAdopted, objects
        <5> QED BY <4>1, <5>1, <5>2, <5>3
      <4>2. CASE ~Strict /\ \E i \in DOMAIN text : Cands[at] = Region(text, i)
        <5>1. PICK i \in DOMAIN text : Cands[at] = Region(text, i)
          BY <4>2
        <5>2. /\ Scanned(text, i) /\ text[i].form \in {"OBJECT", "PART"}
              /\ Cands[at].value = text[i].value
          BY <3>5, <3>6, <5>1, RegionIs
        <5>3. isAdopted(i) /\ i \in objects
          BY <3>2, <3>5, <3>6, <5>2
        <5> HIDE DEF isAdopted, objects
        <5> QED BY <4>2, <5>2, <5>3
      <4> QED BY <3>3, <3>5, <3>6, <4>1, <4>2
    <3>7. ASSUME NEW i \in enclosed \cap objects, Strict => paired PROVE isAdopted(i)
      <4>0. text[i].form = "OBJECT" /\ Accepted(text[i].value)
        BY <3>2, <3>4, <3>7
      <4>1. Cands[1] = text[i] /\ 1 <= Len(Cands)
        BY <3>3, <3>4, <3>7
      <4>2. ~Passed(1)
        BY <4>0, <4>1 DEF Passed
      <4>3. at = 1
        <5>1. 1 \notin 1..(at - 1)
          BY <3>5, <4>2
        <5> QED BY <3>5, <5>1
      <4>4. outcome # "refused"
        BY <3>3, <3>5, <4>0, <4>1, <4>3
      <4> QED BY <3>5, <4>1, <4>3, <4>4
    <3>8. ASSUME outcome = "refused", ~Strict, NEW j \in objects, Scanned(text, j)
          PROVE  \E i \in enclosed : text[i].form = "LIST"
      <4>1. PICK k \in 1..Len(Cands) : Cands[k] = Region(text, j)
        BY <3>3, <3>8
      <4>2. ~Passed(k)
        BY <3>2, <3>8, <4>1, RegionIs DEF Passed
      <4>3. at \in 1..Len(Cands) /\ Cands[at].form = "LIST"
        <5>1. k \notin 1..(at - 1)
          BY <3>5, <4>2
        <5>2. ~(at > Len(Cands))
          BY <3>3, <3>5, <4>1, <5>1
        <5> QED BY <3>5, <3>8, <5>2
      <4>4. Len(pay) = 1 /\ Cands[at] = pay[1]
        <5>1. \A i : Region(text, i).form # "LIST"
          BY RegionIs
        <5> QED BY <3>3, <4>3, <5>1
      <4> QED BY <3>4, <4>3, <4>4
    <3>9. Whence /\ Alone
      <4> HIDE DEF isAdopted, objects
      <4> QED BY <3>6
    <3>10. First
      BY <3>7
    <3>11. Nothing
      <4> HIDE DEF objects
      <4> QED BY <3>8
    <3> QED BY <3>9, <3>10, <3>11
  <2> QED BY <2>1, <2>2
<1> QED BY <1>1, AnswerInvariance, PTL
=============================================================================
