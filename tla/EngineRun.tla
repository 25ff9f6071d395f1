------------------------------ MODULE EngineRun ------------------------------
(***************************************************************************)
(* One prompt after another through a driver and the process runner        *)
(* (drivers/*.py): what is refused before a process exists, the child and  *)
(* its descendants, the timeout that kills them, the output they leave and *)
(* the result the driver makes of it.  The child may write, start a        *)
(* descendant, end or hang as it likes; a descendant may keep the child's  *)
(* output pipe open ("holder") or not ("loose").                           *)
(***************************************************************************)
EXTENDS Naturals, FiniteSets, SequencesExt

CONSTANTS MaxPrompts, MaxRecords, MaxFiles, Limit, MaxScanned

ASSUME EngineAssumption ==
  {MaxPrompts, MaxRecords, MaxFiles, Limit, MaxScanned} \subseteq Nat \ {0}

VARIABLES
  pc,        \* "idle", "waiting" (communicate), "draining" (communicate after the kill)
  n,         \* the prompt
  call,      \* how it was asked for
  child,     \* how the direct child ended
  alive,     \* alive[p]: which processes of prompt p are running
  stream,    \* the records on the child's stdout
  launched,  \* _LaunchRecorder: the prompts that reached the runner
  result     \* what the executor has of the last prompt

runVars == <<pc, n, call, child, alive, stream, launched, result>>

Prompts == 1..MaxPrompts
Engines == {"hermes", "codex", "generic_cli"}
Modes == {"stdout_text", "json", "jsonl"}
Transports == {"stdin", "temporary_file"}

\* What may be wrong with a request; the executor's preflight has seen that a
\* workspace and an engine are configured.
Flaws == {"none", "no_executable", "gone_workspace", "forbidden_arg", "provider_only",
          "bad_sandbox", "bad_effort", "bad_config", "odd_config", "no_model",
          "empty_prompt", "unencodable"}

\* resume: a session is continued; atHome: its working root is the workspace.
NoCall == [engine |-> "hermes", mode |-> "stdout_text", transport |-> "stdin",
           flaw |-> "none", resume |-> FALSE, atHome |-> TRUE]

\* outcome: none, blocked (refused, nothing changed), raised (an unexpected
\* executor error), failed and ok (a PromptResult).
NoResult == [outcome |-> "none", timedOut |-> FALSE, answered |-> FALSE,
             session |-> FALSE, started |-> FALSE]

Not(outcome) == [NoResult EXCEPT !.outcome = outcome]

-----------------------------------------------------------------------------
(* Session discovery: the rollout files, newest first *)

File == [id : 1..2, home : BOOLEAN, readable : BOOLEAN]
Stores == UNION {[1..k -> File] : k \in 0..MaxFiles}

\* The newest readable file of a session among the files that were scanned.
Heads(store) ==
  {i \in 1..Len(store) :
     /\ i <= MaxScanned
     /\ store[i].readable
     /\ \A j \in 1..i - 1 : store[j].readable => store[j].id # store[i].id}

Discovered_AnyWorkspace(store) ==
  {store[i].id : i \in {i \in Heads(store) : Cardinality({j \in Heads(store) : j < i}) < Limit}}

\* discover_sessions stops after Limit sessions, of whatever workspace; a
\* session matches when its head file has this workspace as its cwd.
Discovered(store) ==
  {store[i].id : i \in {i \in Heads(store) :
                          store[i].home /\ Cardinality({j \in Heads(store) : j < i}) < Limit}}

\* The working root a thread has: the one its newest readable file records.
RootedHere(store, id) == \E i \in 1..Len(store) :
  /\ store[i].id = id /\ store[i].readable /\ store[i].home
  /\ \A j \in 1..i - 1 : store[j].readable => store[j].id # id

-----------------------------------------------------------------------------
(* Before a process exists *)

HermesRefuses(c) == c.flaw \in {"no_executable", "gone_workspace", "forbidden_arg"}

CodexRefuses(c) == c.flaw \in {"no_executable", "gone_workspace", "forbidden_arg", "bad_effort"}

\* A config that is no dict of known keys and bounded values (in odd_config
\* the args are a number).
GenericConfigRefused(c) == c.flaw = "bad_config"

GenericRefuses(c) == GenericConfigRefused(c) \/ c.flaw \in {"no_executable", "gone_workspace"}

\* start_session raised a DriverError: the dispatch is blocked.
Refuses(c) ==
  CASE c.engine = "hermes" -> HermesRefuses(c)
    [] c.engine = "codex"  -> CodexRefuses(c)
    [] OTHER               -> GenericRefuses(c)

\* A CodexCliError is no DriverError, nor is the TypeError of tuple(): the
\* executor meets an unexpected error.
CodexBreaks(c) == c.engine = "codex" /\ c.flaw = "bad_sandbox"
GenericBreaks(c) == c.engine = "generic_cli" /\ c.flaw = "odd_config"
Breaks(c) == CodexBreaks(c) \/ GenericBreaks(c)

\* resume_session of the Codex driver looks the thread up in the store.
ResumeRefused(c, store, id) == c.engine = "codex" /\ c.resume /\ id \notin Discovered(store)

HermesArgv(c) == c.flaw # "provider_only"

\* The checks of start_session once more, over what it kept.
CodexArgv(c) == c.flaw \notin {"forbidden_arg", "bad_sandbox", "bad_effort"}

\* build_argv: a configured {model} needs a model.
GenericArgv(c) == c.flaw # "no_model"

\* An argv cannot be built: the driver returns a failed result.
ArgvRefused(c) ==
  \/ c.engine = "hermes" /\ ~HermesArgv(c)
  \/ c.engine = "codex" /\ ~CodexArgv(c)
  \/ c.engine = "generic_cli" /\ ~GenericArgv(c)

\* Codex and a Generic CLI on stdin are fed the prompt by communicate().
Unencodable(c) ==
  /\ c.flaw = "unencodable"
  /\ c.engine # "hermes"
  /\ c.engine = "generic_cli" => c.transport = "stdin"

-----------------------------------------------------------------------------
(* What a driver makes of the output *)

\* Hermes: init, text, a result without an exit code, with 0, with another
\* one, with one that is no number.  Codex: thread.started, agent_message,
\* turn.completed, turn.failed, a record whose "msg" is no object.
Written(c) ==
  CASE c.engine = "hermes" -> {"init", "text", "result_bare", "result_0", "result_1", "result_odd"}
    [] c.engine = "codex"  -> {"thread", "message", "completed", "failed", "odd_msg"}
    [] OTHER               -> {"answer", "other"}

HermesResults == {"result_bare", "result_0", "result_1", "result_odd"}

HermesOutput_ExitCodeOnly(out) ==
  [terminal |-> TRUE, good |-> TRUE, answered |-> TRUE, session |-> "init" \in Range(out)]

\* parse_stream_json: the last exit code reported counts; _as_int makes 0 of
\* one that is no number.
HermesOutput(out) ==
  LET codes == {i \in DOMAIN out : out[i] \in HermesResults \ {"result_bare"}}
  IN  [terminal |-> Range(out) \cap HermesResults # {},
       good     |-> codes = {} \/ \E i \in codes : out[i] # "result_1" /\ \A j \in codes : j <= i,
       answered |-> Range(out) \cap ({"text"} \cup HermesResults) # {},
       session  |-> "init" \in Range(out)]

\* parse_exec_jsonl
CodexOutput(out) ==
  [terminal |-> "completed" \in Range(out), good |-> "failed" \notin Range(out),
   answered |-> "message" \in Range(out),   session |-> "thread" \in Range(out)]

\* extract_result_text found the configured field, or any text.
GenericOutput(mode, out) ==
  CASE mode = "json"  -> out = <<"answer">>
    [] mode = "jsonl" -> "answer" \in Range(out)
    [] OTHER          -> out # << >>

FromOutput(o, code, timedOut) ==
  [outcome  |-> IF ~timedOut /\ o.terminal /\ code = 0 /\ o.good THEN "ok" ELSE "failed",
   timedOut |-> timedOut, answered |-> o.answered, session |-> o.session, started |-> TRUE]

HermesResult(code, timedOut, out) == FromOutput(HermesOutput(out), code, timedOut)

\* A "msg" that is no object has no get(): the parser raises.
CodexResult(code, timedOut, out) ==
  IF "odd_msg" \in Range(out) THEN Not("raised")
  ELSE FromOutput(CodexOutput(out), code, timedOut)

GenericResult(mode, code, timedOut, out) ==
  LET found == ~timedOut /\ GenericOutput(mode, out)
  IN  [outcome |-> IF found /\ code = 0 THEN "ok" ELSE "failed", timedOut |-> timedOut,
       answered |-> found, session |-> FALSE, started |-> TRUE]

\* wait_for_completion after the runner returned.
Mapped(code, timedOut, out) ==
  CASE call.engine = "hermes" -> HermesResult(code, timedOut, out)
    [] call.engine = "codex"  -> CodexResult(code, timedOut, out)
    [] OTHER                  -> GenericResult(call.mode, code, timedOut, out)

-----------------------------------------------------------------------------
RunInit ==
  /\ pc = "idle" /\ n = 0 /\ call = NoCall
  /\ child = [ended |-> "no", code |-> 0]
  /\ alive = [p \in Prompts |-> {}]
  /\ stream = << >> /\ launched = {} /\ result = NoResult

\* The dispatch ends before a process was tried.
Refused(r) ==
  /\ pc' = "idle" /\ result' = r
  /\ stream' = << >>
  /\ UNCHANGED <<child, alive, launched>>

\* executor_started: some process reached the runner since the application
\* started.
Started == launched # {}

\* The spec reaches the runner and is recorded; Popen may raise.  With a
\* prompt that cannot be encoded communicate() raises, and nothing ends the
\* child.
Launch(c) ==
  /\ launched' = launched \cup {n'}
  /\ child' = [ended |-> "no", code |-> 0]
  /\ stream' = << >>
  /\ \/ /\ pc' = "idle" /\ result' = Not("raised")
        /\ UNCHANGED alive
     \/ /\ alive' = [alive EXCEPT ![n'] = {"child"}]
        /\ IF Unencodable(c)
           THEN pc' = "idle" /\ result' = Not("raised")
           ELSE pc' = "waiting" /\ result' = NoResult

\* What the executor may ask of a driver: a stateless one never resumes, and
\* only a Generic CLI has modes and transports.
Requests ==
  {c \in [engine : Engines, mode : Modes, transport : Transports, flaw : Flaws,
          resume : BOOLEAN, atHome : {TRUE}] :
     IF c.engine = "generic_cli" THEN ~c.resume ELSE c.mode = "stdout_text" /\ c.transport = "stdin"}

\* What the Codex store may hold when a sound request is made.
StoresFor(c) ==
  IF c.engine = "codex" /\ c.resume /\ c.flaw = "none" THEN Stores
  ELSE {<<[id |-> 1, home |-> TRUE, readable |-> TRUE]>>}

\* start_session, resume_session of session 1, send_prompt, the argv, then
\* the runner.
Dispatch ==
  /\ pc = "idle" /\ n < MaxPrompts
  /\ n' = n + 1
  /\ \E c \in Requests : \E store \in StoresFor(c) :
       /\ call' = [c EXCEPT !.atHome = ~c.resume \/ RootedHere(store, 1)]
       /\ CASE Refuses(c)                 -> Refused(Not("blocked"))
            [] Breaks(c)                  -> Refused(Not("raised"))
            [] ResumeRefused(c, store, 1) -> Refused(Not("failed"))
            [] c.flaw = "empty_prompt"    -> Refused(Not("raised"))
            [] ArgvRefused(c)             -> Refused([Not("failed") EXCEPT !.started = Started])
            [] OTHER                      -> Launch(c)

-----------------------------------------------------------------------------
(* The processes *)

Running(p) == "child" \in alive[p]

\* MaxRecords bounds the output of the last prompt; each earlier one may
\* write one record fewer.
Write ==
  /\ pc = "waiting" /\ Running(n) /\ Len(stream) + MaxPrompts - n < MaxRecords
  /\ \E r \in Written(call) \cup {"bytes"} : stream' = Append(stream, r)   \* bytes: no text
  /\ UNCHANGED <<pc, n, call, child, alive, launched, result>>

Spawn ==
  /\ pc = "waiting" /\ alive[n] = {"child"}
  /\ \E k \in {"holder", "loose"} : alive' = [alive EXCEPT ![n] = @ \cup {k}]
  /\ UNCHANGED <<pc, n, call, child, stream, launched, result>>

ChildEnds ==
  /\ pc = "waiting" /\ Running(n)
  /\ alive' = [alive EXCEPT ![n] = @ \ {"child"}]
  /\ \E code \in 0..1 : child' = [ended |-> "exited", code |-> code]
  /\ UNCHANGED <<pc, n, call, stream, launched, result>>

\* A process the runner no longer waits for ends.
StrayEnds ==
  /\ \E p \in Prompts, k \in {"child", "holder", "loose"} :
       /\ k \in alive[p]
       /\ k = "child" => p # n \/ pc = "idle"
       /\ alive' = [alive EXCEPT ![p] = @ \ {k}]
  /\ UNCHANGED <<pc, n, call, child, stream, launched, result>>

-----------------------------------------------------------------------------
(* SubprocessRunner.run *)

\* kill_process_tree: nothing, once the direct child has ended.
Killed(procs) == IF "child" \in procs THEN {} ELSE procs

Returned(r) ==
  /\ pc' = "idle" /\ result' = r
  /\ UNCHANGED <<n, call, child, alive, stream, launched>>

\* communicate() ends with the child and with the last holder of its pipes;
\* output that is not text in the runner's encoding raises.
ReadToEnd ==
  /\ pc = "waiting" /\ child.ended = "exited" /\ "holder" \notin alive[n]
  /\ Returned(IF "bytes" \in Range(stream) THEN Not("raised")
              ELSE Mapped(child.code, FALSE, stream))

\* The time is up, also in the moment of a normal end.
Expire ==
  /\ pc = "waiting" /\ pc' = "draining"
  /\ child' = IF Running(n) THEN [ended |-> "killed", code |-> 0] ELSE child
  /\ alive' = [alive EXCEPT ![n] = Killed(@)]
  /\ UNCHANGED <<n, call, stream, launched, result>>

\* The second communicate() reads what is there; whatever it raises, the
\* output is empty.
Drained ==
  /\ pc = "draining" /\ "holder" \notin alive[n]
  /\ Returned(Mapped(1, TRUE, IF "bytes" \in Range(stream) THEN << >> ELSE stream))

GiveUp_Waits ==
  /\ pc = "draining" /\ "holder" \notin alive[n]
  /\ Returned(Mapped(1, TRUE, << >>))

\* After 30 more seconds the output is given up.
GiveUp ==
  /\ pc = "draining" /\ "holder" \in alive[n]
  /\ Returned(Mapped(1, TRUE, << >>))

Runner == ReadToEnd \/ Expire \/ Drained \/ GiveUp

RunNext == Dispatch \/ Write \/ Spawn \/ ChildEnds \/ StrayEnds \/ Runner

\* The runner's own clock runs; nothing is assumed of any process.
RunSpec == RunInit /\ [][RunNext]_runVars /\ WF_runVars(Runner)

-----------------------------------------------------------------------------
(* Properties *)

\* The stream's own last word on the run is not a failure.
NoLastFailure ==
  CASE call.engine = "hermes" ->
         \E i \in 1..Len(stream) :
           stream[i] \in HermesResults \ {"result_1"}
           /\ \A j \in i..Len(stream) : stream[j] # "result_1"
    [] call.engine = "codex" -> "completed" \in Range(stream) /\ "failed" \notin Range(stream)
    [] OTHER -> stream # << >>

\* A prompt is reported as successful only when its child ended by itself
\* with code 0, nobody can add to its output any more, all of it was read,
\* and the engine's own terminal record says so (process.py: a timeout is
\* never success; drivers: a run without a terminal record is not verified).
SuccessIsVerified == result.outcome = "ok" =>
  /\ child = [ended |-> "exited", code |-> 0]
  /\ alive[n] \cap {"child", "holder"} = {}
  /\ "bytes" \notin Range(stream)
  /\ NoLastFailure

\* No Codex thread of another workspace is ever prompted: a resumed thread
\* keeps its own working root, and the driver looks it up before the launch,
\* through unreadable, repeated and too many session files (codex.py).
ResumeStaysHome == call.engine = "codex" /\ pc # "idle" => call.atHome

\* However long the child hangs, and whoever keeps its output pipe open, a
\* dispatched prompt comes back (process.py: the timeout and the bounded
\* second read).
RunReturns == pc # "idle" ~> pc = "idle"

\* "A timeout kills the whole child tree ... so no detached orphan survives
\* the run" (process.py:16); the drivers tell the operator that the process
\* tree was terminated.
NoOrphanSurvives == pc = "idle" /\ result.timedOut => alive[n] = {}

\* "True only when a real child process was launched for this task"
\* (executor.py:321): the flag is about this prompt.
StartedIsThisCall == result.started => n \in launched
=============================================================================
