------------------------------- MODULE Runner -------------------------------
(***************************************************************************)
(* One stage request from the dispatcher to the stage result envelope:     *)
(* src/runners.  A worker thread resolves the runner's name, the adapter   *)
(* starts a child process and either polls it (codex_cli) or talks to it   *)
(* over its pipes (pi_rpc), every wait has a deadline, and the raw result  *)
(* is normalized into the envelope the router reads.                       *)
(*                                                                         *)
(* The child is an adversary: it may write any final message, any record,  *)
(* never answer, ignore a termination request, or die at any moment.  Time *)
(* is one bit, due: the deadline of the wait the adapter is in has passed. *)
(* A text is the sequence of its lines, a line being a terminal marker or  *)
(* "talk".  Assumed of the environment: the prompt fits the child's input  *)
(* pipe, and nobody but the child holds its output pipe open.              *)
(***************************************************************************)
EXTENDS Naturals, Sequences

CONSTANTS
    Asked,          \* runner names requests ask for; "" asks for none
    Registered,     \* names the registry knows
    DefaultRunner,  \* the dispatcher's default name, or ""
    Policies,       \* outcome policies of the requested node
    Lines,          \* lines a child writes
    Phrases,        \* failure phrases found in its output
    PipeDepth       \* bound on the records waiting in the pipe

ASSUME PipeDepthAssumption == PipeDepth \in Nat

VARIABLES
    req,      \* the request: runner asked for, outcome policy, evidence lacking
    pc,       \* where the worker is
    child,    \* the child process: state, exit code, killed by the adapter
    due,      \* the deadline of the current wait has passed
    pipe,     \* records of the Pi child not read yet
    sent,     \* commands the Pi child has not answered yet
    said,     \* the final message as the child wrote it
    heard,    \* the final text as the Pi client got it
    flagged,  \* the Pi client saw an error stop reason
    raw,      \* RunnerRawResult
    answer    \* the stage result envelope

vars == <<req, pc, child, due, pipe, sent, said, heard, flagged, raw, answer>>

-----------------------------------------------------------------------------
(* Texts, markers and the request's policy                                 *)

Absent == <<"absent">>

Messages == {<<>>} \cup {<<a>> : a \in Lines} \cup {<<a, b>> : a, b \in Lines}

Tokens(text) == {text[i] : i \in DOMAIN text} \ {"talk", "absent"}

\* The result classes the node's policy allows each outcome.  Shipped nodes
\* give every outcome but BLOCKED one class; an operator's stage kind may give
\* any outcome several.
Classes(policy) ==
    [t \in {"DONE", "BLOCKED"} |->
        IF t = "BLOCKED" THEN {"blocked", "recoverable_failure"}
        ELSE IF policy = "several" THEN {"success", "no_op"} ELSE {"success"}]

Legal(token) == token \in DOMAIN Classes(req.policy)

\* The class of an outcome: the one named, or the only one, or blocked.
ResolveClass(token, named) ==
    LET allowed == Classes(req.policy)[token] IN
    IF named # "unset" THEN IF named \in allowed THEN named ELSE "unset"
    ELSE IF \E c \in allowed : allowed = {c} THEN CHOOSE c \in allowed : TRUE
    ELSE IF token = "BLOCKED" /\ "blocked" \in allowed THEN "blocked"
    ELSE "unset"

-----------------------------------------------------------------------------
(* Normalization                                                           *)

NoRaw == [exit |-> "none"]

\* A raw result of an adapter: how it ended, what it left, whose it is.
Raw(exit, code, observed, out) ==
    [exit |-> exit, code |-> code, observed |-> observed, out |-> out,
     own |-> TRUE, missing |-> req.missing]

Stdout(text) == [form |-> "stdout", text |-> text]
NoOutput == [form |-> "none"]

\* The worker turns an adapter's error into a raw result of its own: a
\* runner error without evidence requirements and an empty stdout.
ExceptionRaw ==
    [exit |-> "runner_error", code |-> "nonzero", observed |-> "none",
     out |-> Stdout(<<>>), own |-> TRUE, missing |-> FALSE]

BadExit(r) == r.exit # "completed" \/ r.code = "nonzero"

\* The first phrase in the order the classifier looks for them.
Evidence(phrases) ==
    IF "not_found" \in phrases THEN "runner_binary_missing"
    ELSE IF "auth" \in phrases THEN "auth_missing_or_invalid"
    ELSE IF "rate" \in phrases THEN "provider_rate_limited"
    ELSE IF "network" \in phrases THEN "network_unavailable"
    ELSE IF "overloaded" \in phrases THEN "provider_unavailable"
    ELSE "none"

ExitFailure(r, phrases) ==
    IF r.exit = "timeout" THEN "runner_timeout"
    ELSE IF r.missing THEN "capability_evidence_missing"
    ELSE IF Evidence(phrases) # "none" THEN Evidence(phrases)
    ELSE IF r.exit = "provider_error" THEN "provider_unavailable"
    ELSE "runner_transport_failure"

\* Failure classes that a later attempt may cure.
Transient(failure) ==
    failure \in {"runner_timeout", "network_unavailable",
                 "provider_unavailable", "provider_rate_limited"}

Found(token, class) == [marker |-> token, class |-> class, failure |-> "none"]
NotFound(failure) == [marker |-> "none", class |-> "none", failure |-> failure]

\* A result file names the outcome; its class and the files it lists count.
FromFile(out) ==
    IF out.form = "file_gone" THEN NotFound("missing_terminal_result")
    ELSE IF \/ out.form = "file_broken"
            \/ ~out.stage
            \/ ~Legal(out.token)
            \/ ResolveClass(out.token, out.named) = "unset"
         THEN NotFound("illegal_terminal_result")
    ELSE IF ~out.files THEN NotFound("missing_required_artifact")
    ELSE Found(out.token, ResolveClass(out.token, out.named))

\* Defect: of several markers the last one counts.
FromStdoutLast(out) ==
    IF out.form = "none" \/ Tokens(out.text) = {}
    THEN NotFound("missing_terminal_result")
    ELSE LET token == IF out.text[Len(out.text)] = "talk" THEN out.text[1]
                      ELSE out.text[Len(out.text)] IN
         IF Legal(token) THEN Found(token, ResolveClass(token, "unset"))
         ELSE NotFound("illegal_terminal_result")

\* Stdout must hold one marker, however often; which class it has is then
\* taken for granted.
FromStdout(out) ==
    IF out.form = "none" \/ Tokens(out.text) = {}
    THEN NotFound("missing_terminal_result")
    ELSE IF \E a, b \in Tokens(out.text) : a # b
    THEN NotFound("conflicting_terminal_results")
    ELSE LET token == CHOOSE t \in Tokens(out.text) : TRUE IN
         IF ~Legal(token) THEN NotFound("illegal_terminal_result")
         ELSE IF ResolveClass(token, "unset") = "unset" THEN NotFound("panic")
         ELSE Found(token, ResolveClass(token, "unset"))

Extraction(r) ==
    IF r.out.form \in {"none", "stdout"} THEN FromStdout(r.out)
    ELSE FromFile(r.out)

\* Identity first, then the exit, the evidence, and at last the marker.
Judged(r, phrases) ==
    IF ~r.own THEN NotFound("runner_transport_failure")
    ELSE IF BadExit(r) THEN NotFound(ExitFailure(r, phrases))
    ELSE IF r.missing THEN NotFound("capability_evidence_missing")
    ELSE Extraction(r)

\* A failure is always told as a recoverable BLOCKED of the stage's plane.
FailureEnvelope(failure) ==
    [marker |-> "BLOCKED", class |-> "recoverable_failure",
     failure |-> failure, transient |-> Transient(failure)]

NoAnswer == [failure |-> "unanswered"]

Envelope(r, phrases) ==
    LET found == Judged(r, phrases) IN
    IF found.failure # "none" THEN FailureEnvelope(found.failure)
    ELSE [marker |-> found.marker, class |-> found.class,
          failure |-> "none", transient |-> FALSE]

-----------------------------------------------------------------------------
(* The request and the dispatcher                                          *)

NoChild == [state |-> "none", code |-> "none", killed |-> FALSE]
NewChild == [state |-> "running", code |-> "none", killed |-> FALSE]

Init ==
    /\ req \in [asked : Asked, policy : Policies, missing : BOOLEAN]
    /\ pc = "start"
    /\ child = NoChild
    /\ due = FALSE
    /\ pipe = <<>>
    /\ sent = {}
    /\ said = Absent
    /\ heard = Absent
    /\ flagged = FALSE
    /\ raw = NoRaw
    /\ answer = NoAnswer

\* The request's name, the dispatcher's default, and codex_cli, in that order.
Runner ==
    IF req.asked # "" THEN req.asked
    ELSE IF DefaultRunner # "" THEN DefaultRunner
    ELSE "codex_cli"

Finish(r) == raw' = r /\ pc' = "finished"

NoSession == UNCHANGED <<pipe, sent, heard, flagged>>

\* A name nobody registered: the worker answers with an exception.
Unknown ==
    /\ pc = "start"
    /\ Runner \notin Registered
    /\ Finish(ExceptionRaw)
    /\ NoSession /\ UNCHANGED <<req, child, due, said, answer>>

\* The prompt or the invocation artifact cannot be written.
PrepareFails ==
    /\ pc = "start"
    /\ Runner \in Registered
    /\ Finish(ExceptionRaw)
    /\ NoSession /\ UNCHANGED <<req, child, due, said, answer>>

\* Any other adapter an embedding program registers ends its run by itself,
\* with whatever raw result passes validation.
OtherRaws ==
    LET outs == {NoOutput, [form |-> "file_gone"], [form |-> "file_broken"]}
                \cup {Stdout(m) : m \in Messages}
                \cup [form : {"file"}, stage : BOOLEAN, token : Lines \ {"talk"},
                      named : {"unset", "success", "blocked"}, files : BOOLEAN]
    IN [exit : {"completed", "timeout", "runner_error", "provider_error",
                "interrupted"},
        code : {"zero", "nonzero", "none"}, observed : {"none"}, out : outs,
        own : BOOLEAN, missing : {req.missing}]

OtherRuns ==
    /\ pc = "start"
    /\ Runner = "other"
    /\ \E r \in OtherRaws :
          /\ Finish(r)
          /\ said' = IF r.out.form = "stdout" THEN r.out.text
                     ELSE IF r.out.form = "file" THEN <<r.out.token>> ELSE Absent
    /\ NoSession /\ UNCHANGED <<req, child, due, answer>>

-----------------------------------------------------------------------------
(* codex_cli: start, poll every 25 ms, cut off at the deadline             *)

CodexStarts ==
    /\ pc = "start"
    /\ Runner = "codex_cli" /\ Runner \in Registered
    /\ \/ /\ child' = NewChild          \* spawned
          /\ pc' = "poll"
          /\ UNCHANGED raw
       \/ /\ Finish(Raw("runner_error", "nonzero", "none", Stdout(<<>>)))
          /\ UNCHANGED child            \* binary missing, or spawn failed
    /\ NoSession /\ UNCHANGED <<req, due, said, answer>>

\* The final message becomes stdout; without one the event log does, whose
\* lines are no markers.
CodexStdout == Stdout(IF said = Absent THEN <<"talk">> ELSE said)

\* Non-zero exit is a runner error.  A child ended by a signal has no code and
\* counts as completed.
CodexOutcome == IF child.code = "nonzero" THEN "runner_error" ELSE "completed"

CodexExited ==
    /\ pc = "poll"
    /\ child.state = "exited"
    /\ child' = [child EXCEPT !.state = "reaped"]
    /\ Finish(Raw(CodexOutcome, child.code, "none", CodexStdout))
    /\ NoSession /\ UNCHANGED <<req, due, said, answer>>

\* try_wait fails: only for a child that is gone and was waited for elsewhere.
CodexWaitFails ==
    /\ pc = "poll"
    /\ child.state = "exited"
    /\ child' = [child EXCEPT !.state = "reaped"]
    /\ Finish(Raw("runner_error", "nonzero", "none", CodexStdout))
    /\ NoSession /\ UNCHANGED <<req, due, said, answer>>

\* Defect: the run is given up at the deadline and the child left to itself.
CodexDeadlineOnly ==
    /\ pc = "poll"
    /\ child.state = "running" /\ due
    /\ Finish(Raw("timeout", "nonzero", "none", CodexStdout))
    /\ NoSession /\ UNCHANGED <<req, child, due, said, answer>>

\* Seen running with the deadline passed: killed, and waited for.
CodexDeadline ==
    /\ pc = "poll"
    /\ child.state = "running" /\ due
    /\ child' = [child EXCEPT !.killed = TRUE]
    /\ pc' = "reap"
    /\ NoSession /\ UNCHANGED <<req, due, said, raw, answer>>

\* A timed-out child's message counts if its last line is the only legal
\* marker in it.
Reconciled(text) ==
    LET legal == {i \in DOMAIN text : text[i] # "talk" /\ Legal(text[i])} IN
    /\ text # <<>> /\ text # Absent
    /\ legal = {Len(text)}

TimeoutRaw ==
    IF Reconciled(said) THEN Raw("completed", "zero", "timeout", CodexStdout)
    ELSE Raw("timeout", "nonzero", "none", CodexStdout)

CodexReap ==
    /\ pc = "reap"
    /\ child.state = "exited"
    /\ child' = [child EXCEPT !.state = "reaped"]
    /\ Finish(TimeoutRaw)
    /\ NoSession /\ UNCHANGED <<req, due, said, answer>>

-----------------------------------------------------------------------------
(* pi_rpc: a prompt, a stream of events, two questions, and the end of the *)
(* process                                                                 *)

Reading == {"prompt", "stream", "text", "stats", "grace"}

\* What the next read of the child's output gives.
\* Defect: records that wait are read before the clock is looked at.
ReadWaiting ==
    IF pipe # <<>> THEN "record"
    ELSE IF due THEN "timeout"
    ELSE IF child.state # "running" THEN "eof" ELSE "nothing"

Read ==
    IF due THEN "timeout"
    ELSE IF pipe # <<>> THEN "record"
    ELSE IF child.state # "running" THEN "eof" ELSE "nothing"

Take == IF Read = "record" THEN pipe' = Tail(pipe) ELSE UNCHANGED pipe

Record(type) == Read = "record" /\ Head(pipe).type = type

\* The session has a result; the process is still to be ended.
Concluded(r) == raw' = r /\ pc' = "closing" /\ due' = FALSE

\* Transport failures and records that are no JSON objects end the session.
SessionError == Concluded(Raw("runner_error", "nonzero", "none", NoOutput))

PiStarts ==
    /\ pc = "start"
    /\ Runner = "pi_rpc" /\ Runner \in Registered
    /\ \/ /\ child' = NewChild
          /\ sent' = {"prompt"}
          /\ pc' = "prompt"
          /\ UNCHANGED raw
       \/ /\ Finish(Raw("runner_error", "nonzero", "none", NoOutput))
          /\ UNCHANGED <<child, sent>>
    /\ UNCHANGED <<req, due, pipe, said, heard, flagged, answer>>

\* The abort command is sent and the child given a grace period.
Abort == pc' = "grace" /\ due' = FALSE /\ UNCHANGED raw

\* Whatever comes before the answer to the prompt is kept but not looked at.
AwaitPrompt ==
    /\ pc = "prompt"
    /\ Read # "nothing"
    /\ Take
    /\ \/ Read = "timeout" /\ Abort
       \/ (Read = "eof" \/ Record("bad")) /\ SessionError
       \/ Record("rejected") /\ Concluded(Raw("runner_error", "nonzero", "none", NoOutput))
       \/ Record("ok") /\ pc' = "stream" /\ UNCHANGED <<due, raw>>
       \/ /\ Record("event") \/ Record("error") \/ Record("end") \/ Record("end_error")
          /\ UNCHANGED <<pc, due, raw>>
    /\ UNCHANGED <<req, child, sent, said, heard, flagged, answer>>

\* Defect: a question is recorded under the phase that asks it.
AskInPhase(question) == pc' = question /\ due' = FALSE /\ sent' = sent \cup {pc}

\* Each question has five seconds of its own.
Ask(question) == pc' = question /\ due' = FALSE /\ sent' = sent \cup {question}

Stream ==
    /\ pc = "stream"
    /\ Read # "nothing"
    /\ Take
    /\ flagged' = (flagged \/ Record("error") \/ Record("end_error"))
    /\ \/ Read = "timeout" /\ Abort /\ UNCHANGED sent
       \/ /\ Read = "eof" \/ Record("bad")
          /\ SessionError
          /\ UNCHANGED sent
       \/ (Record("end") \/ Record("end_error")) /\ Ask("text") /\ UNCHANGED raw
       \/ (Record("event") \/ Record("error")) /\ UNCHANGED <<pc, due, raw, sent>>
    /\ UNCHANGED <<req, child, said, heard, answer>>

\* The text is asked for: an answer, none in time, a pipe that is closed
\* (found by the write or by the read).
AwaitText ==
    /\ pc = "text"
    /\ Read # "nothing"
    /\ Take
    /\ \/ /\ Record("text") \/ Read = "timeout" \/ Read = "eof"
          /\ heard' = IF Record("text") THEN Head(pipe).text ELSE heard
          /\ Ask("stats")
          /\ UNCHANGED raw
       \/ /\ Read = "eof" \/ Record("bad")
          /\ SessionError
          /\ UNCHANGED <<heard, sent>>
       \/ /\ \E t \in {"event", "error", "end", "end_error"} : Record(t)
          /\ UNCHANGED <<pc, due, raw, heard, sent>>
    /\ UNCHANGED <<req, child, said, flagged, answer>>

\* The final text, if one came, is stdout.
SessionOutput == IF heard = Absent THEN NoOutput ELSE Stdout(heard)

\* The end of a session: its text, or why there is none.
SessionRaw ==
    IF heard # Absent /\ heard # <<>>
    THEN Raw("completed", "zero", "none", SessionOutput)
    ELSE Raw(IF flagged THEN "provider_error" ELSE "runner_error", "nonzero",
             "none", SessionOutput)

AwaitStats ==
    /\ pc = "stats"
    /\ Read # "nothing"
    /\ Take
    /\ \/ (Record("stats") \/ Read = "timeout" \/ Read = "eof") /\ Concluded(SessionRaw)
       \/ (Read = "eof" \/ Record("bad")) /\ SessionError
       \/ /\ \E t \in {"event", "error", "end", "end_error", "text"} : Record(t)
          /\ UNCHANGED <<pc, due, raw>>
    /\ UNCHANGED <<req, child, sent, said, heard, flagged, answer>>

\* The grace period after the abort: read on until the child is gone.
Grace ==
    /\ pc = "grace"
    /\ Read # "nothing"
    /\ Take
    /\ \/ /\ \/ Read \in {"timeout", "eof"}
             \/ Read = "record" /\ ~Record("bad") /\ child.state # "running"
          /\ pc' = "stop" /\ due' = FALSE /\ UNCHANGED raw
       \/ Record("bad") /\ SessionError
       \/ /\ Read = "record" /\ ~Record("bad") /\ child.state = "running"
          /\ UNCHANGED <<pc, due, raw>>
    /\ UNCHANGED <<req, child, sent, said, heard, flagged, answer>>

PiTimeout == Concluded(Raw("timeout", "nonzero", "none", NoOutput))

\* Still there after the grace period: asked to terminate, then killed, with
\* a second for each.
Stop ==
    /\ \/ /\ pc \in {"stop", "stop_asked"} /\ child.state # "running"
          /\ PiTimeout /\ UNCHANGED child
       \/ /\ pc = "stop" /\ child.state = "running"
          /\ pc' = "stop_asked" /\ due' = FALSE
          /\ UNCHANGED <<child, raw>>
       \/ /\ pc = "stop_asked" /\ child.state = "running" /\ due
          /\ child' = [child EXCEPT !.killed = TRUE]
          /\ PiTimeout
    /\ NoSession /\ UNCHANGED <<req, said, answer>>

\* However the session ended, its process is shut down: its input closed,
\* then asked to terminate, then killed; and dropping the client waits for
\* the end of its output.
Shutdown ==
    /\ \/ /\ pc \in {"closing", "close_asked"}
          /\ child.state # "running"
          /\ pc' = "drop" /\ UNCHANGED <<child, due>>
       \/ /\ pc = "closing" /\ child.state = "running" /\ due
          /\ pc' = "close_asked" /\ due' = FALSE /\ UNCHANGED child
       \/ /\ pc = "close_asked" /\ child.state = "running" /\ due
          /\ child' = [child EXCEPT !.killed = TRUE]
          /\ pc' = "drop" /\ UNCHANGED due
    /\ NoSession /\ UNCHANGED <<req, said, raw, answer>>

\* The session's own state goes with the client, which looks for the exit once
\* more, kills, looks again for 100 ms, and does not care for the results: then
\* it waits for the end of the output, but no more for the child, so that one
\* that died too late for the last look stays unreaped.
Drop ==
    /\ pc = "drop"
    /\ child.state = "exited"
    /\ \/ child' = [child EXCEPT !.state = "reaped"]
       \/ child.killed /\ UNCHANGED child
    /\ pc' = "finished"
    /\ pipe' = <<>> /\ sent' = {} /\ heard' = Absent /\ flagged' = FALSE
    /\ UNCHANGED <<req, due, said, raw, answer>>

-----------------------------------------------------------------------------
(* The end of the run                                                      *)

\* The completion artifact cannot be written: the adapter's result is lost.
CompleteFails ==
    /\ pc = "finished"
    /\ Runner \in Registered
    /\ raw # ExceptionRaw
    /\ raw' = ExceptionRaw
    /\ NoSession /\ UNCHANGED <<req, pc, child, due, said, answer>>

Normalize ==
    /\ pc = "finished"
    /\ \E phrases \in SUBSET Phrases : answer' = Envelope(raw, phrases)
    /\ pc' = "done"
    /\ NoSession /\ UNCHANGED <<req, child, due, said, raw>>

-----------------------------------------------------------------------------
(* The child and the clock                                                 *)

\* The codex child writes its final message.
ChildWrites ==
    /\ Runner = "codex_cli" /\ child.state = "running"
    /\ said = Absent
    /\ said' \in Messages
    /\ NoSession /\ UNCHANGED <<req, pc, child, due, raw, answer>>

\* The Pi child writes a record: an event of any kind, or an answer.
ChildSays ==
    /\ Runner = "pi_rpc" /\ child.state = "running"
    /\ Len(pipe) < PipeDepth
    /\ \/ /\ \E t \in {"event", "error", "end", "end_error", "bad"} :
                pipe' = Append(pipe, [type |-> t])
          /\ UNCHANGED <<sent, said>>
       \/ /\ "prompt" \in sent /\ sent' = sent \ {"prompt"}
          /\ \E t \in {"ok", "rejected"} : pipe' = Append(pipe, [type |-> t])
          /\ UNCHANGED said
       \/ /\ "text" \in sent /\ sent' = sent \ {"text"}
          /\ said' \in Messages \cup {Absent}
          /\ pipe' = Append(pipe, [type |-> "text", text |-> said'])
       \/ /\ "stats" \in sent /\ sent' = sent \ {"stats"}
          /\ pipe' = Append(pipe, [type |-> "stats"])
          /\ UNCHANGED said
    /\ UNCHANGED <<req, pc, child, due, heard, flagged, raw, answer>>

ChildExits ==
    /\ child.state = "running"
    /\ \E code \in {"zero", "nonzero", "none"} :
          child' = [child EXCEPT !.state = "exited", !.code = code]
    /\ NoSession /\ UNCHANGED <<req, pc, due, said, raw, answer>>

Waiting == Reading \cup {"poll", "stop_asked", "closing", "close_asked"}

TimePasses ==
    /\ pc \in Waiting /\ ~due
    /\ due' = TRUE
    /\ NoSession /\ UNCHANGED <<req, pc, child, said, raw, answer>>

\* The worker has handed its answer over.
Done ==
    /\ pc = "done"
    /\ UNCHANGED vars

-----------------------------------------------------------------------------
Codex == CodexStarts \/ CodexExited \/ CodexWaitFails \/ CodexDeadline \/ CodexReap

Pi == \/ PiStarts \/ AwaitPrompt \/ Stream \/ AwaitText \/ AwaitStats
      \/ Grace \/ Stop \/ Shutdown \/ Drop

Worker == \/ Unknown \/ PrepareFails \/ OtherRuns \/ Codex \/ Pi
          \/ CompleteFails \/ Normalize

Next == Worker \/ ChildWrites \/ ChildSays \/ ChildExits \/ TimePasses \/ Done

\* The worker thread runs, time passes, and a killed child dies.  Nothing is
\* assumed of a child that was not killed.
Fairness ==
    /\ WF_vars(Worker)
    /\ WF_vars(TimePasses)
    /\ WF_vars(ChildExits /\ child.killed)

Spec == Init /\ [][Next]_vars /\ Fairness

-----------------------------------------------------------------------------
(* Properties                                                              *)

\* Type correctness of one stage run.
TypeOK ==
    /\ req \in [asked : Asked, policy : Policies, missing : BOOLEAN]
    /\ pc \in Waiting \cup {"start", "reap", "stop", "drop", "finished", "done"}
    /\ child \in [state : {"none", "running", "exited", "reaped"},
                  code : {"none", "zero", "nonzero"}, killed : BOOLEAN]
    /\ {due, flagged} \subseteq BOOLEAN
    /\ Len(pipe) <= PipeDepth
    /\ sent \subseteq {"prompt", "text", "stats"}
    /\ {said, heard} \subseteq Messages \cup {Absent}

\* A run that has a result leaves no process running: however the session or
\* the poll loop ended, the child it started has been reaped before the
\* adapter returns (run_codex_subprocess, shutdown_process and drop of the
\* Pi transport); only a Pi child that had to be killed may be left as a dead
\* entry of the process table.
NoChildLeft ==
    pc \in {"finished", "done"} =>
        \/ child.state \in {"none", "reaped"}
        \/ Runner = "pi_rpc" /\ child.state = "exited" /\ child.killed

\* An outcome other than a failure is one the child itself reported: its last
\* message holds that marker and no other, the request allows it, and a codex
\* child that ended by itself did so without an error code.
MarkerWasSaid ==
    pc = "done" /\ answer.failure = "none" =>
        /\ Tokens(said) = {answer.marker}
        /\ Legal(answer.marker)
        /\ ~raw.missing
        /\ Runner = "codex_cli" /\ child.code = "nonzero" => raw.observed = "timeout"

\* A codex child cut off at its deadline after it had delivered its final
\* message loses nothing: when the last line of the message is its only marker
\* and a legal one, the run counts as completed with that outcome, however the
\* message raced the kill (unless its result was lost on disk, or the node
\* gives the outcome several classes, which the normalizer does not expect).
LateAnswerForgiven ==
    /\ pc = "done" /\ Runner = "codex_cli" /\ child.killed /\ req.policy = "shipped"
    /\ raw # ExceptionRaw /\ ~raw.missing
    /\ said \notin {<<>>, Absent}
    /\ LET last == said[Len(said)] IN Legal(last) /\ {last} = Tokens(said)
                                      /\ said # <<last, last>>
    => answer.failure = "none" /\ answer.marker = said[Len(said)]

\* The answer is what the child said: nothing it did not say, and not less.
AnswerIsTheChilds == MarkerWasSaid /\ LateAnswerForgiven

\* Every run ends with an answer, whatever the child does: it may never
\* answer, flood the pipe or ignore every request to stop.
RunEnds == <>(pc = "done")
=============================================================================
