----------------------------- MODULE RunnerProofs -----------------------------
(***************************************************************************)
(* Proofs about a stage run, for any names, lines of text, failure phrases  *)
(* and depth of the pipe: its types, that no child process outlives it, and *)
(* that its answer is the one the child gave.                              *)
(***************************************************************************)
EXTENDS Runner, Integers, SequenceTheorems, TLAPS

Plain == [type : {"event", "error", "end", "end_error", "bad", "ok", "rejected", "stats"}]
Answers == [type : {"text"}, text : Messages \cup {Absent}]

CodexAt == {"poll", "reap"}
Closing == {"closing", "close_asked", "drop"}
PiAt == Reading \cup {"stop", "stop_asked"} \cup Closing
Over == {"finished", "done"}

\* Who is at work, and that its child is still to be reaped.
ChildFacts ==
    /\ pc = "start" => child = NoChild
    /\ pc \in CodexAt => Runner = "codex_cli"
    /\ pc \in PiAt => Runner = "pi_rpc"
    /\ pc \in CodexAt \cup PiAt => child.state \in {"running", "exited"}

\* The text of a Pi session is written once, in answer to a question asked once.
NoText(p) == \A i \in 1..Len(p) : p[i].type # "text"
Truthful(p, t) == \A i \in 1..Len(p) : p[i].type = "text" => p[i].text = t

Unasked == "text" \notin sent /\ heard = Absent /\ NoText(pipe)

TextFacts ==
    /\ pipe \in Seq(Plain \cup Answers) /\ Truthful(pipe, said)
    /\ pc \in {"start", "prompt", "stream"} \/ Runner # "pi_rpc" => Unasked
    /\ pc \in {"start", "prompt", "stream"} => Runner = "codex_cli" \/ said = Absent
    /\ "text" \in sent => said = Absent /\ heard = Absent /\ NoText(pipe)
    /\ heard # Absent => heard = said

\* A result that may count says what the child said.
Good(r) == ~BadExit(r) /\ r.own /\ ~r.missing
RawFacts ==
    /\ pc \in {"start"} \cup CodexAt \cup Reading \cup {"stop", "stop_asked"} => raw = NoRaw
    /\ Good(raw) =>
         \/ raw.out.form = "none"
         \/ raw.out.form = "stdout" /\ Tokens(raw.out.text) = Tokens(said) /\ "text" \notin sent
         \/ raw.out.form \in {"file_gone", "file_broken"}
         \/ raw.out.form = "file" /\ Runner = "other" /\ said = <<raw.out.token>>
    /\ Good(raw) /\ Runner = "codex_cli" =>
         raw.observed = "timeout" \/ child.code # "nonzero"

\* A child that was killed at the deadline has had its message looked at.
KilledFacts ==
    Runner = "codex_cli" /\ child.killed =>
        /\ pc \in {"reap"} \cup Over
        /\ pc \in Over => raw \in {ExceptionRaw, TimeoutRaw}

IInv == TypeOK /\ NoChildLeft /\ ChildFacts /\ TextFacts /\ RawFacts /\ KilledFacts /\ AnswerIsTheChilds
-----------------------------------------------------------------------------
(* Nothing changes the request, so the runner stays the same. *)
LEMMA SameRunner == ASSUME [Next]_vars PROVE req' = req /\ Runner' = Runner
<1>1. req' = req
  BY DEF Next, Worker, Codex, Pi, vars, Unknown, PrepareFails, OtherRuns, CodexStarts, CodexExited,
         CodexWaitFails, CodexDeadline, CodexReap, PiStarts, AwaitPrompt, Stream, AwaitText, AwaitStats, Grace, Stop,
         Shutdown, Drop, CompleteFails, Normalize, ChildWrites, ChildSays, ChildExits, TimePasses, Done
<1> QED
  BY <1>1 DEF Runner

(* A record that is read leaves the others as they are. *)
LEMMA TailKeeps ==
  ASSUME NEW p \in Seq(Plain \cup Answers), p # <<>>
  PROVE  /\ Tail(p) \in Seq(Plain \cup Answers) /\ Len(Tail(p)) = Len(p) - 1
         /\ NoText(p) => NoText(Tail(p))
         /\ \A t : Truthful(p, t) => Truthful(Tail(p), t)
         /\ Head(p) \in Plain \cup Answers /\ Head(p) = p[1] /\ 1 \in 1..Len(p)
  BY DEF NoText, Truthful

(* A record that is written comes behind the others. *)
LEMMA AppendKeeps ==
  ASSUME NEW p \in Seq(Plain \cup Answers), NEW r \in Plain \cup Answers
  PROVE  /\ Append(p, r) \in Seq(Plain \cup Answers) /\ Len(Append(p, r)) = Len(p) + 1
         /\ NoText(p) /\ r.type # "text" => NoText(Append(p, r))
         /\ \A t : Truthful(p, t) /\ (r.type = "text" => r.text = t) => Truthful(Append(p, r), t)
  BY DEF NoText, Truthful

(* Only answers are texts, and a text is a message or none. *)
LEMMA Records ==
  ASSUME NEW r \in Plain \cup Answers
  PROVE  r.type = "text" <=> r \in Answers /\ r.text \in Messages \cup {Absent}
  BY DEF Plain, Answers

(* What an adapter other than the two leaves says what its run said. *)
LEMMA OtherOut ==
  ASSUME NEW r \in OtherRaws
  PROVE  \/ r.out.form \in {"none", "file_gone", "file_broken"}
         \/ r.out.form = "stdout" /\ r.out.text \in Messages
         \/ r.out.form = "file" /\ <<r.out.token>> \in Messages
  BY DEF OtherRaws, NoOutput, Stdout, Messages
(* A read takes one record or none. *)
LEMMA TakeKeeps ==
  ASSUME TypeOK, TextFacts, Take
  PROVE  /\ pipe' \in Seq(Plain \cup Answers) /\ Len(pipe') <= PipeDepth
         /\ NoText(pipe) => NoText(pipe')
         /\ Truthful(pipe', said)
<1>1. pipe \in Seq(Plain \cup Answers) /\ Len(pipe) \in Nat /\ Len(pipe) <= PipeDepth
  BY DEF TypeOK, TextFacts
<1>2. pipe' = pipe \/ (pipe # <<>> /\ pipe' = Tail(pipe))
  BY DEF Take, Read
<1>3. CASE pipe' = pipe
  BY <1>1, <1>3 DEF TextFacts
<1>4. CASE pipe # <<>> /\ pipe' = Tail(pipe)
  <2>1. Truthful(pipe, said)
    BY DEF TextFacts
  <2> QED
    BY <1>1, <1>4, <2>1, TailKeeps, PipeDepthAssumption
<1> QED
  BY <1>2, <1>3, <1>4

(* A text that is read is what the child said. *)
LEMMA HeadText ==
  ASSUME TypeOK, TextFacts, Record("text")
  PROVE  Head(pipe).text = said /\ said \in Messages \cup {Absent}
<1>1. pipe # <<>> /\ pipe \in Seq(Plain \cup Answers) /\ Head(pipe).type = "text"
  BY DEF Record, Read, TextFacts
<1> QED
  BY <1>1, TailKeeps DEF TextFacts, Truthful, TypeOK

(* What the child writes is one record. *)
LEMMA Spoken ==
  ASSUME TypeOK, ChildSays
  PROVE  \E r \in Plain \cup Answers :
           /\ pipe' = Append(pipe, r)
           /\ \/ r.type # "text" /\ said' = said /\ sent' \subseteq sent
              \/ r.type = "text" /\ r.text = said' /\ "text" \in sent /\ sent' = sent \ {"text"}
<1>1. CASE \E t \in {"event", "error", "end", "end_error", "bad"} :
             pipe' = Append(pipe, [type |-> t]) /\ UNCHANGED <<sent, said>>
  BY <1>1 DEF Plain
<1>2. CASE \E t \in {"ok", "rejected"} :
             pipe' = Append(pipe, [type |-> t]) /\ said' = said /\ sent' = sent \ {"prompt"}
  BY <1>2 DEF Plain
<1>3. CASE pipe' = Append(pipe, [type |-> "stats"]) /\ said' = said /\ sent' = sent \ {"stats"}
  BY <1>3 DEF Plain
<1>4. CASE /\ "text" \in sent /\ sent' = sent \ {"text"} /\ said' \in Messages \cup {Absent}
           /\ pipe' = Append(pipe, [type |-> "text", text |-> said'])
  BY <1>4 DEF Answers
<1> QED
  BY <1>1, <1>2, <1>3, <1>4 DEF ChildSays

-----------------------------------------------------------------------------
(* Types, the child *)

LEMMA TypeStep ==
  ASSUME TypeOK, TextFacts, [Next]_vars
  PROVE  TypeOK'
<1>1. CASE Unknown
  BY <1>1 DEF Unknown, Finish, NoSession, TypeOK, Waiting, Reading
<1>2. CASE PrepareFails
  BY <1>2 DEF PrepareFails, Finish, NoSession, TypeOK, Waiting, Reading
<1>3. CASE OtherRuns
  <2>1. PICK r \in OtherRaws :
          /\ pc' = "finished"
          /\ said' = IF r.out.form = "stdout" THEN r.out.text
                     ELSE IF r.out.form = "file" THEN <<r.out.token>> ELSE Absent
    BY <1>3 DEF OtherRuns, Finish
  <2>2. said' \in Messages \cup {Absent}
    BY <2>1, OtherOut
  <2> QED
    BY <1>3, <2>1, <2>2 DEF OtherRuns, NoSession, TypeOK, Waiting, Reading
<1>4. CASE CodexStarts
  <2>1. pc' \in {"poll", "finished"} /\ child' \in {child, NewChild}
    BY <1>4 DEF CodexStarts, Finish
  <2>2. NewChild \in [state : {"none", "running", "exited", "reaped"},
                      code : {"none", "zero", "nonzero"}, killed : BOOLEAN]
    BY DEF NewChild
  <2>3. UNCHANGED <<req, due, pipe, sent, said, heard, flagged>>
    BY <1>4 DEF CodexStarts, NoSession
  <2> QED
    BY <2>1, <2>2, <2>3 DEF TypeOK, Waiting, Reading
<1>5. CASE CodexExited \/ CodexWaitFails
  BY <1>5 DEF CodexExited, CodexWaitFails, Finish, NoSession, TypeOK, Waiting, Reading
<1>6. CASE CodexDeadline
  BY <1>6 DEF CodexDeadline, NoSession, TypeOK, Waiting, Reading
<1>7. CASE CodexReap
  BY <1>7 DEF CodexReap, Finish, NoSession, TypeOK, Waiting, Reading
<1>8. CASE PiStarts
  <2>1. pc' \in {"prompt", "finished"} /\ child' \in {child, NewChild} /\ sent' \in {sent, {"prompt"}}
    BY <1>8 DEF PiStarts, Finish
  <2>2. NewChild \in [state : {"none", "running", "exited", "reaped"},
                      code : {"none", "zero", "nonzero"}, killed : BOOLEAN]
    BY DEF NewChild
  <2>3. UNCHANGED <<req, due, pipe, said, heard, flagged>>
    BY <1>8 DEF PiStarts
  <2> QED
    BY <2>1, <2>2, <2>3 DEF TypeOK, Waiting, Reading
<1>9. CASE AwaitPrompt
  BY <1>9, TakeKeeps DEF AwaitPrompt, Abort, SessionError, Concluded, TypeOK, Waiting, Reading
<1>10. CASE Stream
  BY <1>10, TakeKeeps DEF Stream, Abort, Ask, SessionError, Concluded, TypeOK, Waiting, Reading
<1>11. CASE AwaitText
  <2>1. heard' \in Messages \cup {Absent}
    <3>1. CASE Record("text")
      BY <1>11, <3>1, HeadText DEF AwaitText, TypeOK
    <3>2. CASE ~Record("text")
      BY <1>11, <3>2 DEF AwaitText, TypeOK
    <3> QED
      BY <3>1, <3>2
  <2> QED
    BY <1>11, <2>1, TakeKeeps DEF AwaitText, Ask, SessionError, Concluded, TypeOK, Waiting, Reading
<1>12. CASE AwaitStats
  BY <1>12, TakeKeeps DEF AwaitStats, SessionError, Concluded, TypeOK, Waiting, Reading
<1>13. CASE Grace
  BY <1>13, TakeKeeps DEF Grace, SessionError, Concluded, TypeOK, Waiting, Reading
<1>14. CASE Stop
  BY <1>14 DEF Stop, PiTimeout, Concluded, NoSession, TypeOK, Waiting, Reading
<1>15. CASE Shutdown
  BY <1>15 DEF Shutdown, NoSession, TypeOK, Waiting, Reading
<1>16. CASE Drop
  <2>1. Len(pipe') = 0 /\ 0 <= PipeDepth
    BY <1>16, PipeDepthAssumption DEF Drop
  <2>2. /\ pc' = "finished" /\ child' \in {child, [child EXCEPT !.state = "reaped"]}
        /\ sent' = {} /\ heard' = Absent /\ flagged' = FALSE /\ UNCHANGED <<req, due, said>>
    BY <1>16 DEF Drop
  <2> QED
    BY <2>1, <2>2 DEF TypeOK, Waiting, Reading
<1>17. CASE CompleteFails
  BY <1>17 DEF CompleteFails, NoSession, TypeOK, Waiting, Reading
<1>18. CASE Normalize
  BY <1>18 DEF Normalize, NoSession, TypeOK, Waiting, Reading
<1>19. CASE ChildWrites
  BY <1>19 DEF ChildWrites, NoSession, TypeOK, Waiting, Reading
<1>20. CASE ChildSays
  <2>1. PICK r \in Plain \cup Answers : pipe' = Append(pipe, r)
    BY <1>20, Spoken
  <2>2. Len(pipe') <= PipeDepth
    BY <1>20, <2>1, AppendKeeps, PipeDepthAssumption DEF ChildSays, TypeOK, TextFacts
  <2>3. said' \in Messages \cup {Absent} /\ sent' \subseteq {"prompt", "text", "stats"}
    BY <1>20 DEF ChildSays, TypeOK
  <2> QED
    BY <1>20, <2>2, <2>3 DEF ChildSays, TypeOK, Waiting, Reading
<1>21. CASE ChildExits
  BY <1>21 DEF ChildExits, NoSession, TypeOK, Waiting, Reading
<1>22. CASE TimePasses
  BY <1>22 DEF TimePasses, NoSession, TypeOK, Waiting, Reading
<1>23. CASE Done \/ UNCHANGED vars
  BY <1>23 DEF Done, vars, TypeOK, Waiting, Reading
<1> QED
  BY <1>1, <1>2, <1>3, <1>4, <1>5, <1>6, <1>7, <1>8, <1>9, <1>10, <1>11, <1>12, <1>13, <1>14, <1>15, <1>16, <1>17, <1>18, <1>19, <1>20, <1>21, <1>22, <1>23
     DEF Next, Worker, Codex, Pi

(* Whoever leaves the wait for its child has reaped it. *)
LEMMA ChildStep ==
  ASSUME TypeOK, NoChildLeft, ChildFacts, [Next]_vars
  PROVE  NoChildLeft' /\ ChildFacts'
<1> USE SameRunner
<1>1. CASE Unknown
  BY <1>1 DEF Unknown, Finish, NoSession, Reading, Waiting, NoChild, TypeOK, ChildFacts, NoChildLeft, CodexAt, PiAt, Closing, Over
<1>2. CASE PrepareFails
  BY <1>2 DEF PrepareFails, Finish, NoSession, Reading, Waiting, NoChild, TypeOK, ChildFacts, NoChildLeft, CodexAt, PiAt, Closing, Over
<1>3. CASE OtherRuns
  BY <1>3 DEF OtherRuns, Finish, NoSession, NoChild, Reading, ChildFacts, NoChildLeft, CodexAt, PiAt, Closing, Over
<1>4. CASE CodexStarts
  BY <1>4 DEF CodexStarts, Finish, NoSession, NewChild, NoChild, Reading, ChildFacts, NoChildLeft, CodexAt, PiAt, Closing, Over
<1>5. CASE CodexExited \/ CodexWaitFails
  BY <1>5 DEF CodexExited, CodexWaitFails, Finish, NoSession, Reading, Waiting, NoChild, TypeOK, ChildFacts, NoChildLeft, CodexAt, PiAt, Closing, Over
<1>6. CASE CodexDeadline
  BY <1>6 DEF CodexDeadline, NoSession, Reading, Waiting, NoChild, TypeOK, ChildFacts, NoChildLeft, CodexAt, PiAt, Closing, Over
<1>7. CASE CodexReap
  BY <1>7 DEF CodexReap, Finish, NoSession, Reading, Waiting, NoChild, TypeOK, ChildFacts, NoChildLeft, CodexAt, PiAt, Closing, Over
<1>8. CASE PiStarts
  BY <1>8 DEF PiStarts, Finish, NewChild, NoChild, Reading, ChildFacts, NoChildLeft, CodexAt, PiAt, Closing, Over
<1>9. CASE AwaitPrompt
  BY <1>9 DEF AwaitPrompt, Abort, SessionError, Concluded, Reading, Waiting, NoChild, TypeOK, ChildFacts, NoChildLeft, CodexAt, PiAt, Closing, Over
<1>10. CASE Stream
  BY <1>10 DEF Stream, Abort, Ask, SessionError, Concluded, Reading, Waiting, NoChild, TypeOK, ChildFacts, NoChildLeft, CodexAt, PiAt, Closing, Over
<1>11. CASE AwaitText
  BY <1>11 DEF AwaitText, Ask, SessionError, Concluded, Reading, Waiting, NoChild, TypeOK, ChildFacts, NoChildLeft, CodexAt, PiAt, Closing, Over
<1>12. CASE AwaitStats
  BY <1>12 DEF AwaitStats, SessionError, Concluded, Reading, Waiting, NoChild, TypeOK, ChildFacts, NoChildLeft, CodexAt, PiAt, Closing, Over
<1>13. CASE Grace
  BY <1>13 DEF Grace, SessionError, Concluded, Reading, Waiting, NoChild, TypeOK, ChildFacts, NoChildLeft, CodexAt, PiAt, Closing, Over
<1>14. CASE Stop
  BY <1>14 DEF Stop, PiTimeout, Concluded, NoSession, Reading, Waiting, NoChild, TypeOK, ChildFacts, NoChildLeft, CodexAt, PiAt, Closing, Over
<1>15. CASE Shutdown
  BY <1>15 DEF Shutdown, NoSession, Reading, Waiting, NoChild, TypeOK, ChildFacts, NoChildLeft, CodexAt, PiAt, Closing, Over
<1>16. CASE Drop
  BY <1>16 DEF Drop, Reading, TypeOK, ChildFacts, NoChildLeft, CodexAt, PiAt, Closing, Over
<1>17. CASE CompleteFails
  BY <1>17 DEF CompleteFails, NoSession, Reading, Waiting, NoChild, TypeOK, ChildFacts, NoChildLeft, CodexAt, PiAt, Closing, Over
<1>18. CASE Normalize
  BY <1>18 DEF Normalize, NoSession, Reading, Waiting, NoChild, TypeOK, ChildFacts, NoChildLeft, CodexAt, PiAt, Closing, Over
<1>19. CASE ChildWrites
  BY <1>19 DEF ChildWrites, NoSession, Reading, Waiting, NoChild, TypeOK, ChildFacts, NoChildLeft, CodexAt, PiAt, Closing, Over
<1>20. CASE ChildSays
  BY <1>20 DEF ChildSays, Reading, TypeOK, ChildFacts, NoChildLeft, CodexAt, PiAt, Closing, Over
<1>21. CASE ChildExits
  BY <1>21 DEF ChildExits, NoSession, Reading, Waiting, NoChild, TypeOK, ChildFacts, NoChildLeft, CodexAt, PiAt, Closing, Over
<1>22. CASE TimePasses
  BY <1>22 DEF TimePasses, NoSession, Reading, Waiting, NoChild, TypeOK, ChildFacts, NoChildLeft, CodexAt, PiAt, Closing, Over
<1>23. CASE Done \/ UNCHANGED vars
  BY <1>23 DEF Done, vars, ChildFacts, NoChildLeft, CodexAt, PiAt, Closing, Over
<1> QED
  BY <1>1, <1>2, <1>3, <1>4, <1>5, <1>6, <1>7, <1>8, <1>9, <1>10, <1>11, <1>12, <1>13, <1>14, <1>15, <1>16, <1>17, <1>18, <1>19, <1>20, <1>21, <1>22, <1>23
     DEF Next, Worker, Codex, Pi

-----------------------------------------------------------------------------
(* Texts and results *)

(* The one answer with a text is what the client has heard, or has yet to. *)
LEMMA TextStep ==
  ASSUME TypeOK, ChildFacts, TextFacts, [Next]_vars
  PROVE  TextFacts'
<1> USE SameRunner
<1>1. CASE Unknown
  BY <1>1 DEF Unknown, Finish, NoSession, TextFacts, Unasked
<1>2. CASE PrepareFails
  BY <1>2 DEF PrepareFails, Finish, NoSession, TextFacts, Unasked
<1>3. CASE OtherRuns
  <2>1. NoText(pipe) /\ Unasked /\ UNCHANGED <<pipe, sent, heard>> /\ pc' = "finished" /\ Runner = "other"
    BY <1>3 DEF OtherRuns, Finish, NoSession, TextFacts, Unasked
  <2> QED
    BY <2>1 DEF TextFacts, Unasked, NoText, Truthful
<1>4. CASE CodexStarts
  BY <1>4 DEF CodexStarts, Finish, NoSession, NewChild, TextFacts, Unasked
<1>5. CASE CodexExited \/ CodexWaitFails
  BY <1>5 DEF CodexExited, CodexWaitFails, Finish, NoSession, TextFacts, Unasked
<1>6. CASE CodexDeadline
  BY <1>6 DEF CodexDeadline, NoSession, TextFacts, Unasked
<1>7. CASE CodexReap
  BY <1>7 DEF CodexReap, Finish, NoSession, TextFacts, Unasked
<1>8. CASE PiStarts
  <2>1. "text" \notin sent' /\ UNCHANGED <<pipe, said, heard>> /\ pc' \in {"prompt", "finished"} /\ pc = "start"
    BY <1>8 DEF PiStarts, Finish, TextFacts, Unasked
  <2> QED
    BY <1>8, <2>1 DEF PiStarts, TextFacts, Unasked
<1>9. CASE AwaitPrompt
  <2>1. Take /\ UNCHANGED <<said, heard>>
    BY <1>9 DEF AwaitPrompt
  <2> QED
    BY <1>9, <2>1, TakeKeeps DEF AwaitPrompt, Abort, SessionError, Concluded, TextFacts, Unasked
<1>10. CASE Stream
  <2>1. Take /\ UNCHANGED <<said, heard>>
    BY <1>10 DEF Stream
  <2>2. \/ sent' = sent /\ pc' \in {"grace", "closing", "stream"}
        \/ sent' = sent \cup {"text"} /\ pc' = "text"
    BY <1>10 DEF Stream, Abort, Ask, SessionError, Concluded
  <2>3. Unasked /\ said = Absent /\ Runner = "pi_rpc"
    BY <1>10 DEF Stream, TextFacts, ChildFacts, PiAt, Reading
  <2> QED
    BY <2>1, <2>2, <2>3, TakeKeeps DEF TextFacts, Unasked
<1>11. CASE AwaitText
  <2>1. Take /\ said' = said /\ Runner = "pi_rpc"
    BY <1>11 DEF AwaitText, ChildFacts, PiAt, Reading
  <2>2. sent' \in {sent, sent \cup {"stats"}} /\ pc' \in {"text", "stats", "closing"}
    BY <1>11 DEF AwaitText, Ask, SessionError, Concluded
  <2>3. CASE Record("text")
    <3>1. heard' \in {heard, said}
      BY <1>11, <2>3, HeadText DEF AwaitText
    <3>2. ~NoText(pipe)
      <4>1. pipe # <<>> /\ Head(pipe).type = "text" /\ pipe \in Seq(Plain \cup Answers)
        BY <2>3 DEF Record, Read, TextFacts
      <4> QED
        BY <4>1, TailKeeps DEF NoText
    <3> QED
      BY <2>1, <2>2, <3>1, <3>2, TakeKeeps DEF TextFacts, Unasked
  <2>4. CASE ~Record("text")
    <3>1. heard' = heard
      BY <1>11, <2>4 DEF AwaitText
    <3> QED
      BY <2>1, <2>2, <3>1, TakeKeeps DEF TextFacts, Unasked
  <2> QED
    BY <2>3, <2>4
<1>12. CASE AwaitStats
  <2>1. Take /\ UNCHANGED <<said, heard>>
    BY <1>12 DEF AwaitStats
  <2> QED
    BY <1>12, <2>1, TakeKeeps DEF AwaitStats, SessionError, Concluded, TextFacts, Unasked
<1>13. CASE Grace
  <2>1. Take /\ UNCHANGED <<said, heard>>
    BY <1>13 DEF Grace
  <2> QED
    BY <1>13, <2>1, TakeKeeps DEF Grace, SessionError, Concluded, TextFacts, Unasked
<1>14. CASE Stop
  BY <1>14 DEF Stop, PiTimeout, Concluded, NoSession, TextFacts, Unasked
<1>15. CASE Shutdown
  BY <1>15 DEF Shutdown, NoSession, TextFacts, Unasked
<1>16. CASE Drop
  <2>1. pipe' = <<>> /\ sent' = {} /\ heard' = Absent /\ pc' = "finished"
    BY <1>16 DEF Drop
  <2>2. NoText(<<>>) /\ <<>> \in Seq(Plain \cup Answers) /\ \A t : Truthful(<<>>, t)
    BY DEF NoText, Truthful
  <2> QED
    BY <2>1, <2>2 DEF TextFacts, Unasked
<1>17. CASE CompleteFails
  BY <1>17 DEF CompleteFails, NoSession, TextFacts, Unasked
<1>18. CASE Normalize
  BY <1>18 DEF Normalize, NoSession, TextFacts, Unasked
<1>19. CASE ChildWrites
  <2>1. NoText(pipe) /\ Unasked /\ UNCHANGED <<pipe, sent, heard, pc>> /\ Runner = "codex_cli"
    BY <1>19 DEF ChildWrites, NoSession, TextFacts, Unasked
  <2> QED
    BY <2>1 DEF TextFacts, Unasked, NoText, Truthful
<1>20. CASE ChildSays
  <2>1. Runner = "pi_rpc" /\ UNCHANGED <<pc, heard>> /\ pipe \in Seq(Plain \cup Answers)
    BY <1>20 DEF ChildSays, TextFacts
  <2>2. PICK r \in Plain \cup Answers :
           /\ pipe' = Append(pipe, r)
           /\ \/ r.type # "text" /\ said' = said /\ sent' \subseteq sent
              \/ r.type = "text" /\ r.text = said' /\ "text" \in sent /\ sent' = sent \ {"text"}
    BY <1>20, Spoken
  <2>3. CASE r.type # "text" /\ said' = said /\ sent' \subseteq sent
    BY <2>1, <2>2, <2>3, AppendKeeps DEF TextFacts, Unasked
  <2>4. CASE r.type = "text" /\ r.text = said' /\ "text" \in sent /\ sent' = sent \ {"text"}
    <3>1. NoText(pipe) /\ heard = Absent /\ pc \notin {"start", "prompt", "stream"}
      BY <2>1, <2>4 DEF TextFacts, Unasked
    <3>2. Truthful(pipe, said')
      BY <3>1 DEF NoText, Truthful
    <3> QED
      BY <2>1, <2>2, <2>4, <3>1, <3>2, AppendKeeps DEF TextFacts
  <2> QED
    BY <2>2, <2>3, <2>4
<1>21. CASE ChildExits
  BY <1>21 DEF ChildExits, NoSession, TextFacts, Unasked
<1>22. CASE TimePasses
  BY <1>22 DEF TimePasses, NoSession, TextFacts, Unasked
<1>23. CASE Done \/ UNCHANGED vars
  BY <1>23 DEF Done, vars, TextFacts, Unasked
<1> QED
  BY <1>1, <1>2, <1>3, <1>4, <1>5, <1>6, <1>7, <1>8, <1>9, <1>10, <1>11, <1>12, <1>13, <1>14, <1>15, <1>16, <1>17, <1>18, <1>19, <1>20, <1>21, <1>22, <1>23
     DEF Next, Worker, Codex, Pi

(* Only the ways to end a run that are meant to count give a result that does. *)
LEMMA RawGood ==
  ASSUME NEW exit, NEW code, NEW observed, NEW out
  PROVE  /\ Good(Raw(exit, code, observed, out)) <=> exit = "completed" /\ code # "nonzero" /\ ~req.missing
         /\ Raw(exit, code, observed, out).out = out
         /\ Raw(exit, code, observed, out).observed = observed
  BY DEF Raw, Good, BadExit

LEMMA NotGood == ~Good(NoRaw) /\ ~Good(ExceptionRaw) /\ NoRaw # ExceptionRaw
  BY DEF NoRaw, ExceptionRaw, Good, BadExit

(* The stdout of a codex run is its child's message. *)
LEMMA CodexSays ==
  /\ CodexStdout.form = "stdout" /\ Tokens(CodexStdout.text) = Tokens(said)
  BY DEF CodexStdout, Stdout, Tokens, Absent

(* A result that may count is what the child had said by then, and the child
   says no more. *)
LEMMA RawStep ==
  ASSUME TypeOK, NoChildLeft, ChildFacts, TextFacts, RawFacts, [Next]_vars
  PROVE  RawFacts'
<1> USE SameRunner
<1>1. CASE Unknown
  <2>1. raw' = ExceptionRaw /\ pc' = "finished"
    BY <1>1 DEF Unknown, Finish
  <2> QED
    BY <2>1, NotGood DEF RawFacts, CodexAt, Reading
<1>2. CASE PrepareFails
  <2>1. raw' = ExceptionRaw /\ pc' = "finished"
    BY <1>2 DEF PrepareFails, Finish
  <2> QED
    BY <2>1, NotGood DEF RawFacts, CodexAt, Reading
<1>3. CASE OtherRuns
  <2>1. PICK r \in OtherRaws :
          /\ pc' = "finished" /\ raw' = r
          /\ said' = IF r.out.form = "stdout" THEN r.out.text
                     ELSE IF r.out.form = "file" THEN <<r.out.token>> ELSE Absent
    BY <1>3 DEF OtherRuns, Finish
  <2>2. Runner = "other" /\ "text" \notin sent'
    BY <1>3 DEF OtherRuns, NoSession, TextFacts, Unasked
  <2> QED
    BY <2>1, <2>2, OtherOut DEF RawFacts, CodexAt, Reading
<1>4. CASE CodexStarts
  <2>1. \/ raw' = raw /\ pc' \in {"poll", "prompt"} /\ pc = "start"
        \/ pc' = "finished" /\ ~Good(raw')
    BY <1>4, RawGood DEF CodexStarts, Finish
  <2> QED
    BY <2>1, NotGood DEF RawFacts, CodexAt, Reading
<1>5. CASE CodexExited \/ CodexWaitFails
  <2>1. /\ UNCHANGED <<said, sent>> /\ pc' = "finished" /\ child'.code = child.code
        /\ raw' \in {Raw(CodexOutcome, child.code, "none", CodexStdout),
                     Raw("runner_error", "nonzero", "none", CodexStdout)}
    BY <1>5 DEF CodexExited, CodexWaitFails, Finish, NoSession, TypeOK
  <2>2. "text" \notin sent
    BY <1>5 DEF CodexExited, CodexWaitFails, ChildFacts, CodexAt, TextFacts, Unasked
  <2> QED
    BY <2>1, <2>2, RawGood, CodexSays DEF RawFacts, CodexAt, Reading
<1>6. CASE CodexDeadline
  <2>1. UNCHANGED <<raw, said>> /\ sent' \subseteq sent /\ child'.code = child.code
    BY <1>6 DEF CodexDeadline, NoSession, TypeOK
  <2>2. raw = NoRaw \/ pc' \notin {"start"} \cup CodexAt \cup Reading \cup {"stop", "stop_asked"}
    BY <1>6 DEF CodexDeadline, RawFacts, CodexAt, Reading, Waiting
  <2> QED
    BY <2>1, <2>2 DEF RawFacts
<1>7. CASE CodexReap
  <2>1. UNCHANGED <<said, sent>> /\ pc' = "finished" /\ raw' = TimeoutRaw
    BY <1>7 DEF CodexReap, Finish, NoSession
  <2>2. "text" \notin sent
    BY <1>7 DEF CodexReap, ChildFacts, CodexAt, TextFacts, Unasked
  <2>3. /\ Good(TimeoutRaw) => TimeoutRaw.observed = "timeout"
        /\ TimeoutRaw.out = CodexStdout
    BY RawGood DEF TimeoutRaw
  <2> QED
    BY <2>1, <2>2, <2>3, CodexSays DEF RawFacts, CodexAt, Reading
<1>8. CASE PiStarts
  <2>1. \/ raw' = raw /\ pc' \in {"poll", "prompt"} /\ pc = "start"
        \/ pc' = "finished" /\ ~Good(raw')
    BY <1>8, RawGood DEF PiStarts, Finish
  <2> QED
    BY <2>1, NotGood DEF RawFacts, CodexAt, Reading
<1>9. CASE AwaitPrompt
  <2>1. \/ raw' = raw /\ pc' \in Reading \cup {"stop", "stop_asked"}
           /\ pc \in Reading \cup {"stop", "stop_asked"}
        \/ ~Good(raw') /\ pc' = "closing"
    BY <1>9, RawGood DEF AwaitPrompt, Abort, SessionError, Concluded, Reading
  <2> QED
    BY <2>1, NotGood DEF RawFacts, CodexAt, Reading
<1>10. CASE Stream
  <2>1. \/ raw' = raw /\ pc' \in Reading \cup {"stop", "stop_asked"}
           /\ pc \in Reading \cup {"stop", "stop_asked"}
        \/ ~Good(raw') /\ pc' = "closing"
    BY <1>10, RawGood DEF Stream, Abort, Ask, SessionError, Concluded, Reading
  <2> QED
    BY <2>1, NotGood DEF RawFacts, CodexAt, Reading
<1>11. CASE AwaitText
  <2>1. \/ raw' = raw /\ pc' \in Reading \cup {"stop", "stop_asked"}
           /\ pc \in Reading \cup {"stop", "stop_asked"}
        \/ ~Good(raw') /\ pc' = "closing"
    BY <1>11, RawGood DEF AwaitText, Ask, SessionError, Concluded, Reading
  <2> QED
    BY <2>1, NotGood DEF RawFacts, CodexAt, Reading
<1>12. CASE AwaitStats
  <2>1. UNCHANGED <<said, heard, sent>> /\ Runner = "pi_rpc" /\ pc = "stats"
    BY <1>12 DEF AwaitStats, ChildFacts, PiAt, Reading
  <2>2. \/ raw' = raw /\ pc' = pc
        \/ ~Good(raw') /\ pc' = "closing"
        \/ raw' = SessionRaw /\ pc' = "closing"
    BY <1>12, RawGood DEF AwaitStats, SessionError, Concluded
  <2>3. Good(SessionRaw) => SessionRaw.out = Stdout(said) /\ "text" \notin sent
    <3>1. ASSUME Good(SessionRaw) PROVE heard # Absent /\ SessionRaw.out = Stdout(heard)
      BY <3>1, RawGood DEF SessionRaw, SessionOutput
    <3> QED
      BY <3>1 DEF TextFacts
  <2> QED
    BY <2>1, <2>2, <2>3, NotGood DEF RawFacts, CodexAt, Reading, Stdout
<1>13. CASE Grace
  <2>1. \/ raw' = raw /\ pc' \in Reading \cup {"stop", "stop_asked"}
           /\ pc \in Reading \cup {"stop", "stop_asked"}
        \/ ~Good(raw') /\ pc' = "closing"
    BY <1>13, RawGood DEF Grace, SessionError, Concluded, Reading
  <2> QED
    BY <2>1, NotGood DEF RawFacts, CodexAt, Reading
<1>14. CASE Stop
  <2>1. \/ raw' = raw /\ pc' \in Reading \cup {"stop", "stop_asked"}
           /\ pc \in Reading \cup {"stop", "stop_asked"}
        \/ ~Good(raw') /\ pc' = "closing"
    BY <1>14, RawGood DEF Stop, PiTimeout, Concluded, Reading
  <2> QED
    BY <2>1, NotGood DEF RawFacts, CodexAt, Reading
<1>15. CASE Shutdown
  <2>1. UNCHANGED <<raw, said>> /\ sent' \subseteq sent /\ child'.code = child.code
    BY <1>15 DEF Shutdown, NoSession, TypeOK
  <2>2. raw = NoRaw \/ pc' \notin {"start"} \cup CodexAt \cup Reading \cup {"stop", "stop_asked"}
    BY <1>15 DEF Shutdown, RawFacts, CodexAt, Reading, Waiting
  <2> QED
    BY <2>1, <2>2 DEF RawFacts
<1>16. CASE Drop
  <2>1. UNCHANGED <<raw, said>> /\ sent' \subseteq sent /\ child'.code = child.code
    BY <1>16 DEF Drop, NoSession, TypeOK
  <2>2. raw = NoRaw \/ pc' \notin {"start"} \cup CodexAt \cup Reading \cup {"stop", "stop_asked"}
    BY <1>16 DEF Drop, RawFacts, CodexAt, Reading, Waiting
  <2> QED
    BY <2>1, <2>2 DEF RawFacts
<1>17. CASE CompleteFails
  <2>1. raw' = ExceptionRaw /\ pc' = "finished"
    BY <1>17 DEF CompleteFails, Finish
  <2> QED
    BY <2>1, NotGood DEF RawFacts, CodexAt, Reading
<1>18. CASE Normalize
  <2>1. UNCHANGED <<raw, said>> /\ sent' \subseteq sent /\ child'.code = child.code
    BY <1>18 DEF Normalize, NoSession, TypeOK
  <2>2. raw = NoRaw \/ pc' \notin {"start"} \cup CodexAt \cup Reading \cup {"stop", "stop_asked"}
    BY <1>18 DEF Normalize, RawFacts, CodexAt, Reading, Waiting
  <2> QED
    BY <2>1, <2>2 DEF RawFacts
<1>19. CASE ChildWrites
  <2>1. raw = NoRaw /\ raw' = raw
    BY <1>19 DEF ChildWrites, RawFacts, ChildFacts, NoChildLeft, CodexAt, PiAt, Reading, Closing, NoChild, TypeOK, Waiting
  <2> QED
    BY <2>1, NotGood DEF RawFacts
<1>20. CASE ChildSays
  <2>1. UNCHANGED <<raw, pc, child>> /\ Runner = "pi_rpc"
    BY <1>20 DEF ChildSays
  <2>2. \/ said' = said /\ sent' \subseteq sent
        \/ "text" \in sent
    BY <1>20, Spoken
  <2>3. sent' \subseteq sent
    BY <1>20, Spoken
  <2> QED
    BY <2>1, <2>2, <2>3 DEF RawFacts
<1>21. CASE ChildExits
  <2>1. UNCHANGED <<raw, pc, said, sent>> /\ child.state = "running"
    BY <1>21 DEF ChildExits, NoSession
  <2>2. Runner = "codex_cli" => raw = NoRaw
    BY <2>1 DEF RawFacts, ChildFacts, NoChildLeft, CodexAt, PiAt, Reading, Closing, NoChild, TypeOK, Waiting
  <2> QED
    BY <2>1, <2>2, NotGood DEF RawFacts
<1>22. CASE TimePasses
  <2>1. UNCHANGED <<raw, said>> /\ sent' \subseteq sent /\ child'.code = child.code
    BY <1>22 DEF TimePasses, NoSession, TypeOK
  <2>2. raw = NoRaw \/ pc' \notin {"start"} \cup CodexAt \cup Reading \cup {"stop", "stop_asked"}
    BY <1>22 DEF TimePasses, RawFacts, CodexAt, Reading, Waiting
  <2> QED
    BY <2>1, <2>2 DEF RawFacts
<1>23. CASE Done \/ UNCHANGED vars
  BY <1>23 DEF Done, vars, RawFacts
<1> QED
  BY <1>1, <1>2, <1>3, <1>4, <1>5, <1>6, <1>7, <1>8, <1>9, <1>10, <1>11, <1>12, <1>13, <1>14, <1>15, <1>16, <1>17, <1>18, <1>19, <1>20, <1>21, <1>22, <1>23
     DEF Next, Worker, Codex, Pi

(* The verdict on a message that was cut off depends on nothing else. *)
LEMMA SameTimeout ==
  ASSUME req' = req, said' = said
  PROVE  TimeoutRaw' = TimeoutRaw
  BY DEF TimeoutRaw, Raw, CodexStdout, Reconciled, Legal

(* A child is killed on the way to the look at its message. *)
LEMMA KilledStep ==
  ASSUME TypeOK, NoChildLeft, ChildFacts, KilledFacts, [Next]_vars
  PROVE  KilledFacts'
<1> USE SameRunner
<1>1. CASE Unknown
  <2>1. ~child'.killed \/ Runner # "codex_cli"
    BY <1>1 DEF Unknown, Finish, NoSession, ChildFacts, NoChild, NewChild
  <2> QED
    BY <2>1 DEF KilledFacts
<1>2. CASE PrepareFails
  <2>1. ~child'.killed \/ Runner # "codex_cli"
    BY <1>2 DEF PrepareFails, Finish, NoSession, ChildFacts, NoChild, NewChild
  <2> QED
    BY <2>1 DEF KilledFacts
<1>3. CASE OtherRuns
  <2>1. ~child'.killed \/ Runner # "codex_cli"
    BY <1>3 DEF OtherRuns, Finish, NoSession, ChildFacts, NoChild, NewChild
  <2> QED
    BY <2>1 DEF KilledFacts
<1>4. CASE CodexStarts
  <2>1. ~child'.killed \/ Runner # "codex_cli"
    BY <1>4 DEF CodexStarts, Finish, NoSession, ChildFacts, NoChild, NewChild
  <2> QED
    BY <2>1 DEF KilledFacts
<1>5. CASE CodexExited \/ CodexWaitFails
  <2>1. ~child.killed /\ child'.killed = child.killed
    BY <1>5 DEF CodexExited, CodexWaitFails, KilledFacts, Over, ChildFacts, CodexAt, TypeOK
  <2> QED
    BY <2>1 DEF KilledFacts
<1>6. CASE CodexDeadline
  BY <1>6 DEF CodexDeadline, KilledFacts, Over
<1>7. CASE CodexReap
  <2>1. raw' = TimeoutRaw /\ said' = said /\ pc' = "finished"
    BY <1>7 DEF CodexReap, Finish
  <2> QED
    BY <2>1, SameTimeout DEF KilledFacts, Over
<1>8. CASE PiStarts
  <2>1. ~child'.killed \/ Runner # "codex_cli"
    BY <1>8 DEF PiStarts, Finish, NoSession, ChildFacts, NoChild, NewChild
  <2> QED
    BY <2>1 DEF KilledFacts
<1>9. CASE AwaitPrompt
  <2>1. Runner = "pi_rpc"
    BY <1>9 DEF AwaitPrompt, ChildFacts, PiAt, Reading, Closing
  <2> QED
    BY <2>1 DEF KilledFacts
<1>10. CASE Stream
  <2>1. Runner = "pi_rpc"
    BY <1>10 DEF Stream, ChildFacts, PiAt, Reading, Closing
  <2> QED
    BY <2>1 DEF KilledFacts
<1>11. CASE AwaitText
  <2>1. Runner = "pi_rpc"
    BY <1>11 DEF AwaitText, ChildFacts, PiAt, Reading, Closing
  <2> QED
    BY <2>1 DEF KilledFacts
<1>12. CASE AwaitStats
  <2>1. Runner = "pi_rpc"
    BY <1>12 DEF AwaitStats, ChildFacts, PiAt, Reading, Closing
  <2> QED
    BY <2>1 DEF KilledFacts
<1>13. CASE Grace
  <2>1. Runner = "pi_rpc"
    BY <1>13 DEF Grace, ChildFacts, PiAt, Reading, Closing
  <2> QED
    BY <2>1 DEF KilledFacts
<1>14. CASE Stop
  <2>1. Runner = "pi_rpc"
    BY <1>14 DEF Stop, ChildFacts, PiAt, Reading, Closing
  <2> QED
    BY <2>1 DEF KilledFacts
<1>15. CASE Shutdown
  <2>1. Runner = "pi_rpc"
    BY <1>15 DEF Shutdown, ChildFacts, PiAt, Reading, Closing
  <2> QED
    BY <2>1 DEF KilledFacts
<1>16. CASE Drop
  <2>1. Runner = "pi_rpc"
    BY <1>16 DEF Drop, ChildFacts, PiAt, Reading, Closing
  <2> QED
    BY <2>1 DEF KilledFacts
<1>17. CASE CompleteFails
  <2>1. /\ UNCHANGED <<child, said>> /\ pc' \in Over /\ pc \in Over
        /\ raw' \in {raw, ExceptionRaw}
    BY <1>17 DEF CompleteFails, NoSession, Over
  <2> QED
    BY <2>1, SameTimeout DEF KilledFacts
<1>18. CASE Normalize
  <2>1. /\ UNCHANGED <<child, said>> /\ pc' \in Over /\ pc \in Over
        /\ raw' \in {raw, ExceptionRaw}
    BY <1>18 DEF Normalize, NoSession, Over
  <2> QED
    BY <2>1, SameTimeout DEF KilledFacts
<1>19. CASE ChildWrites
  <2>1. child'.killed = child.killed /\ pc' = pc /\ pc \notin Over
    BY <1>19 DEF ChildWrites, NoChildLeft, Over, TypeOK
  <2> QED
    BY <2>1 DEF KilledFacts
<1>20. CASE ChildSays
  <2>1. Runner = "pi_rpc"
    BY <1>20 DEF ChildSays
  <2> QED
    BY <2>1 DEF KilledFacts
<1>21. CASE ChildExits
  <2>1. child'.killed = child.killed /\ pc' = pc /\ pc \notin Over
    BY <1>21 DEF ChildExits, NoChildLeft, Over, TypeOK
  <2> QED
    BY <2>1 DEF KilledFacts
<1>22. CASE TimePasses
  BY <1>22 DEF TimePasses, KilledFacts, Over, Waiting, Reading
<1>23. CASE Done \/ UNCHANGED vars
  BY <1>23, SameTimeout DEF Done, vars, KilledFacts, Over
<1> QED
  BY <1>1, <1>2, <1>3, <1>4, <1>5, <1>6, <1>7, <1>8, <1>9, <1>10, <1>11, <1>12, <1>13, <1>14, <1>15, <1>16, <1>17, <1>18, <1>19, <1>20, <1>21, <1>22, <1>23
     DEF Next, Worker, Codex, Pi

-----------------------------------------------------------------------------
(* The answer *)

(* An outcome that is no failure is that of a good result, and named in it. *)
LEMMA OutcomeNamed ==
  ASSUME NEW r, NEW phrases, Envelope(r, phrases).failure = "none"
  PROVE  /\ Good(r) /\ Legal(Envelope(r, phrases).marker)
         /\ \/ r.out.form = "stdout" /\ Tokens(r.out.text) = {Envelope(r, phrases).marker}
            \/ /\ r.out.form \notin {"none", "stdout", "file_gone", "file_broken"}
               /\ r.out.token = Envelope(r, phrases).marker
<1> DEFINE found == Judged(r, phrases)
           token == CHOOSE t \in Tokens(r.out.text) : TRUE
<1>1. found.failure = "none" /\ Envelope(r, phrases).marker = found.marker
  BY DEF Envelope, FailureEnvelope
<1>2. Good(r) /\ found = Extraction(r)
  <2>1. ExitFailure(r, phrases) # "none"
    BY DEF ExitFailure
  <2> QED
    BY <1>1, <2>1 DEF Judged, NotFound, Good
<1> HIDE DEF found
<1>3. CASE r.out.form \in {"none", "stdout"}
  <2>1. found = FromStdout(r.out)
    BY <1>2, <1>3 DEF Extraction
  <2>2. /\ r.out.form = "stdout" /\ Tokens(r.out.text) # {}
        /\ \A a, b \in Tokens(r.out.text) : a = b
    BY <1>1, <1>3, <2>1 DEF FromStdout, NotFound
  <2>3. found = IF ~Legal(token) THEN NotFound("illegal_terminal_result")
                ELSE IF ResolveClass(token, "unset") = "unset" THEN NotFound("panic")
                ELSE Found(token, ResolveClass(token, "unset"))
    BY <2>1, <2>2 DEF FromStdout
  <2>4. Legal(token) /\ found.marker = token
    BY <1>1, <2>3 DEF Found, NotFound
  <2>5. Tokens(r.out.text) = {token}
    BY <2>2
  <2> QED
    BY <1>1, <1>2, <2>2, <2>4, <2>5
<1>4. CASE r.out.form \notin {"none", "stdout"}
  <2>1. found = FromFile(r.out)
    BY <1>2, <1>4 DEF Extraction
  <2>2. /\ r.out.form \notin {"file_gone", "file_broken"} /\ Legal(r.out.token)
        /\ found.marker = r.out.token
    BY <1>1, <2>1 DEF FromFile, NotFound, Found
  <2> QED
    BY <1>1, <1>2, <1>4, <2>2
<1> QED
  BY <1>3, <1>4

(* A text of one line is one token, if it is a legal one. *)
LEMMA OneLine ==
  ASSUME NEW t, Legal(t)
  PROVE  Tokens(<<t>>) = {t} /\ t \in {"DONE", "BLOCKED"}
<1>1. t \in {"DONE", "BLOCKED"}
  BY DEF Legal, Classes
<1>2. DOMAIN <<t>> = {1} /\ <<t>>[1] = t
  OBVIOUS
<1> QED
  BY <1>1, <1>2 DEF Tokens

(* The outcome is one the child said. *)
LEMMA SaidStep ==
  ASSUME RawFacts, Normalize
  PROVE  MarkerWasSaid'
<1>1. PICK phrases \in SUBSET Phrases : answer' = Envelope(raw, phrases)
  BY DEF Normalize
<1>2. UNCHANGED <<req, child, said, raw>>
  BY DEF Normalize
<1>3. ASSUME answer'.failure = "none"
      PROVE  /\ Tokens(said) = {answer'.marker} /\ Legal(answer'.marker) /\ ~raw.missing
             /\ Runner = "codex_cli" /\ child.code = "nonzero" => raw.observed = "timeout"
  <2>1. Good(raw) /\ Legal(answer'.marker)
    BY <1>1, <1>3, OutcomeNamed
  <2>2. Tokens(said) = {answer'.marker}
    BY <1>1, <1>3, <2>1, OutcomeNamed, OneLine DEF RawFacts
  <2> QED
    BY <2>1, <2>2 DEF RawFacts, Good
<1>4. Runner' = Runner /\ (Legal(answer.marker))' = Legal(answer'.marker)
  BY <1>2 DEF Runner, Legal
<1> QED
  BY <1>2, <1>3, <1>4 DEF MarkerWasSaid

(* The last line of a message, and its only marker. *)
LastIsOnly == LET last == said[Len(said)] IN Legal(last) /\ {last} = Tokens(said) /\ said # <<last, last>>

LEMMA Reconciles ==
  ASSUME said \in Messages, said # <<>>, said # Absent, LastIsOnly
  PROVE  Reconciled(said)
<1> DEFINE last == said[Len(said)]
<1>1. last \in {"DONE", "BLOCKED"} /\ Tokens(said) = {last}
  BY DEF LastIsOnly, Legal, Classes
<1>2. CASE \E a \in Lines : said = <<a>>
  BY <1>1, <1>2 DEF Reconciled, LastIsOnly
<1>3. CASE \E a, b \in Lines : said = <<a, b>>
  <2>1. PICK a \in Lines, b \in Lines : said = <<a, b>>
    BY <1>3
  <2>2. Len(said) = 2 /\ said[1] = a /\ said[2] = b /\ DOMAIN said = {1, 2} /\ last = b
    BY <2>1
  <2>3. a \in {"talk", "absent"}
    <3>1. a \in {"talk", "absent"} \/ a \in Tokens(said)
      BY <2>2 DEF Tokens
    <3> QED
      BY <1>1, <2>1, <2>2, <3>1 DEF LastIsOnly
  <2>4. ~Legal(a) /\ Legal(b) /\ b # "talk"
    BY <1>1, <2>2, <2>3 DEF Legal, Classes, LastIsOnly
  <2> QED
    BY <2>2, <2>4 DEF Reconciled
<1> QED
  BY <1>2, <1>3 DEF Messages

(* What is looked at after the kill counts as if it had come in time. *)
LEMMA LateStep ==
  ASSUME TypeOK, KilledFacts, Normalize
  PROVE  LateAnswerForgiven'
<1>1. PICK phrases \in SUBSET Phrases : answer' = Envelope(raw, phrases)
  BY DEF Normalize
<1>2. UNCHANGED <<req, child, said, raw>> /\ pc = "finished"
  BY DEF Normalize
<1> DEFINE last == said[Len(said)]
<1>3. ASSUME Runner = "codex_cli", child.killed, req.policy = "shipped", raw # ExceptionRaw,
             ~raw.missing, said \notin {<<>>, Absent}, LastIsOnly
      PROVE  answer'.failure = "none" /\ answer'.marker = last
  <2>1. raw = TimeoutRaw /\ Reconciled(said)
    BY <1>2, <1>3, Reconciles DEF KilledFacts, Over, TypeOK
  <2>2. raw = Raw("completed", "zero", "timeout", Stdout(said))
    BY <1>3, <2>1 DEF TimeoutRaw, CodexStdout
  <2>3. Tokens(said) = {last} /\ Legal(last) /\ last \in {"DONE", "BLOCKED"}
    BY <1>3 DEF LastIsOnly, Legal, Classes
  <2>4. ResolveClass(last, "unset") # "unset"
    BY <1>3, <2>3 DEF ResolveClass, Classes
  <2>5. (CHOOSE t \in Tokens(said) : TRUE) = last
    BY <2>3
  <2>6. FromStdout(Stdout(said)) = Found(last, ResolveClass(last, "unset"))
    BY <2>3, <2>4, <2>5 DEF FromStdout, Stdout
  <2>7. Judged(raw, phrases) = Found(last, ResolveClass(last, "unset"))
    BY <1>3, <2>2, <2>6 DEF Judged, BadExit, Extraction, Raw, Stdout
  <2> QED
    BY <1>1, <2>7 DEF Envelope, Found
<1>4. Runner' = Runner /\ LastIsOnly' = LastIsOnly
  BY <1>2 DEF Runner, LastIsOnly, Legal
<1> QED
  BY <1>2, <1>3, <1>4 DEF LateAnswerForgiven, LastIsOnly

(* An answer is given once. *)
LEMMA AnswerStep ==
  ASSUME IInv, [Next]_vars
  PROVE  AnswerIsTheChilds'
<1> USE DEF IInv
<1>1. CASE Normalize
  BY <1>1, SaidStep, LateStep DEF AnswerIsTheChilds
<1>2. CASE ~Normalize /\ pc # "done"
  <2>1. pc' # "done"
    BY <1>2 DEF Next, Worker, Codex, Pi, Finish, Concluded, SessionError, Abort, Ask, PiTimeout,
           Unknown, PrepareFails, OtherRuns, CodexStarts, CodexExited, CodexWaitFails, CodexDeadline, CodexReap, PiStarts, AwaitPrompt,
           Stream, AwaitText, AwaitStats, Grace, Stop, Shutdown, Drop, CompleteFails, ChildWrites, ChildSays,
           ChildExits, TimePasses, Done, vars
  <2> QED
    BY <2>1 DEF AnswerIsTheChilds, MarkerWasSaid, LateAnswerForgiven
<1>3. CASE pc = "done"
  <2>1. UNCHANGED vars
    BY <1>3 DEF Next, Worker, Codex, Pi, NoChildLeft, Waiting, Reading, Normalize,
           Unknown, PrepareFails, OtherRuns, CodexStarts, CodexExited, CodexWaitFails, CodexDeadline, CodexReap, PiStarts, AwaitPrompt,
           Stream, AwaitText, AwaitStats, Grace, Stop, Shutdown, Drop, CompleteFails, ChildWrites, ChildSays,
           ChildExits, TimePasses, Done, vars
  <2>2. Legal(answer.marker)' = Legal(answer.marker) /\ LastIsOnly' = LastIsOnly /\ Runner' = Runner
    BY <2>1 DEF Legal, LastIsOnly, vars, Runner
  <2> QED
    BY <2>1, <2>2 DEF AnswerIsTheChilds, MarkerWasSaid, LateAnswerForgiven, vars, LastIsOnly
<1> QED
  BY <1>1, <1>2, <1>3

-----------------------------------------------------------------------------
(* The theorems *)

LEMMA InitHolds == Init => IInv
<1> SUFFICES ASSUME Init PROVE IInv
  OBVIOUS
<1>1. NoText(<<>>) /\ Truthful(<<>>, said) /\ <<>> \in Seq(Plain \cup Answers) /\ Len(<<>>) = 0
  BY DEF NoText, Truthful
<1>2. TypeOK
  <2>1. child \in [state : {"none", "running", "exited", "reaped"},
                  code : {"none", "zero", "nonzero"}, killed : BOOLEAN]
    BY DEF Init, NoChild
  <2>2. req \in [asked : Asked, policy : Policies, missing : BOOLEAN] /\ pc = "start"
        /\ {due, flagged} \subseteq BOOLEAN /\ {said, heard} \subseteq Messages \cup {Absent} /\ sent = {}
    BY DEF Init
  <2>3. Len(pipe) <= PipeDepth
    BY <1>1, PipeDepthAssumption DEF Init
  <2> QED
    BY <2>1, <2>2, <2>3 DEF TypeOK
<1>3. NoChildLeft /\ ChildFacts /\ KilledFacts /\ AnswerIsTheChilds
  BY DEF Init, NoChild, NoChildLeft, ChildFacts, KilledFacts, AnswerIsTheChilds, MarkerWasSaid,
         LateAnswerForgiven, CodexAt, PiAt, Closing, Reading
<1>4. TextFacts /\ RawFacts
  BY <1>1, NotGood DEF Init, TextFacts, Unasked, RawFacts, CodexAt, Reading
<1> QED
  BY <1>2, <1>3, <1>4 DEF IInv

LEMMA Invariance == Spec => []IInv
<1>1. Init => IInv
  BY InitHolds
<1>2. IInv /\ [Next]_vars => IInv'
  <2> SUFFICES ASSUME IInv, [Next]_vars PROVE IInv'
    OBVIOUS
  <2>1. TypeOK' /\ TextFacts'
    BY TypeStep, TextStep DEF IInv
  <2>2. NoChildLeft' /\ ChildFacts'
    BY ChildStep DEF IInv
  <2>3. RawFacts' /\ KilledFacts'
    BY RawStep, KilledStep DEF IInv
  <2> QED
    BY <2>1, <2>2, <2>3, AnswerStep DEF IInv
<1> QED
  BY <1>1, <1>2, PTL DEF Spec

(* The state of a stage run keeps to its types (run_codex_subprocess,
   PiRpcClient). *)
THEOREM TypeCorrect == Spec => []TypeOK
<1>1. IInv => TypeOK
  BY DEF IInv
<1> QED
  BY <1>1, Invariance, PTL

(* A run that has a result has reaped the child it started, or left a killed Pi
   child as a dead entry of the process table, whatever the child did and
   whichever wait ended (run_codex_subprocess, shutdown_process). *)
THEOREM NoneOutlives == Spec => []NoChildLeft
<1>1. IInv => NoChildLeft
  BY DEF IInv
<1> QED
  BY <1>1, Invariance, PTL

(* An outcome that is no failure is the one marker the child wrote, legal for
   its node; and a message complete before the kill is not lost to it
   (normalize_stage_result, reconciled_timeout_terminal_marker). *)
THEOREM AnswersAreTheChilds == Spec => []AnswerIsTheChilds
<1>1. IInv => AnswerIsTheChilds
  BY DEF IInv
<1> QED
  BY <1>1, Invariance, PTL
=============================================================================
