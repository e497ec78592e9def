----------------------------- MODULE Pipelines -----------------------------
(***************************************************************************)
(* The run of a pipeline (run_pipeline of server.py).  Every configuration *)
(* is validated when the run is requested; a step is started when its turn *)
(* comes, with a private copy of what was validated for some kinds of step *)
(* and with the file as it is then for the others.  Files are edited and   *)
(* deleted meanwhile.  The run ends at the first step that fails, or when  *)
(* the client that reads its stream goes away.                             *)
(***************************************************************************)
EXTENDS History

CONSTANTS PipelineRuns,
          Plans,        \* the sequences of [kind, file] a pipeline may hold
          Files,
          Contents,     \* what a file may hold: [accepts, title]
          NoFile

\* A step that runs an ordinary workflow, config-cluster, or one of three scripts.
Kinds == {"workflow", "config", "users", "title", "password"}
Scripts == {"users", "title", "password"}

\* A pipeline without steps is refused before anything is validated.
ASSUME PipelinesAssumption ==
  /\ NoFile \notin Contents
  /\ Contents \subseteq [accepts : SUBSET (Scripts \cup {"config"}), title : BOOLEAN]
  /\ Plans \subseteq Seq([kind : Kinds, file : Files]) \ {<<>>}

VARIABLES files,        \* files[x]: the content of a saved file, or NoFile
          pipes         \* pipes[p]: where run p stands
pipelineVars == <<files, pipes>>

NoPipe == [at |-> "new", plan |-> <<>>, step |-> 0, copies |-> <<>>,
           ran |-> <<>>, results |-> <<>>]

At(p, at) == pipes[p].at = at
Step(p) == pipes[p].plan[pipes[p].step]
Last(p) == pipes[p].step = Len(pipes[p].plan)

PipelinesInit ==
  /\ files \in [Files -> Contents \cup {NoFile}]
  /\ pipes = [p \in PipelineRuns |-> NoPipe]

EditFile(x, content) ==
  /\ files[x] # content
  /\ files' = [files EXCEPT ![x] = content]
  /\ UNCHANGED pipes

RequestPipeline(p, plan) ==
  /\ pipes[p] = NoPipe
  /\ pipes' = [pipes EXCEPT ![p] = [NoPipe EXCEPT !.at = "validating", !.plan = plan, !.step = 1]]
  /\ UNCHANGED files

\* One turn of the validation loop reads the file of the step.  Its content must
\* be one the validator of this kind of step accepts.
IsRead(step) == step.kind \in Scripts \cup {"config"}
Passes(step, content) ==
  IsRead(step) => /\ content # NoFile
                  /\ (step.kind # "config" \/ content.title) => step.kind \in content.accepts

\* A copy is kept for the scripts of users and login titles, and for a cluster
\* configuration that asks for a login title; the script that changes passwords
\* is validated like them, but reads its file again.
IsCopied(step, content) == step.kind \in {"users", "title"} \/ (step.kind = "config" /\ content.title)

\* The copies of run p once its current step is validated.
Kept(p, content) ==
  LET copies == pipes[p].copies
      x == Step(p).file
  IN  IF IsRead(Step(p)) /\ IsCopied(Step(p), content)
      THEN [y \in DOMAIN copies \cup {x} |-> IF y = x THEN content ELSE copies[y]]
      ELSE copies

Validate(p) ==
  /\ At(p, "validating")
  /\ LET content == files[Step(p).file]
     IN  pipes' = [pipes EXCEPT ![p] =
           IF ~Passes(Step(p), content) THEN [@ EXCEPT !.at = "refused"]
           ELSE [@ EXCEPT !.at = IF Last(p) THEN "ready" ELSE "validating",
                          !.step = IF Last(p) THEN 1 ELSE pipes[p].step + 1,
                          !.copies = Kept(p, content)]]
  /\ UNCHANGED files

\* The installed ZTF is incompatible, or the stream refuses to begin because the
\* appliance is under maintenance.
Block(p) ==
  /\ At(p, "ready") /\ pipes[p].step = 1 /\ pipes[p].ran = <<>>
  /\ pipes' = [pipes EXCEPT ![p].at = "refused"]
  /\ UNCHANGED files

\* Variant: every step reads its file again.
GivenFile(p) == files[Step(p).file]

\* The process of a step: with the copy, with the file as it is, or, when the file
\* has gone, without a configuration.
Given(p) == LET x == Step(p).file
            IN  IF x \in DOMAIN pipes[p].copies THEN pipes[p].copies[x] ELSE files[x]

StartStep(p) ==
  /\ At(p, "ready")
  /\ pipes' = [pipes EXCEPT ![p].at = "executing", ![p].ran = Append(@, Given(p))]
  /\ UNCHANGED files

\* The process ends (or is killed at the time limit, or was never started).  After
\* a failure the remaining steps are skipped.
StepEnds(p, result) ==
  /\ At(p, "executing")
  /\ pipes' = [pipes EXCEPT ![p].results = Append(@, result),
                            ![p].at = IF result = "failed" \/ Last(p) THEN "recording" ELSE "ready",
                            ![p].step = IF result = "failed" \/ Last(p) THEN @ ELSE @ + 1]
  /\ UNCHANGED files

\* The client goes away: the process is killed and nothing more happens.
Disconnect(p) ==
  /\ At(p, "ready") \/ At(p, "executing")
  /\ pipes' = [pipes EXCEPT ![p].at = "abandoned"]
  /\ UNCHANGED files

RecordPipeline(p) ==
  /\ At(p, "recording")
  /\ IF reading[p] = NotReading
     THEN ReadHistory(p) /\ UNCHANGED pipes
     ELSE WriteHistory(p) /\ pipes' = [pipes EXCEPT ![p].at = "ended"]
  /\ UNCHANGED files

PipelinesRestart ==
  /\ pipes' = [p \in PipelineRuns |->
       IF pipes[p].at \in {"validating", "ready", "executing", "recording"}
       THEN [pipes[p] EXCEPT !.at = "abandoned"] ELSE pipes[p]]
  /\ UNCHANGED files

PipelineRequest == \E p \in PipelineRuns, plan \in Plans : RequestPipeline(p, plan)
FileChange == \E x \in Files, content \in Contents \cup {NoFile} : EditFile(x, content)
PipelineStep ==
  \E p \in PipelineRuns :
    \/ Validate(p) \/ Block(p) \/ StartStep(p) \/ Disconnect(p)
    \/ \E result \in {"success", "failed"} : StepEnds(p, result)

PipelinesTypeOK ==
  /\ files \in [Files -> Contents \cup {NoFile}]
  /\ \A p \in PipelineRuns :
       /\ pipes[p].at \in {"new", "validating", "refused", "ready", "executing",
                           "recording", "ended", "abandoned"}
       /\ pipes[p].plan \in Plans \cup {<<>>}
       /\ pipes[p].step \in 0 .. Len(pipes[p].plan)
       /\ Len(pipes[p].ran) <= pipes[p].step
       /\ DOMAIN pipes[p].copies \subseteq Files
       /\ \A x \in DOMAIN pipes[p].copies : pipes[p].copies[x] \in Contents

\* No other step of run p has the file of step k read when the run is validated:
\* the copy of a file is the one of the last step that had it copied.
AloneOn(p, k) ==
  \A i \in DOMAIN pipes[p].plan :
    i # k /\ pipes[p].plan[i].file = pipes[p].plan[k].file => ~IsRead(pipes[p].plan[i])

\* A script that creates users or sets login titles is given exactly a content its
\* own validator has accepted, whoever edits or deletes the file while the request
\* is validated and while earlier steps run; and it is only reached when every
\* step before it has succeeded.
RunsWhatWasValidated ==
  \A p \in PipelineRuns : \A k \in DOMAIN pipes[p].ran :
    /\ pipes[p].plan[k].kind \in {"users", "title"} /\ AloneOn(p, k)
         => /\ pipes[p].ran[k] # NoFile
            /\ pipes[p].plan[k].kind \in pipes[p].ran[k].accepts
    /\ \A i \in 1 .. k - 1 : pipes[p].results[i] = "success"
=============================================================================
