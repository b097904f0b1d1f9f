--------------------------------- MODULE Logger ---------------------------------
(***************************************************************************)
(* The log of a distributed main step.  The goroutines of Tasks and        *)
(* subtasks print through one logger, which masks tokens and keeps a copy  *)
(* of what it prints; retries look up new tokens meanwhile.  When the step *)
(* is over, the copy is written to the file that poststeps can mount.      *)
(*                                                                         *)
(* What a subtask has to say is collected in a group and printed as one    *)
(* line.  A Task is its attempts, without their groups of subtasks and     *)
(* without results (TaskGroup has them).  Lines that say neither what a    *)
(* subtask did nor how far the step is are left out, except for the line   *)
(* of a copy that was given up and goes on (Mounts).                       *)
(***************************************************************************)
EXTENDS Naturals, Sequences

CONSTANTS
  Tasks,
  SubTasks,     \* of all Tasks
  TaskOf,       \* TaskOf[s]: the Task of subtask s
  Stray,        \* the goroutine of the copy that was given up
  Nobody,       \* holds a mutex that is free
  Levels,       \* log levels of the TestJob
  MaxAttempts   \* attempts of a Task

ASSUME ActorAssumption ==
  /\ TaskOf \in [SubTasks -> Tasks]
  /\ Tasks \cap SubTasks = {}
  /\ Stray \notin Tasks \cup SubTasks
  /\ Nobody \notin Tasks \cup SubTasks \cup {Stray}
ASSUME LevelAssumption == Levels \subseteq 1 .. 4
ASSUME AttemptAssumption == MaxAttempts \in Nat \ {0}

VARIABLES
  level,           \* the level of the logger
  phase,           \* phase[t]: where Task t is
  attempt,         \* attempt[t]: the attempt it is in
  sub,             \* sub[s]: where subtask s is in this attempt
  finishedKeyNum,  \* the counter of the progress lines
  finishedKeyMu,   \* who holds its mutex
  masks,           \* the tokens that are masked
  logMu,           \* who holds the logger's mutex
  stage,           \* stage[a]: what actor a is at in mainLogger.log
  line,            \* line[a]: the line it prints
  out,             \* what was printed
  buf,             \* the logger's copy of it
  written,         \* whether there is a log file
  file             \* what is in it

taskVars == <<phase, attempt, sub>>
keyVars == <<finishedKeyNum, finishedKeyMu>>
logVars == <<masks, logMu, stage, line, out, buf>>
fileVars == <<written, file>>
vars == <<level, taskVars, keyVars, logVars, fileVars>>

Actors == Tasks \cup SubTasks \cup {Stray}
SubTasksOf(t) == {s \in SubTasks : TaskOf[s] = t}
Tokens == Tasks \X (1 .. MaxAttempts + 1)
TokenOf(s) == <<TaskOf[s], attempt[TaskOf[s]]>>

\* A line: what kind it is, whose, of which attempt, the number in it, and the tokens
\* that can be read in it.
Line(kind, from, of, n, clear) ==
  [kind |-> kind, from |-> from, attempt |-> of, n |-> n, clear |-> clear]

Lines ==
  [kind : {"group", "finished", "warn", "debug"}, from : Actors,
   attempt : 0 .. MaxAttempts, n : Nat, clear : SUBSET Tokens]

Blank == Line("debug", Stray, 0, 0, {})

\* A group is printed at every level, by Log.
Prints(kind) ==
  CASE kind = "group"    -> TRUE
    [] kind = "warn"     -> level >= 2
    [] kind = "finished" -> level >= 3
    [] OTHER             -> level >= 4

Init ==
  /\ level \in Levels
  /\ phase = [t \in Tasks |-> "running"]
  /\ attempt = [t \in Tasks |-> 1]
  /\ sub = [s \in SubTasks |-> "waiting"]
  /\ finishedKeyNum = 0
  /\ finishedKeyMu = Nobody
  /\ masks = Tasks \X {1}
  /\ logMu = Nobody
  /\ stage = [a \in Actors |-> "silent"]
  /\ line = [a \in Actors |-> Blank]
  /\ out = <<>>
  /\ buf = <<>>
  /\ written = FALSE
  /\ file = <<>>

-----------------------------------------------------------------------------
(***************************************************************************)
(* mainLogger.log, in four steps.                                          *)
(***************************************************************************)
Silent(a) == stage[a] = "silent"

Say(a, said) ==
  IF Prints(said.kind)
  THEN /\ stage' = [stage EXCEPT ![a] = "lock"]
       /\ line' = [line EXCEPT ![a] = said]
  ELSE UNCHANGED <<stage, line>>

\* Mutant: the logger's mutex is left out.
LockAlways(a) ==
  /\ stage[a] = "lock"
  /\ logMu' = a
  /\ stage' = [stage EXCEPT ![a] = "out"]
  /\ line' = [line EXCEPT ![a].clear = @ \ masks]
  /\ UNCHANGED <<level, taskVars, keyVars, masks, out, buf, fileVars>>

Lock(a) ==
  /\ stage[a] = "lock"
  /\ logMu = Nobody
  /\ logMu' = a
  /\ stage' = [stage EXCEPT ![a] = "out"]
  /\ line' = [line EXCEPT ![a].clear = @ \ masks]
  /\ UNCHANGED <<level, taskVars, keyVars, masks, out, buf, fileVars>>

PrintOut(a) ==
  /\ stage[a] = "out"
  /\ out' = Append(out, line[a])
  /\ stage' = [stage EXCEPT ![a] = "buf"]
  /\ UNCHANGED <<level, taskVars, keyVars, masks, logMu, line, buf, fileVars>>

PrintBuf(a) ==
  /\ stage[a] = "buf"
  /\ buf' = Append(buf, line[a])
  /\ stage' = [stage EXCEPT ![a] = "silent"]
  /\ line' = [line EXCEPT ![a] = Blank]
  /\ logMu' = Nobody
  /\ UNCHANGED <<level, taskVars, keyVars, masks, out, fileVars>>

-----------------------------------------------------------------------------
(***************************************************************************)
(* SubTask.Run and the OnFinish callback.                                  *)
(***************************************************************************)
StartSubTask(s) ==
  /\ phase[TaskOf[s]] = "running"
  /\ sub[s] = "waiting"
  /\ sub' = [sub EXCEPT ![s] = "executing"]
  /\ UNCHANGED <<level, phase, attempt, keyVars, logVars, fileVars>>

\* At worst, the output shows the token the pod was given.
LogGroup(s) ==
  /\ sub[s] = "executing"
  /\ Say(s, Line("group", s, attempt[TaskOf[s]], 0, {TokenOf(s)}))
  /\ sub' = [sub EXCEPT ![s] = "logging"]
  /\ UNCHANGED <<level, phase, attempt, keyVars, masks, logMu, out, buf, fileVars>>

\* Mutant: the mutex protects the counter only.
OnFinishUnlocked(s) ==
  /\ sub[s] = "logging"
  /\ Silent(s)
  /\ finishedKeyMu = Nobody
  /\ finishedKeyNum' = finishedKeyNum + 1
  /\ Say(s, Line("finished", s, attempt[TaskOf[s]], finishedKeyNum', {}))
  /\ sub' = [sub EXCEPT ![s] = "finishing"]
  /\ UNCHANGED <<level, phase, attempt, finishedKeyMu, masks, logMu, out, buf, fileVars>>

OnFinish(s) ==
  /\ sub[s] = "logging"
  /\ Silent(s)
  /\ finishedKeyMu = Nobody
  /\ finishedKeyMu' = s
  /\ finishedKeyNum' = finishedKeyNum + 1
  /\ Say(s, Line("finished", s, attempt[TaskOf[s]], finishedKeyNum', {}))
  /\ sub' = [sub EXCEPT ![s] = "finishing"]
  /\ UNCHANGED <<level, phase, attempt, masks, logMu, out, buf, fileVars>>

EndSubTask(s) ==
  /\ sub[s] = "finishing"
  /\ Silent(s)
  /\ finishedKeyMu' = Nobody
  /\ sub' = [sub EXCEPT ![s] = "done"]
  /\ UNCHANGED <<level, phase, attempt, finishedKeyNum, logVars, fileVars>>

-----------------------------------------------------------------------------
(***************************************************************************)
(* Task.runWithRetry and TaskGroup.Run.                                    *)
(***************************************************************************)
\* An attempt ends before its handler was entered, or after all subtasks have.
Settled(t) ==
  \/ \A s \in SubTasksOf(t) : sub[s] = "waiting"
  \/ \A s \in SubTasksOf(t) : sub[s] = "done"

EndAttempt(t) ==
  /\ phase[t] = "running"
  /\ Settled(t)
  /\ \E end \in {"done", "failed"} : phase' = [phase EXCEPT ![t] = end]
  /\ UNCHANGED <<level, attempt, sub, keyVars, logVars, fileVars>>

Retry(t) ==
  /\ phase[t] = "running"
  /\ Settled(t)
  /\ Say(t, Line("warn", t, attempt[t], 0, {}))
  /\ phase' = [phase EXCEPT ![t] = "retrying"]
  /\ UNCHANGED <<level, attempt, sub, keyVars, masks, logMu, out, buf, fileVars>>

\* createJob looks the token up again, which may be another one by now; also after the
\* last attempt, when nobody runs the job it has made.
CreateJob(t) ==
  /\ phase[t] = "retrying"
  /\ Silent(t)
  /\ \/ /\ attempt[t] < MaxAttempts
        /\ attempt' = [attempt EXCEPT ![t] = @ + 1]
        /\ masks' = masks \cup {<<t, attempt[t] + 1>>}
        /\ sub' = [s \in SubTasks |-> IF TaskOf[s] = t THEN "waiting" ELSE sub[s]]
        /\ phase' = [phase EXCEPT ![t] = "running"]
     \/ /\ masks' \in {masks, masks \cup {<<t, attempt[t] + 1>>}}
        /\ phase' = [phase EXCEPT ![t] = "failed"]
        /\ UNCHANGED <<attempt, sub>>
  /\ UNCHANGED <<level, keyVars, logMu, stage, line, out, buf, fileVars>>

\* A copy that was given up announces itself; once is enough.
StrayCopy ==
  /\ Silent(Stray)
  /\ \A k \in DOMAIN buf : buf[k].from # Stray
  /\ Prints("debug")
  /\ Say(Stray, Line("debug", Stray, 0, 0, {}))
  /\ UNCHANGED <<level, taskVars, keyVars, masks, logMu, out, buf, fileVars>>

\* Reads the copy without the logger's mutex: a line of StrayCopy that is on its way is
\* in the file or not, as it would be a moment later or earlier.
WriteLog ==
  /\ ~written
  /\ \A t \in Tasks : phase[t] = "done"
  /\ written' = TRUE
  /\ file' = buf
  /\ UNCHANGED <<level, taskVars, keyVars, logVars>>

\* The step is over: with an error of a Task there is no file.
Over ==
  /\ \A t \in Tasks : phase[t] \in {"done", "failed"}
  /\ (\A t \in Tasks : phase[t] = "done") => written
  /\ UNCHANGED vars

Next ==
  \/ \E a \in Actors : Lock(a) \/ PrintOut(a) \/ PrintBuf(a)
  \/ \E s \in SubTasks : StartSubTask(s) \/ LogGroup(s) \/ OnFinish(s) \/ EndSubTask(s)
  \/ \E t \in Tasks : EndAttempt(t) \/ Retry(t) \/ CreateJob(t)
  \/ StrayCopy \/ WriteLog \/ Over

Spec == Init /\ [][Next]_vars
-----------------------------------------------------------------------------
(***************************************************************************)
(* Properties                                                              *)
(***************************************************************************)
TypeOK ==
  /\ level \in Levels
  /\ phase \in [Tasks -> {"running", "retrying", "done", "failed"}]
  /\ attempt \in [Tasks -> 1 .. MaxAttempts]
  /\ sub \in [SubTasks -> {"waiting", "executing", "logging", "finishing", "done"}]
  /\ finishedKeyNum \in Nat
  /\ finishedKeyMu \in SubTasks \cup {Nobody}
  /\ masks \subseteq Tokens
  /\ logMu \in Actors \cup {Nobody}
  /\ stage \in [Actors -> {"silent", "lock", "out", "buf"}]
  /\ line \in [Actors -> Lines]
  /\ out \in Seq(Lines)
  /\ buf \in Seq(Lines)
  /\ written \in BOOLEAN
  /\ file \in Seq(Lines)

\* The copy lags behind what was printed by the one line that is being printed, and only
\* the holder of the mutex is at it: lines of two goroutines never mix or change places.
CopyFollows ==
  /\ \A a \in Actors : stage[a] \in {"out", "buf"} <=> logMu = a
  /\ out = IF logMu # Nobody /\ stage[logMu] = "buf"
           THEN Append(buf, line[logMu]) ELSE buf

IsGroup(said, s, n) == said.kind = "group" /\ said.from = s /\ said.attempt = n

\* The groups of a log are printed once.
GroupsOnce(log) ==
  \A j, k \in DOMAIN log :
    log[j].kind = "group" /\ IsGroup(log[k], log[j].from, log[j].attempt) => j = k

\* The progress lines count upwards, each after the group of its subtask.
ProgressInOrder(log) ==
  \A k \in DOMAIN log : log[k].kind = "finished" =>
    /\ \A j \in 1 .. k - 1 : log[j].kind = "finished" => log[j].n < log[k].n
    /\ \E j \in 1 .. k - 1 : IsGroup(log[j], log[k].from, log[k].attempt)

NothingClear(log) == \A k \in DOMAIN log : log[k].clear = {}

\* The file has what every subtask said in the attempt that counts, no group twice, and
\* all progress lines up to the last number, in order and each after the group it is
\* about; and no token of any attempt can be read in it.
LogFileComplete ==
  written =>
    /\ \A s \in SubTasks : sub[s] = "done" =>
         \E k \in DOMAIN file : IsGroup(file[k], s, attempt[TaskOf[s]])
    /\ Prints("finished") =>
         \A n \in 1 .. finishedKeyNum :
           \E k \in DOMAIN file : file[k].kind = "finished" /\ file[k].n = n
    /\ GroupsOnce(file)
    /\ ProgressInOrder(file)
    /\ NothingClear(file)
-----------------------------------------------------------------------------
(***************************************************************************)
(* Why the file is complete: an inductive invariant.                       *)
(***************************************************************************)
\* Every token that was looked up is masked.
MaskInv == \A t \in Tasks : \A n \in 1 .. attempt[t] : <<t, n>> \in masks

\* What an actor prints is what its place in the code says.
SayInv ==
  \A a \in Actors : ~Silent(a) =>
    /\ line[a].clear \subseteq masks
    /\ stage[a] # "lock" => line[a].clear = {}
    /\ \/ /\ a \in SubTasks
          /\ sub[a] = "logging"
          /\ IsGroup(line[a], a, attempt[TaskOf[a]])
       \/ /\ a \in SubTasks
          /\ sub[a] = "finishing"
          /\ line[a].kind = "finished" /\ line[a].n = finishedKeyNum
          /\ line[a].from = a /\ line[a].attempt = attempt[TaskOf[a]]
       \/ a \in Tasks /\ phase[a] = "retrying" /\ line[a].kind = "warn"
       \/ a = Stray /\ line[a].kind = "debug"

MutexInv == \A s \in SubTasks : sub[s] = "finishing" <=> finishedKeyMu = s

PhaseInv == \A t \in Tasks : phase[t] # "running" => Settled(t)

\* The group of subtask s has been printed in this attempt.
Grouped(s) == sub[s] \in {"finishing", "done"} \/ (sub[s] = "logging" /\ Silent(s))

GroupInv ==
  /\ \A s \in SubTasks : Grouped(s) =>
       \E k \in DOMAIN buf : IsGroup(buf[k], s, attempt[TaskOf[s]])
  /\ \A k \in DOMAIN buf : buf[k].kind = "group" =>
       /\ buf[k].from \in SubTasks
       /\ buf[k].attempt <= attempt[TaskOf[buf[k].from]]
       /\ buf[k].attempt = attempt[TaskOf[buf[k].from]] => Grouped(buf[k].from)
  /\ GroupsOnce(buf)

\* The last number is being printed.
Counting == \E s \in SubTasks : sub[s] = "finishing" /\ ~Silent(s)

ProgressInv ==
  /\ \A k \in DOMAIN buf : buf[k].kind = "finished" =>
       /\ buf[k].n <= finishedKeyNum
       /\ buf[k].n = finishedKeyNum => ~Counting
  /\ Prints("finished") =>
       \A n \in 1 .. finishedKeyNum :
         \/ \E k \in DOMAIN buf : buf[k].kind = "finished" /\ buf[k].n = n
         \/ n = finishedKeyNum /\ Counting
  /\ ProgressInOrder(buf)

FileInv ==
  /\ written => \A t \in Tasks : phase[t] = "done"
  /\ LogFileComplete

IInv ==
  /\ TypeOK
  /\ CopyFollows
  /\ MaskInv
  /\ SayInv
  /\ MutexInv
  /\ PhaseInv
  /\ GroupInv
  /\ ProgressInv
  /\ NothingClear(buf)
  /\ FileInv
=============================================================================
