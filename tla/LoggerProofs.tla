------------------------------ MODULE LoggerProofs ------------------------------
(***************************************************************************)
(* The log file is complete, for any number of Tasks and subtasks, any     *)
(* level and any number of retries.                                        *)
(***************************************************************************)
EXTENDS Logger, TLAPS

USE ActorAssumption, LevelAssumption, AttemptAssumption

LEMMA AppendFacts ==
  ASSUME NEW S, NEW b \in Seq(S), NEW x \in S
  PROVE  /\ Append(b, x) \in Seq(S)
         /\ Len(Append(b, x)) = Len(b) + 1
         /\ \A k \in DOMAIN b : k \in DOMAIN Append(b, x) /\ Append(b, x)[k] = b[k]
         /\ \A k \in DOMAIN Append(b, x) :
              k \in DOMAIN b \/ (k = Len(b) + 1 /\ Append(b, x)[k] = x)
         /\ Len(b) + 1 \in DOMAIN Append(b, x)
         /\ Append(b, x)[Len(b) + 1] = x
  OBVIOUS

LEMMA MaskedLine ==
  ASSUME NEW l \in Lines, NEW tokens
  PROVE  [l EXCEPT !.clear = @ \ tokens] \in Lines
<1>1. l.clear \ tokens \in SUBSET Tokens
  BY DEF Lines
<1> QED
  BY <1>1 DEF Lines

LEMMA NobodyIsNoActor == Nobody \notin Actors
BY DEF Actors

LEMMA InitIInv == Init => IInv
<1> SUFFICES ASSUME Init PROVE IInv
  OBVIOUS
<1>0. Blank \in Lines
  BY DEF Blank, Line, Lines, Actors
<1>1. TypeOK
  <2>1. masks \subseteq Tokens
    BY DEF Init, Tokens
  <2>2. line \in [Actors -> Lines] /\ stage \in [Actors -> {"silent", "lock", "out", "buf"}]
    BY <1>0 DEF Init
  <2>3. out \in Seq(Lines) /\ buf \in Seq(Lines) /\ file \in Seq(Lines)
    BY DEF Init
  <2>4. attempt \in [Tasks -> 1 .. MaxAttempts]
    BY DEF Init
  <2> QED
    BY <2>1, <2>2, <2>3, <2>4 DEF Init, TypeOK
<1>2. CopyFollows
  BY DEF Init, CopyFollows, Actors
<1>3. MaskInv /\ SayInv /\ MutexInv /\ PhaseInv
  BY DEF Init, MaskInv, SayInv, MutexInv, PhaseInv, Silent
<1>4. GroupInv /\ ProgressInv /\ NothingClear(buf)
  BY DEF Init, GroupInv, ProgressInv, NothingClear, Grouped, GroupsOnce, ProgressInOrder
<1>5. FileInv
  BY DEF Init, FileInv, LogFileComplete
<1> QED
  BY <1>1, <1>2, <1>3, <1>4, <1>5 DEF IInv

-----------------------------------------------------------------------------
\* Steps that leave what was printed alone, and every subtask's place, keep these.
LEMMA GroupFrame ==
  ASSUME GroupInv, UNCHANGED <<buf, attempt>>,
         \A s \in SubTasks : Grouped(s)' <=> Grouped(s)
  PROVE  GroupInv'
BY DEF GroupInv, GroupsOnce, IsGroup

LEMMA ProgressFrame ==
  ASSUME ProgressInv, UNCHANGED <<level, buf, finishedKeyNum>>, Counting' <=> Counting
  PROVE  ProgressInv'
BY DEF ProgressInv, ProgressInOrder, IsGroup, Prints

LEMMA FileFrame ==
  ASSUME FileInv, UNCHANGED fileVars,
         written => UNCHANGED <<level, phase, sub, attempt, finishedKeyNum>>
  PROVE  FileInv'
BY DEF FileInv, LogFileComplete, fileVars, IsGroup, GroupsOnce, ProgressInOrder,
       NothingClear, Prints

LEMMA ClearFrame ==
  ASSUME NothingClear(buf), UNCHANGED buf
  PROVE  NothingClear(buf)'
BY DEF NothingClear

\* When the file has been written, the subtasks are at rest.
LEMMA AtRest ==
  ASSUME IInv, written, NEW s \in SubTasks
  PROVE  /\ phase[TaskOf[s]] = "done"
         /\ sub[s] \in {"waiting", "done"}
BY DEF IInv, FileInv, PhaseInv, Settled, SubTasksOf

-----------------------------------------------------------------------------
LEMMA LockKeeps ==
  ASSUME IInv, NEW a \in Actors, Lock(a)
  PROVE  IInv'
<1> USE DEF Lock, taskVars, keyVars
<1>0. /\ TypeOK /\ CopyFollows /\ MaskInv /\ SayInv /\ MutexInv /\ PhaseInv
      /\ GroupInv /\ ProgressInv /\ NothingClear(buf) /\ FileInv
  BY DEF IInv
<1>1. TypeOK'
  <2>1. [line[a] EXCEPT !.clear = @ \ masks] \in Lines
    BY <1>0, MaskedLine DEF TypeOK
  <2>2. line' \in [Actors -> Lines]
    BY <1>0, <2>1 DEF TypeOK
  <2> QED
    BY <1>0, <2>2 DEF TypeOK, fileVars
<1>2. CopyFollows'
  BY <1>0, NobodyIsNoActor DEF TypeOK, CopyFollows
<1>3. MaskInv' /\ MutexInv' /\ PhaseInv'
  BY <1>0 DEF MaskInv, MutexInv, PhaseInv, Settled, SubTasksOf
<1>4. SayInv'
  BY <1>0 DEF TypeOK, SayInv, Silent, IsGroup, Lines
<1>5. \A s \in SubTasks : Silent(s)' <=> Silent(s)
  BY <1>0 DEF TypeOK, Silent, Actors
<1>6. GroupInv'
  BY <1>0, <1>5, GroupFrame DEF Grouped
<1>7. ProgressInv'
  BY <1>0, <1>5, ProgressFrame DEF Counting
<1>8. NothingClear(buf)' /\ FileInv'
  BY <1>0, FileFrame, ClearFrame
<1> QED
  BY <1>1, <1>2, <1>3, <1>4, <1>6, <1>7, <1>8 DEF IInv

LEMMA PrintOutKeeps ==
  ASSUME IInv, NEW a \in Actors, PrintOut(a)
  PROVE  IInv'
<1> USE DEF PrintOut, taskVars, keyVars
<1>0. /\ TypeOK /\ CopyFollows /\ MaskInv /\ SayInv /\ MutexInv /\ PhaseInv
      /\ GroupInv /\ ProgressInv /\ NothingClear(buf) /\ FileInv
  BY DEF IInv
<1>1. TypeOK'
  BY <1>0, AppendFacts DEF TypeOK, fileVars
<1>2. CopyFollows'
  BY <1>0, NobodyIsNoActor DEF TypeOK, CopyFollows
<1>3. MaskInv' /\ MutexInv' /\ PhaseInv'
  BY <1>0 DEF MaskInv, MutexInv, PhaseInv, Settled, SubTasksOf
<1>4. SayInv'
  BY <1>0 DEF TypeOK, SayInv, Silent, IsGroup, Lines
<1>5. \A s \in SubTasks : Silent(s)' <=> Silent(s)
  BY <1>0 DEF TypeOK, Silent, Actors
<1>6. GroupInv'
  BY <1>0, <1>5, GroupFrame DEF Grouped
<1>7. ProgressInv'
  BY <1>0, <1>5, ProgressFrame DEF Counting
<1>8. NothingClear(buf)' /\ FileInv'
  BY <1>0, FileFrame, ClearFrame
<1> QED
  BY <1>1, <1>2, <1>3, <1>4, <1>6, <1>7, <1>8 DEF IInv

LEMMA PrintBufKeeps ==
  ASSUME IInv, NEW a \in Actors, PrintBuf(a)
  PROVE  IInv'
<1> USE DEF PrintBuf, taskVars, keyVars
<1>0. /\ TypeOK /\ CopyFollows /\ MaskInv /\ SayInv /\ MutexInv /\ PhaseInv
      /\ GroupInv /\ ProgressInv /\ NothingClear(buf) /\ FileInv
  BY DEF IInv
<1> DEFINE new == line[a]
<1>n. new \in Lines /\ new.clear = {} /\ ~Silent(a) /\ new.attempt \in Nat /\ new.n \in Nat
  <2>1. new \in Lines
    BY <1>0 DEF TypeOK
  <2>2. new.attempt \in Nat /\ new.n \in Nat
    BY <2>1 DEF Lines
  <2> QED
    BY <1>0, <2>1, <2>2 DEF SayInv, Silent
<1>b. /\ buf' = Append(buf, new)
      /\ DOMAIN buf = 1 .. Len(buf) /\ Len(buf) \in Nat
      /\ DOMAIN buf' = 1 .. Len(buf) + 1
      /\ \A k \in DOMAIN buf : buf'[k] = buf[k]
      /\ buf'[Len(buf) + 1] = new
  BY <1>0, <1>n DEF TypeOK
<1>s. /\ Silent(a)'
      /\ \A b \in Actors \ {a} : Silent(b)' <=> Silent(b)
  BY <1>0 DEF TypeOK, Silent
<1>a. SubTasks \subseteq Actors
  BY DEF Actors
<1>k. \/ a \in SubTasks /\ sub[a] = "logging" /\ IsGroup(new, a, attempt[TaskOf[a]])
      \/ /\ a \in SubTasks /\ sub[a] = "finishing"
         /\ new.kind = "finished" /\ new.n = finishedKeyNum
         /\ new.from = a /\ new.attempt = attempt[TaskOf[a]]
      \/ new.kind \in {"warn", "debug"} /\ a \notin SubTasks
  BY <1>0, <1>n DEF SayInv
<1> HIDE DEF new
<1>1. TypeOK'
  <2>1. Blank \in Lines
    BY DEF Blank, Line, Lines, Actors
  <2>2. buf' \in Seq(Lines)
    BY <1>0, <1>n, <1>b, AppendFacts DEF TypeOK
  <2> QED
    BY <1>0, <2>1, <2>2 DEF TypeOK, fileVars
<1>2. CopyFollows'
  BY <1>0, NobodyIsNoActor DEF TypeOK, CopyFollows
<1>3. MaskInv' /\ MutexInv' /\ PhaseInv'
  BY <1>0 DEF MaskInv, MutexInv, PhaseInv, Settled, SubTasksOf
<1>4. SayInv'
  BY <1>0 DEF TypeOK, SayInv, Silent, IsGroup, Lines
<1>5. GroupInv'
  <2>1. \A s \in SubTasks : Grouped(s)' <=> Grouped(s) \/ (s = a /\ sub[a] = "logging")
    BY <1>s, <1>a DEF Grouped
  <2>2. sub[a] = "logging" /\ a \in SubTasks => IsGroup(new, a, attempt[TaskOf[a]])
    BY <1>k DEF IsGroup
  <2>3. new.kind = "group" => /\ a \in SubTasks /\ sub[a] = "logging" /\ ~Grouped(a)
                              /\ new.from = a /\ new.attempt = attempt[TaskOf[a]]
    BY <1>k, <1>n DEF IsGroup, Grouped
  <2>4. ASSUME NEW s \in SubTasks, Grouped(s)'
        PROVE  \E k \in DOMAIN buf' : IsGroup(buf'[k], s, attempt[TaskOf[s]])
    <3>1. CASE Grouped(s)
      <4>1. PICK k \in DOMAIN buf : IsGroup(buf[k], s, attempt[TaskOf[s]])
        BY <1>0, <3>1 DEF GroupInv
      <4> QED
        BY <4>1, <1>b
    <3>2. CASE s = a /\ sub[a] = "logging"
      BY <3>2, <2>2, <1>b
    <3> QED
      BY <2>1, <2>4, <3>1, <3>2
  <2>5. ASSUME NEW k \in DOMAIN buf', buf'[k].kind = "group"
        PROVE  /\ buf'[k].from \in SubTasks
               /\ buf'[k].attempt <= attempt[TaskOf[buf'[k].from]]
               /\ \A s \in SubTasks :
                    s = buf'[k].from /\ buf'[k].attempt = attempt[TaskOf[s]] => Grouped(s)'
    <3>1. CASE k \in DOMAIN buf
      BY <1>0, <1>b, <2>1, <2>5, <3>1 DEF GroupInv
    <3>2. CASE k = Len(buf) + 1
      <4>1. new.attempt <= attempt[TaskOf[new.from]]
        BY <1>b, <1>n, <2>3, <2>5, <3>2
      <4> QED
        BY <1>b, <2>1, <2>3, <2>5, <3>2, <4>1
    <3> QED
      BY <1>b, <3>1, <3>2
  <2>6. ASSUME NEW k \in DOMAIN buf, buf[k].kind = "group", new.kind = "group",
               buf[k].from = new.from, buf[k].attempt = new.attempt
        PROVE  FALSE
    BY <1>0, <2>3, <2>6 DEF GroupInv
  <2>7. GroupsOnce(buf)'
    <3> SUFFICES ASSUME NEW j \in DOMAIN buf', NEW k \in DOMAIN buf',
                        buf'[j].kind = "group", buf'[k].kind = "group",
                        buf'[k].from = buf'[j].from, buf'[k].attempt = buf'[j].attempt
                 PROVE  j = k
      BY DEF GroupsOnce, IsGroup
    <3>1. CASE j \in DOMAIN buf /\ k \in DOMAIN buf
      BY <1>0, <1>b, <3>1 DEF GroupInv, GroupsOnce, IsGroup
    <3>2. CASE j \in DOMAIN buf /\ k = Len(buf) + 1
      BY <1>b, <2>6, <3>2
    <3>3. CASE k \in DOMAIN buf /\ j = Len(buf) + 1
      BY <1>b, <2>6, <3>3
    <3> QED
      BY <1>b, <3>1, <3>2, <3>3
  <2> QED
    BY <2>4, <2>5, <2>7 DEF GroupInv
<1>6. ProgressInv'
  <2>1. new.kind = "finished" => /\ a \in SubTasks /\ sub[a] = "finishing" /\ Counting
                                 /\ new.n = finishedKeyNum
                                 /\ new.from = a /\ new.attempt = attempt[TaskOf[a]]
    BY <1>k, <1>n DEF IsGroup, Counting
  <2>2. \A s, t \in SubTasks : sub[s] = "finishing" /\ sub[t] = "finishing" => s = t
    BY <1>0 DEF MutexInv
  <2>3. Counting' => Counting /\ new.kind # "finished"
    BY <1>s, <1>a, <2>1, <2>2 DEF Counting
  <2>4. Counting => Counting' \/ new.kind = "finished"
    BY <1>s, <1>a, <1>k DEF Counting
  <2>5. ASSUME NEW k \in DOMAIN buf', buf'[k].kind = "finished"
        PROVE  /\ buf'[k].n <= finishedKeyNum
               /\ buf'[k].n = finishedKeyNum => ~Counting'
    <3>1. CASE k \in DOMAIN buf
      BY <1>0, <1>b, <2>3, <2>5, <3>1 DEF ProgressInv
    <3>2. CASE k = Len(buf) + 1
      BY <1>0, <1>b, <2>1, <2>3, <2>5, <3>2 DEF TypeOK
    <3> QED
      BY <1>b, <3>1, <3>2
  <2>6. ASSUME Prints("finished"), NEW n \in 1 .. finishedKeyNum
        PROVE  \/ \E k \in DOMAIN buf' : buf'[k].kind = "finished" /\ buf'[k].n = n
               \/ n = finishedKeyNum /\ Counting'
    <3>1. CASE \E k \in DOMAIN buf : buf[k].kind = "finished" /\ buf[k].n = n
      BY <1>b, <3>1
    <3>2. CASE n = finishedKeyNum /\ Counting
      BY <1>b, <2>1, <2>4, <3>2
    <3> QED
      BY <1>0, <2>6, <3>1, <3>2 DEF ProgressInv
  <2>7. ASSUME NEW k \in DOMAIN buf', buf'[k].kind = "finished"
        PROVE  /\ \A j \in 1 .. k - 1 : buf'[j].kind = "finished" => buf'[j].n < buf'[k].n
               /\ \E j \in 1 .. k - 1 : IsGroup(buf'[j], buf'[k].from, buf'[k].attempt)
    <3>1. CASE k \in DOMAIN buf
      <4>1. \A j \in 1 .. k - 1 : j \in DOMAIN buf /\ buf'[j] = buf[j]
        BY <1>b, <3>1
      <4> QED
        BY <1>0, <1>b, <2>7, <3>1, <4>1 DEF ProgressInv, ProgressInOrder
    <3>2. CASE k = Len(buf) + 1
      <4>1. 1 .. k - 1 = DOMAIN buf
        BY <1>b, <3>2
      <4>2. \A j \in DOMAIN buf : buf[j].kind = "finished" => buf[j].n < finishedKeyNum
        <5>1. \A j \in DOMAIN buf : buf[j].n \in Nat
          <6>1. \A j \in DOMAIN buf : buf[j] \in Lines
            BY <1>0 DEF TypeOK
          <6> QED
            BY <6>1 DEF Lines
        <5> QED
          BY <1>0, <1>b, <2>1, <2>7, <3>2, <5>1 DEF ProgressInv, TypeOK
      <4>3. Grouped(a) /\ a \in SubTasks
        BY <1>b, <2>1, <2>7, <3>2 DEF Grouped
      <4>4. PICK j \in DOMAIN buf : IsGroup(buf[j], a, attempt[TaskOf[a]])
        BY <1>0, <4>3 DEF GroupInv
      <4> QED
        BY <1>b, <2>1, <2>7, <3>2, <4>1, <4>2, <4>4
    <3> QED
      BY <1>b, <3>1, <3>2
  <2> QED
    BY <2>5, <2>6, <2>7 DEF ProgressInv, ProgressInOrder, Prints
<1>7. NothingClear(buf)'
  BY <1>0, <1>b, <1>n DEF NothingClear
<1>8. FileInv'
  BY <1>0, FileFrame
<1> QED
  BY <1>1, <1>2, <1>3, <1>4, <1>5, <1>6, <1>7, <1>8 DEF IInv


-----------------------------------------------------------------------------
LEMMA TokensTyped ==
  ASSUME TypeOK, NEW s \in SubTasks
  PROVE  TokenOf(s) \in Tokens /\ attempt[TaskOf[s]] \in 1 .. MaxAttempts
BY DEF TypeOK, TokenOf, Tokens

LEMMA StartSubTaskKeeps ==
  ASSUME IInv, NEW s \in SubTasks, StartSubTask(s)
  PROVE  IInv'
<1> USE DEF StartSubTask, keyVars, logVars
<1>0. /\ TypeOK /\ CopyFollows /\ MaskInv /\ SayInv /\ MutexInv /\ PhaseInv
      /\ GroupInv /\ ProgressInv /\ NothingClear(buf) /\ FileInv
  BY DEF IInv
<1>1. TypeOK' /\ CopyFollows'
  BY <1>0 DEF TypeOK, CopyFollows, fileVars
<1>2. MaskInv' /\ MutexInv'
  BY <1>0 DEF TypeOK, MaskInv, MutexInv
<1>3. SayInv'
  BY <1>0 DEF TypeOK, SayInv, Silent, IsGroup
<1>4. PhaseInv'
  BY <1>0 DEF TypeOK, PhaseInv, Settled, SubTasksOf
<1>5. GroupInv'
  BY <1>0, GroupFrame DEF TypeOK, Grouped, Silent
<1>6. ProgressInv'
  BY <1>0, ProgressFrame DEF TypeOK, Counting, Silent
<1>7. NothingClear(buf)'
  BY <1>0, ClearFrame
<1>8. FileInv'
  BY <1>0, FileFrame, AtRest
<1> QED
  BY <1>1, <1>2, <1>3, <1>4, <1>5, <1>6, <1>7, <1>8 DEF IInv

LEMMA LogGroupKeeps ==
  ASSUME IInv, NEW s \in SubTasks, LogGroup(s)
  PROVE  IInv'
<1> USE DEF LogGroup, keyVars
<1>0. /\ TypeOK /\ CopyFollows /\ MaskInv /\ SayInv /\ MutexInv /\ PhaseInv
      /\ GroupInv /\ ProgressInv /\ NothingClear(buf) /\ FileInv
  BY DEF IInv
<1> DEFINE said == Line("group", s, attempt[TaskOf[s]], 0, {TokenOf(s)})
<1>s. /\ said \in Lines
      /\ IsGroup(said, s, attempt[TaskOf[s]])
      /\ said.clear = {TokenOf(s)}
  BY <1>0, TokensTyped DEF Lines, Line, Actors, IsGroup
<1>p. stage' = [stage EXCEPT ![s] = "lock"] /\ line' = [line EXCEPT ![s] = said]
  BY DEF Say, Prints, Line
<1>a. SubTasks \subseteq Actors
  BY DEF Actors
<1>q. Silent(s)
  BY <1>0, <1>a DEF SayInv, TypeOK, Actors
<1> HIDE DEF said
<1>1. TypeOK'
  BY <1>0, <1>s, <1>p DEF TypeOK, fileVars
<1>2. CopyFollows'
  BY <1>0, <1>p, <1>q, <1>a, NobodyIsNoActor DEF TypeOK, CopyFollows, Silent
<1>3. MaskInv' /\ MutexInv'
  BY <1>0 DEF TypeOK, MaskInv, MutexInv
<1>4. SayInv'
  <2>1. said.clear \subseteq masks
    BY <1>0, <1>s DEF TypeOK, MaskInv, TokenOf
  <2> SUFFICES ASSUME NEW a \in Actors, ~Silent(a)'
               PROVE  /\ line'[a].clear \subseteq masks
                      /\ stage'[a] # "lock" => line'[a].clear = {}
                      /\ \/ /\ a \in SubTasks
                            /\ sub'[a] = "logging"
                            /\ IsGroup(line'[a], a, attempt[TaskOf[a]])
                         \/ /\ a \in SubTasks
                            /\ sub'[a] = "finishing"
                            /\ line'[a].kind = "finished" /\ line'[a].n = finishedKeyNum
                            /\ line'[a].from = a /\ line'[a].attempt = attempt[TaskOf[a]]
                         \/ a \in Tasks /\ phase[a] = "retrying" /\ line'[a].kind = "warn"
                         \/ a = Stray /\ line'[a].kind = "debug"
    BY DEF SayInv, IsGroup
  <2>2. CASE a = s
    BY <1>0, <1>p, <1>s, <1>a, <2>1, <2>2 DEF TypeOK
  <2>3. CASE a # s
    <3>1. line'[a] = line[a] /\ stage'[a] = stage[a] /\ (a \in SubTasks => sub'[a] = sub[a])
      BY <1>0, <1>p, <2>3 DEF TypeOK
    <3> QED
      BY <1>0, <3>1 DEF SayInv, Silent
  <2> QED
    BY <2>2, <2>3
<1>5. PhaseInv'
  BY <1>0 DEF TypeOK, PhaseInv, Settled, SubTasksOf
<1>6. GroupInv'
  BY <1>0, <1>p, <1>a, GroupFrame DEF TypeOK, Grouped, Silent
<1>7. ProgressInv'
  BY <1>0, <1>p, <1>a, ProgressFrame DEF TypeOK, Counting, Silent
<1>8. NothingClear(buf)'
  BY <1>0, ClearFrame
<1>9. FileInv'
  BY <1>0, FileFrame, AtRest
<1> QED
  BY <1>1, <1>2, <1>3, <1>4, <1>5, <1>6, <1>7, <1>8, <1>9 DEF IInv

LEMMA EndSubTaskKeeps ==
  ASSUME IInv, NEW s \in SubTasks, EndSubTask(s)
  PROVE  IInv'
<1> USE DEF EndSubTask, logVars
<1>0. /\ TypeOK /\ CopyFollows /\ MaskInv /\ SayInv /\ MutexInv /\ PhaseInv
      /\ GroupInv /\ ProgressInv /\ NothingClear(buf) /\ FileInv
  BY DEF IInv
<1>a. SubTasks \subseteq Actors
  BY DEF Actors
<1>1. TypeOK' /\ CopyFollows'
  BY <1>0 DEF TypeOK, CopyFollows, fileVars
<1>2. MaskInv' /\ MutexInv'
  BY <1>0, <1>a, NobodyIsNoActor DEF TypeOK, MaskInv, MutexInv
<1>3. SayInv'
  BY <1>0 DEF TypeOK, SayInv, Silent, IsGroup
<1>4. PhaseInv'
  BY <1>0 DEF TypeOK, PhaseInv, Settled, SubTasksOf
<1>5. GroupInv'
  BY <1>0, GroupFrame DEF TypeOK, Grouped, Silent
<1>6. ProgressInv'
  BY <1>0, ProgressFrame DEF TypeOK, Counting, Silent
<1>7. NothingClear(buf)'
  BY <1>0, ClearFrame
<1>8. FileInv'
  BY <1>0, FileFrame, AtRest
<1> QED
  BY <1>1, <1>2, <1>3, <1>4, <1>5, <1>6, <1>7, <1>8 DEF IInv


\* What Say does, whether the line is printed or not.
LEMMA SayFacts ==
  ASSUME TypeOK, NEW a \in Actors, NEW said \in Lines, Say(a, said)
  PROVE  /\ stage' \in [Actors -> {"silent", "lock", "out", "buf"}]
         /\ line' \in [Actors -> Lines]
         /\ \A b \in Actors \ {a} : stage'[b] = stage[b] /\ line'[b] = line[b]
         /\ \/ stage'[a] = "lock" /\ line'[a] = said /\ Prints(said.kind)
            \/ stage'[a] = stage[a] /\ line'[a] = line[a] /\ ~Prints(said.kind)
BY DEF TypeOK, Say

LEMMA OnFinishKeeps ==
  ASSUME IInv, NEW s \in SubTasks, OnFinish(s)
  PROVE  IInv'
<1> USE DEF OnFinish
<1>0. /\ TypeOK /\ CopyFollows /\ MaskInv /\ SayInv /\ MutexInv /\ PhaseInv
      /\ GroupInv /\ ProgressInv /\ NothingClear(buf) /\ FileInv
  BY DEF IInv
<1> DEFINE said == Line("finished", s, attempt[TaskOf[s]], finishedKeyNum', {})
<1>n. finishedKeyNum \in Nat /\ finishedKeyNum' = finishedKeyNum + 1
  BY <1>0 DEF TypeOK
<1>a. SubTasks \subseteq Actors
  BY DEF Actors
<1>s. /\ said \in Lines /\ said.kind = "finished" /\ said.n = finishedKeyNum + 1
      /\ said.from = s /\ said.attempt = attempt[TaskOf[s]] /\ said.clear = {}
  BY <1>0, <1>n, <1>a, TokensTyped DEF Lines, Line
<1>m. \A t \in SubTasks : sub[t] # "finishing"
  BY <1>0 DEF MutexInv, Actors
<1> HIDE DEF said
<1>p. /\ stage' \in [Actors -> {"silent", "lock", "out", "buf"}]
      /\ line' \in [Actors -> Lines]
      /\ \A b \in Actors \ {s} : stage'[b] = stage[b] /\ line'[b] = line[b]
      /\ \/ stage'[s] = "lock" /\ line'[s] = said /\ Prints("finished")
         \/ stage'[s] = "silent" /\ line'[s] = line[s] /\ ~Prints("finished")
  BY <1>0, <1>a, <1>s, SayFacts DEF said, Silent
<1>t. /\ sub' \in [SubTasks -> {"waiting", "executing", "logging", "finishing", "done"}]
      /\ sub'[s] = "finishing"
      /\ \A t \in SubTasks \ {s} : sub'[t] = sub[t]
  BY <1>0 DEF TypeOK
<1>1. TypeOK'
  BY <1>0, <1>n, <1>p, <1>t DEF TypeOK, fileVars
<1>2. CopyFollows'
  BY <1>0, <1>p, <1>a, NobodyIsNoActor DEF TypeOK, CopyFollows, Silent
<1>3. MaskInv' /\ MutexInv'
  BY <1>0, <1>m, <1>t DEF MaskInv, MutexInv
<1>4. SayInv'
  <2> SUFFICES ASSUME NEW a \in Actors, stage'[a] # "silent"
               PROVE  /\ line'[a].clear \subseteq masks
                      /\ stage'[a] # "lock" => line'[a].clear = {}
                      /\ \/ /\ a \in SubTasks
                            /\ sub'[a] = "logging"
                            /\ IsGroup(line'[a], a, attempt[TaskOf[a]])
                         \/ /\ a \in SubTasks
                            /\ sub'[a] = "finishing"
                            /\ line'[a].kind = "finished" /\ line'[a].n = finishedKeyNum'
                            /\ line'[a].from = a /\ line'[a].attempt = attempt[TaskOf[a]]
                         \/ a \in Tasks /\ phase[a] = "retrying" /\ line'[a].kind = "warn"
                         \/ a = Stray /\ line'[a].kind = "debug"
    BY DEF SayInv, IsGroup, Silent
  <2>2. CASE a = s
    BY <1>n, <1>p, <1>s, <1>t, <2>2
  <2>3. CASE a # s
    BY <1>0, <1>m, <1>p, <1>t, <2>3 DEF SayInv, Silent
  <2> QED
    BY <2>2, <2>3
<1>5. PhaseInv'
  BY <1>0, <1>t DEF PhaseInv, Settled, SubTasksOf
<1>6. GroupInv'
  BY <1>0, <1>p, <1>a, <1>t, GroupFrame DEF Grouped, Silent
<1>7. ProgressInv'
  <2>1. ~Counting
    BY <1>m DEF Counting
  <2>2. Prints("finished")' => Prints("finished") /\ Counting'
    BY <1>p, <1>t DEF Counting, Prints, Silent
  <2>3. \A k \in DOMAIN buf : buf[k].kind = "finished" => buf[k].n <= finishedKeyNum /\ buf[k].n \in Nat
    <3>1. \A k \in DOMAIN buf : buf[k] \in Lines
      BY <1>0 DEF TypeOK
    <3> QED
      BY <1>0, <3>1 DEF ProgressInv, Lines
  <2>4. ASSUME Prints("finished"), NEW n \in 1 .. finishedKeyNum'
        PROVE  \/ \E k \in DOMAIN buf : buf[k].kind = "finished" /\ buf[k].n = n
               \/ n = finishedKeyNum'
    BY <1>0, <1>n, <2>1, <2>4 DEF ProgressInv
  <2>5. \A k \in DOMAIN buf : buf[k].kind = "finished" =>
          buf[k].n <= finishedKeyNum' /\ buf[k].n # finishedKeyNum'
    BY <1>n, <2>3
  <2>6. ProgressInOrder(buf)'
    BY <1>0 DEF ProgressInv, ProgressInOrder, IsGroup
  <2> QED
    BY <2>2, <2>4, <2>5, <2>6 DEF ProgressInv
<1>8. NothingClear(buf)'
  BY <1>0, ClearFrame
<1>9. FileInv'
  BY <1>0, FileFrame, AtRest
<1> QED
  BY <1>1, <1>2, <1>3, <1>4, <1>5, <1>6, <1>7, <1>8, <1>9 DEF IInv

-----------------------------------------------------------------------------
LEMMA EndAttemptKeeps ==
  ASSUME IInv, NEW t \in Tasks, EndAttempt(t)
  PROVE  IInv'
<1> USE DEF EndAttempt, logVars, keyVars
<1>0. /\ TypeOK /\ CopyFollows /\ MaskInv /\ SayInv /\ MutexInv /\ PhaseInv
      /\ GroupInv /\ ProgressInv /\ NothingClear(buf) /\ FileInv
  BY DEF IInv
<1>1. TypeOK' /\ CopyFollows'
  BY <1>0 DEF TypeOK, CopyFollows, fileVars
<1>2. MaskInv' /\ MutexInv'
  BY <1>0 DEF MaskInv, MutexInv
<1>3. SayInv'
  BY <1>0 DEF TypeOK, SayInv, Silent, IsGroup
<1>4. PhaseInv'
  BY <1>0 DEF TypeOK, PhaseInv, Settled, SubTasksOf
<1>5. GroupInv' /\ ProgressInv' /\ NothingClear(buf)'
  BY <1>0, GroupFrame, ProgressFrame, ClearFrame DEF Grouped, Counting, Silent
<1>6. ~written
  BY <1>0 DEF FileInv
<1>7. FileInv'
  BY <1>0, <1>6, FileFrame
<1> QED
  BY <1>1, <1>2, <1>3, <1>4, <1>5, <1>7 DEF IInv


LEMMA RetryKeeps ==
  ASSUME IInv, NEW t \in Tasks, Retry(t)
  PROVE  IInv'
<1> USE DEF Retry, keyVars
<1>0. /\ TypeOK /\ CopyFollows /\ MaskInv /\ SayInv /\ MutexInv /\ PhaseInv
      /\ GroupInv /\ ProgressInv /\ NothingClear(buf) /\ FileInv
  BY DEF IInv
<1> DEFINE said == Line("warn", t, attempt[t], 0, {})
<1>a. t \in Actors /\ t \notin SubTasks /\ SubTasks \subseteq Actors
  BY DEF Actors
<1>s. said \in Lines /\ said.kind = "warn" /\ said.clear = {}
  BY <1>0, <1>a DEF TypeOK, Lines, Line
<1>q. Silent(t)
  BY <1>0, <1>a DEF SayInv
<1> HIDE DEF said
<1>p. /\ stage' \in [Actors -> {"silent", "lock", "out", "buf"}]
      /\ line' \in [Actors -> Lines]
      /\ \A b \in Actors \ {t} : stage'[b] = stage[b] /\ line'[b] = line[b]
      /\ \/ stage'[t] = "lock" /\ line'[t] = said
         \/ stage'[t] = "silent" /\ line'[t] = line[t]
  BY <1>0, <1>a, <1>q, <1>s, SayFacts DEF said, Silent
<1>1. TypeOK'
  BY <1>0, <1>p DEF TypeOK, fileVars
<1>2. CopyFollows'
  BY <1>0, <1>p, <1>q, <1>a, NobodyIsNoActor DEF TypeOK, CopyFollows, Silent
<1>3. MaskInv' /\ MutexInv'
  BY <1>0 DEF MaskInv, MutexInv
<1>4. SayInv'
  BY <1>0, <1>p, <1>s, <1>q, <1>a DEF TypeOK, SayInv, Silent, IsGroup
<1>5. PhaseInv'
  BY <1>0 DEF TypeOK, PhaseInv, Settled, SubTasksOf
<1>6. \A s \in SubTasks : Silent(s)' <=> Silent(s)
  BY <1>p, <1>a DEF Silent
<1>7. GroupInv' /\ ProgressInv' /\ NothingClear(buf)'
  BY <1>0, <1>6, GroupFrame, ProgressFrame, ClearFrame DEF Grouped, Counting
<1>8. FileInv'
  BY <1>0, FileFrame DEF FileInv
<1> QED
  BY <1>1, <1>2, <1>3, <1>4, <1>5, <1>7, <1>8 DEF IInv

LEMMA CreateJobKeeps ==
  ASSUME IInv, NEW t \in Tasks, CreateJob(t)
  PROVE  IInv'
<1> USE DEF CreateJob, keyVars
<1>0. /\ TypeOK /\ CopyFollows /\ MaskInv /\ SayInv /\ MutexInv /\ PhaseInv
      /\ GroupInv /\ ProgressInv /\ NothingClear(buf) /\ FileInv
  BY DEF IInv
<1>w. ~written
  BY <1>0 DEF FileInv
<1>f. FileInv'
  BY <1>0, <1>w, FileFrame
<1>c. CopyFollows' /\ NothingClear(buf)'
  BY <1>0, ClearFrame DEF CopyFollows
<1>1. CASE /\ masks' \in {masks, masks \cup {<<t, attempt[t] + 1>>}}
           /\ phase' = [phase EXCEPT ![t] = "failed"]
           /\ UNCHANGED <<attempt, sub>>
  <2>1. TypeOK'
    <3>1. <<t, attempt[t] + 1>> \in Tokens
      BY <1>0 DEF TypeOK, Tokens
    <3> QED
      BY <1>0, <1>1, <3>1 DEF TypeOK, fileVars
  <2>2. MaskInv' /\ MutexInv' /\ PhaseInv'
    BY <1>0, <1>1 DEF TypeOK, MaskInv, MutexInv, PhaseInv, Settled, SubTasksOf
  <2>3. SayInv'
    BY <1>0, <1>1 DEF TypeOK, SayInv, Silent, IsGroup
  <2>4. GroupInv' /\ ProgressInv'
    BY <1>0, <1>1, GroupFrame, ProgressFrame DEF Grouped, Counting, Silent
  <2> QED
    BY <1>c, <1>f, <2>1, <2>2, <2>3, <2>4 DEF IInv
<1>2. CASE /\ attempt[t] < MaxAttempts
           /\ attempt' = [attempt EXCEPT ![t] = @ + 1]
           /\ masks' = masks \cup {<<t, attempt[t] + 1>>}
           /\ sub' = [s \in SubTasks |-> IF TaskOf[s] = t THEN "waiting" ELSE sub[s]]
           /\ phase' = [phase EXCEPT ![t] = "running"]
  <2>a. /\ attempt \in [Tasks -> 1 .. MaxAttempts] /\ attempt'[t] = attempt[t] + 1
        /\ \A u \in Tasks \ {t} : attempt'[u] = attempt[u]
        /\ SubTasks \subseteq Actors /\ TaskOf \in [SubTasks -> Tasks]
    BY <1>0, <1>2 DEF TypeOK, Actors
  <2>s. \A s \in SubTasks : TaskOf[s] = t => sub[s] \in {"waiting", "done"} /\ Silent(s)
    <3>1. \A s \in SubTasks : TaskOf[s] = t => sub[s] \in {"waiting", "done"}
      BY <1>0 DEF PhaseInv, Settled, SubTasksOf
    <3> QED
      BY <1>0, <2>a, <3>1 DEF SayInv, Actors
  <2>b. \A s \in SubTasks :
          /\ TaskOf[s] = t => sub'[s] = "waiting"
          /\ TaskOf[s] # t => sub'[s] = sub[s] /\ attempt'[TaskOf[s]] = attempt[TaskOf[s]]
    BY <1>2, <2>a
  <2>1. attempt[t] + 1 \in 1 .. MaxAttempts
    BY <1>2, <2>a
  <2>2. TypeOK'
    BY <1>0, <1>2, <2>1 DEF TypeOK, fileVars, Tokens
  <2>3. MaskInv'
    <3> SUFFICES ASSUME NEW u \in Tasks, NEW n \in 1 .. attempt'[u]
                 PROVE  <<u, n>> \in masks'
      BY DEF MaskInv
    <3>1. CASE u = t
      <4>1. n = attempt[t] + 1 \/ n \in 1 .. attempt[t]
        BY <2>a, <3>1
      <4> QED
        BY <1>0, <1>2, <3>1, <4>1 DEF MaskInv
    <3>2. CASE u # t
      BY <1>0, <1>2, <2>a, <3>2 DEF MaskInv
    <3> QED
      BY <3>1, <3>2
  <2>4. MutexInv'
    BY <1>0, <2>s, <2>b DEF MutexInv
  <2>5. SayInv'
    <3> SUFFICES ASSUME NEW a \in Actors, stage[a] # "silent"
                 PROVE  /\ line[a].clear \subseteq masks'
                        /\ stage[a] # "lock" => line[a].clear = {}
                        /\ \/ /\ a \in SubTasks
                              /\ sub'[a] = "logging"
                              /\ IsGroup(line[a], a, attempt'[TaskOf[a]])
                           \/ /\ a \in SubTasks
                              /\ sub'[a] = "finishing"
                              /\ line[a].kind = "finished" /\ line[a].n = finishedKeyNum
                              /\ line[a].from = a /\ line[a].attempt = attempt'[TaskOf[a]]
                           \/ a \in Tasks /\ phase'[a] = "retrying" /\ line[a].kind = "warn"
                           \/ a = Stray /\ line[a].kind = "debug"
      BY DEF SayInv, IsGroup, Silent
    <3>1. a \in Tasks => a # t /\ phase'[a] = phase[a]
      BY <1>0, <1>2 DEF TypeOK, Silent
    <3>2. a \in SubTasks => TaskOf[a] # t
      BY <2>s DEF Silent
    <3> QED
      BY <1>0, <1>2, <2>b, <3>1, <3>2 DEF SayInv, Silent
  <2>6. PhaseInv'
    <3> SUFFICES ASSUME NEW u \in Tasks, phase'[u] # "running"
                 PROVE  Settled(u)'
      BY DEF PhaseInv
    <3>1. u # t /\ phase'[u] = phase[u] /\ phase[u] # "running"
      BY <1>0, <1>2 DEF TypeOK
    <3> QED
      BY <1>0, <2>a, <2>b, <3>1 DEF PhaseInv, Settled, SubTasksOf
  <2>7. GroupInv'
    <3>1. \A s \in SubTasks : Grouped(s)' <=> TaskOf[s] # t /\ Grouped(s)
      <4> SUFFICES ASSUME NEW s \in SubTasks
                   PROVE  Grouped(s)' <=> TaskOf[s] # t /\ Grouped(s)
        OBVIOUS
      <4>1. Silent(s)' <=> Silent(s)
        BY DEF Silent
      <4> QED
        <5>1. CASE TaskOf[s] = t
          BY <2>b, <5>1 DEF Grouped
        <5>2. CASE TaskOf[s] # t
          <6>1. sub'[s] = sub[s]
            BY <2>b, <5>2
          <6> QED
            BY <4>1, <5>2, <6>1 DEF Grouped
        <5> QED
          BY <5>1, <5>2
    <3>2. ASSUME NEW k \in DOMAIN buf, buf[k].kind = "group"
          PROVE  /\ buf[k].from \in SubTasks
                 /\ buf[k].attempt <= attempt'[TaskOf[buf[k].from]]
                 /\ \A s \in SubTasks :
                      s = buf[k].from /\ buf[k].attempt = attempt'[TaskOf[s]] => Grouped(s)'
      <4> DEFINE f == buf[k].from
      <4>1. /\ f \in SubTasks /\ buf[k].attempt <= attempt[TaskOf[f]]
            /\ buf[k].attempt = attempt[TaskOf[f]] => Grouped(f)
        BY <1>0, <3>2 DEF GroupInv
      <4>2. buf[k].attempt \in Nat
        <5>1. buf[k] \in Lines
          BY <1>0 DEF TypeOK
        <5> QED
          BY <5>1 DEF Lines
      <4>3. attempt[TaskOf[f]] \in Nat
        BY <2>a, <4>1
      <4>4. CASE TaskOf[f] = t
        <5>1. attempt'[TaskOf[f]] = attempt[TaskOf[f]] + 1
          BY <2>a, <4>4
        <5>2. buf[k].attempt < attempt'[TaskOf[f]]
          BY <4>1, <4>2, <4>3, <5>1
        <5>3. buf[k].attempt # attempt'[TaskOf[f]] /\ buf[k].attempt <= attempt'[TaskOf[f]]
          BY <4>2, <4>3, <5>1, <5>2
        <5> QED
          BY <4>1, <5>3
      <4>5. CASE TaskOf[f] # t
        BY <2>b, <3>1, <4>1, <4>5
      <4> QED
        BY <4>4, <4>5
    <3>3. \A s \in SubTasks : Grouped(s)' =>
            \E k \in DOMAIN buf : IsGroup(buf[k], s, attempt'[TaskOf[s]])
      BY <1>0, <2>b, <3>1 DEF GroupInv
    <3>4. GroupsOnce(buf)'
      BY <1>0 DEF GroupInv, GroupsOnce, IsGroup
    <3> QED
      BY <3>2, <3>3, <3>4 DEF GroupInv, IsGroup
  <2>8. ProgressInv'
    <3>1. Counting' <=> Counting
      BY <2>b, <2>s DEF Counting, Silent
    <3> QED
      BY <1>0, <3>1, ProgressFrame
  <2> QED
    BY <1>c, <1>f, <2>2, <2>3, <2>4, <2>5, <2>6, <2>7, <2>8 DEF IInv
<1> QED
  BY <1>1, <1>2

LEMMA StrayCopyKeeps ==
  ASSUME IInv, StrayCopy
  PROVE  IInv'
<1> USE DEF StrayCopy, keyVars, taskVars
<1>0. /\ TypeOK /\ CopyFollows /\ MaskInv /\ SayInv /\ MutexInv /\ PhaseInv
      /\ GroupInv /\ ProgressInv /\ NothingClear(buf) /\ FileInv
  BY DEF IInv
<1> DEFINE said == Line("debug", Stray, 0, 0, {})
<1>a. Stray \in Actors /\ Stray \notin SubTasks \cup Tasks /\ SubTasks \subseteq Actors
  BY DEF Actors
<1>s. said \in Lines /\ said.kind = "debug" /\ said.clear = {}
  BY <1>a DEF Lines, Line
<1> HIDE DEF said
<1>p. /\ stage' \in [Actors -> {"silent", "lock", "out", "buf"}]
      /\ line' \in [Actors -> Lines]
      /\ \A b \in Actors \ {Stray} : stage'[b] = stage[b] /\ line'[b] = line[b]
      /\ stage'[Stray] = "lock" /\ line'[Stray] = said
  BY <1>0, <1>a, <1>s, SayFacts DEF said
<1>1. TypeOK'
  BY <1>0, <1>p DEF TypeOK, fileVars
<1>2. CopyFollows'
  BY <1>0, <1>p, <1>a, NobodyIsNoActor DEF TypeOK, CopyFollows, Silent
<1>3. MaskInv' /\ MutexInv' /\ PhaseInv'
  BY <1>0 DEF MaskInv, MutexInv, PhaseInv, Settled, SubTasksOf
<1>4. SayInv'
  BY <1>0, <1>p, <1>s, <1>a DEF TypeOK, SayInv, Silent, IsGroup
<1>5. \A s \in SubTasks : Silent(s)' <=> Silent(s)
  BY <1>p, <1>a DEF Silent
<1>6. GroupInv' /\ ProgressInv' /\ NothingClear(buf)'
  BY <1>0, <1>5, GroupFrame, ProgressFrame, ClearFrame DEF Grouped, Counting
<1>7. FileInv'
  BY <1>0, FileFrame
<1> QED
  BY <1>1, <1>2, <1>3, <1>4, <1>6, <1>7 DEF IInv

LEMMA WriteLogKeeps ==
  ASSUME IInv, WriteLog
  PROVE  IInv'
<1> USE DEF WriteLog, keyVars, taskVars, logVars
<1>0. /\ TypeOK /\ CopyFollows /\ MaskInv /\ SayInv /\ MutexInv /\ PhaseInv
      /\ GroupInv /\ ProgressInv /\ NothingClear(buf) /\ FileInv
  BY DEF IInv
<1>1. TypeOK' /\ CopyFollows' /\ MaskInv' /\ MutexInv' /\ PhaseInv'
  BY <1>0 DEF TypeOK, CopyFollows, MaskInv, MutexInv, PhaseInv, Settled, SubTasksOf
<1>2. SayInv'
  BY <1>0 DEF SayInv, Silent, IsGroup
<1>3. GroupInv' /\ ProgressInv' /\ NothingClear(buf)'
  BY <1>0, GroupFrame, ProgressFrame, ClearFrame DEF Grouped, Counting, Silent
<1>4. \A s \in SubTasks : sub[s] \in {"waiting", "done"}
  BY <1>0 DEF PhaseInv, Settled, SubTasksOf
<1>5. LogFileComplete'
  <2>1. \A s \in SubTasks : sub[s] = "done" =>
          \E k \in DOMAIN buf : IsGroup(buf[k], s, attempt[TaskOf[s]])
    BY <1>0 DEF GroupInv, Grouped
  <2>2. Prints("finished") =>
          \A n \in 1 .. finishedKeyNum :
            \E k \in DOMAIN buf : buf[k].kind = "finished" /\ buf[k].n = n
    BY <1>0, <1>4 DEF ProgressInv, Counting
  <2>3. GroupsOnce(buf) /\ ProgressInOrder(buf) /\ NothingClear(buf)
    BY <1>0 DEF GroupInv, ProgressInv
  <2> QED
    BY <2>1, <2>2, <2>3 DEF LogFileComplete, IsGroup, GroupsOnce, ProgressInOrder,
                            NothingClear, Prints
<1>6. FileInv'
  BY <1>5 DEF FileInv
<1> QED
  BY <1>1, <1>2, <1>3, <1>6 DEF IInv

LEMMA StutterKeeps ==
  ASSUME IInv, UNCHANGED vars
  PROVE  IInv'
<1> USE DEF vars, taskVars, keyVars, logVars
<1>0. /\ TypeOK /\ CopyFollows /\ MaskInv /\ SayInv /\ MutexInv /\ PhaseInv
      /\ GroupInv /\ ProgressInv /\ NothingClear(buf) /\ FileInv
  BY DEF IInv
<1>1. TypeOK' /\ CopyFollows' /\ MaskInv' /\ MutexInv' /\ PhaseInv'
  BY <1>0 DEF TypeOK, CopyFollows, MaskInv, MutexInv, PhaseInv, Settled, SubTasksOf, fileVars
<1>2. SayInv'
  BY <1>0 DEF SayInv, Silent, IsGroup
<1>3. GroupInv' /\ ProgressInv' /\ NothingClear(buf)'
  BY <1>0, GroupFrame, ProgressFrame, ClearFrame DEF Grouped, Counting, Silent
<1>4. FileInv'
  BY <1>0, FileFrame
<1> QED
  BY <1>1, <1>2, <1>3, <1>4 DEF IInv

-----------------------------------------------------------------------------
LEMMA StepKeeps == IInv /\ [Next]_vars => IInv'
<1> SUFFICES ASSUME IInv, [Next]_vars PROVE IInv'
  OBVIOUS
<1>1. ASSUME NEW a \in Actors, Lock(a) \/ PrintOut(a) \/ PrintBuf(a)
      PROVE  IInv'
  BY <1>1, LockKeeps, PrintOutKeeps, PrintBufKeeps
<1>2. ASSUME NEW s \in SubTasks,
             StartSubTask(s) \/ LogGroup(s) \/ OnFinish(s) \/ EndSubTask(s)
      PROVE  IInv'
  BY <1>2, StartSubTaskKeeps, LogGroupKeeps, OnFinishKeeps, EndSubTaskKeeps
<1>3. ASSUME NEW t \in Tasks, EndAttempt(t) \/ Retry(t) \/ CreateJob(t)
      PROVE  IInv'
  BY <1>3, EndAttemptKeeps, RetryKeeps, CreateJobKeeps
<1>4. CASE StrayCopy \/ WriteLog
  BY <1>4, StrayCopyKeeps, WriteLogKeeps
<1>5. CASE Over \/ UNCHANGED vars
  BY <1>5, StutterKeeps DEF Over
<1> QED
  BY <1>1, <1>2, <1>3, <1>4, <1>5 DEF Next

\* The invariant: what is printed and the logger's copy never drift apart, every actor
\* prints what its place in the code says, and groups and progress lines are in order.
THEOREM Invariance == Spec => []IInv
BY InitIInv, StepKeeps, PTL DEF Spec

\* Every variable keeps its type.
THEOREM TypeCorrect == Spec => []TypeOK
<1>1. IInv => TypeOK
  BY DEF IInv
<1> QED
  BY Invariance, <1>1, PTL

\* The log file has everything the subtasks said, and nothing that was to be masked.
THEOREM FileIsComplete == Spec => []LogFileComplete
<1>1. IInv => LogFileComplete
  BY DEF IInv, FileInv
<1> QED
  BY Invariance, <1>1, PTL

=============================================================================
