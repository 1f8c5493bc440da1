------------------------ MODULE TurnSchedulerProofs ------------------------
(***************************************************************************)
(* For any prompts, limits and bounds: one loop runs at a time in the      *)
(* controller the user drives, no prompt gets lost or overtaken there, and *)
(* no watch event gets lost while nobody cuts a turn; wakes are throttled  *)
(* in every controller; and the runner of a retained sub-agent returns     *)
(* only when the turns of its job are over, while each prompt sent to it   *)
(* has one place.                                                          *)
(*                                                                         *)
(* The xxxLocked operators go from one record of the fields under streamMu *)
(* to the next, so each has a lemma about any record.  One loop rests on   *)
(* two facts: whoever starts a turn has seen that none runs, and a turn    *)
(* gives the pipeline up (running) only as its last step.  A retained      *)
(* sub-agent is another matter: its runner starts the first turn of an     *)
(* assignment without asking again, and /compact may have come in between  *)
(* (TurnsCompact.cfg).                                                     *)
(***************************************************************************)
EXTENDS TurnScheduler, FiniteSetTheorems, TLAPS

Fields ==
  {"closing", "switching", "running", "stopped", "gen", "turns", "queue", "events", "inbox",
   "wake", "streak", "suppressed", "model", "approved", "work", "blocked", "resume", "asg",
   "attached", "view"}
AssignmentFields == {"job", "turn", "terminal", "stop", "claimed"}
TurnFields == {"pc", "prompt", "owed", "wake", "rides", "inject", "job"}

\* What every operator keeps of the record it is given.
Record(s) ==
  /\ DOMAIN s = Fields
  /\ DOMAIN s.asg = AssignmentFields
  /\ DOMAIN s.turns = Turns
  /\ \A g \in Turns : DOMAIN s.turns[g] = TurnFields
  /\ s.streak \in Nat

\* The turns and their bookkeeping are left alone.
Keeps(s, t) ==
  /\ Record(t)
  /\ t.turns = s.turns /\ t.gen = s.gen /\ t.running = s.running
  /\ t.streak = s.streak /\ t.switching = s.switching
  /\ t.asg.job = s.asg.job

\* A turn that is not off is the current one, and no switch is under way then.
Single(s) ==
  /\ s.gen \in Turns
  /\ s.switching => ~s.running
  /\ \A g \in Turns : s.turns[g].pc # "off" => g = s.gen /\ s.running

LEMMA KeepsSingle ==
  ASSUME NEW s, NEW t, Keeps(s, t), Single(s)
  PROVE  Single(t)
BY DEF Keeps, Single

LEMMA NoTurnLemma ==
  DOMAIN NoTurn = TurnFields /\ NoTurn.pc = "off" /\ NoTurn.wake = FALSE
BY DEF NoTurn, TurnFields

LEMMA RequeueLemma ==
  ASSUME NEW s, Record(s), NEW ps
  PROVE  Keeps(s, Requeue(s, ps)) /\ Requeue(s, ps).suppressed = s.suppressed
BY DEF Keeps, Record, Fields, AssignmentFields, Requeue

LEMMA DrainLemma ==
  ASSUME NEW s, Record(s)
  PROVE  Keeps(s, DrainWatch(s)) /\ DrainWatch(s).suppressed = s.suppressed
BY DEF Keeps, Record, Fields, AssignmentFields, DrainWatch

LEMMA CompleteLemma ==
  ASSUME NEW s, Record(s)
  PROVE  Keeps(s, Complete(s))
BY DEF Keeps, Record, Fields, AssignmentFields, Complete

LEMMA StopAssignmentLemma ==
  ASSUME NEW s, Record(s)
  PROVE  Keeps(s, StopAssignment(s))
<1>. DEFINE t == [s EXCEPT !.asg.stop = TRUE, !.queue = <<>>]
<1>1. Keeps(s, t)
  BY DEF Keeps, Record, Fields, AssignmentFields
<1>2. Keeps(t, Complete(t))
  BY <1>1, CompleteLemma DEF Keeps
<1>3. Keeps(t, [t EXCEPT !.stopped = TRUE, !.asg.turn = "interrupting"])
  BY <1>1 DEF Keeps, Record, Fields, AssignmentFields
<1>4. Keeps(s, s)
  BY DEF Keeps
<1>. QED  BY <1>1, <1>2, <1>3, <1>4 DEF Keeps, StopAssignment

\* A start takes one name of a turn, marks it as a wake or not, and counts nothing.
LEMMA StartPromptLemma ==
  ASSUME NEW s, Record(s), NEW p, NEW owed, NEW wake
  PROVE  LET t == StartPrompt(s, p, owed, wake) IN
         /\ Record(t)
         /\ t.streak = s.streak /\ t.suppressed = s.suppressed
         /\ t.asg.job = s.asg.job
         /\ \A h \in Turns : t.turns[h] = s.turns[h] \/ t.turns[h].wake = wake
         /\ Single(s) /\ ~s.running => Single(t)
<1>. DEFINE d == DrainWatch(s)
            g == CHOOSE g \in Turns \ {s.gen} : s.turns[g].pc = "off"
            new == [NoTurn EXCEPT !.pc = "delay", !.prompt = p, !.owed = owed, !.wake = wake,
                                  !.rides = ToSet(s.events), !.job = s.asg.job]
            u == [d EXCEPT !.running = TRUE, !.stopped = FALSE, !.blocked = FALSE,
                          !.resume = FALSE, !.gen = g,
                          !.turns[g] = new,
                          !.asg.turn = IF HasAssignment(s) THEN "running" ELSE @]
<1>1. /\ Keeps(s, Requeue(s, Owed(p, owed)))
      /\ Requeue(s, Owed(p, owed)).suppressed = s.suppressed
  BY RequeueLemma
<1>2. Record(d) /\ Keeps(s, d) /\ d.suppressed = s.suppressed
  BY DrainLemma DEF Keeps
<1>3. /\ Keeps(d, Requeue(d, Owed(p, owed)))
      /\ Requeue(d, Owed(p, owed)).suppressed = d.suppressed
  BY <1>2, RequeueLemma
<1>4. DOMAIN new = TurnFields /\ new.wake = wake
  BY DEF NoTurn, TurnFields
<1>5. /\ DOMAIN u = Fields
      /\ u.turns = [s.turns EXCEPT ![g] = new] /\ u.gen = g /\ u.running = TRUE
      /\ u.streak = s.streak /\ u.suppressed = s.suppressed
      /\ u.switching = s.switching
      /\ DOMAIN u.asg = AssignmentFields /\ u.asg.job = s.asg.job
  <2>. HIDE DEF g, new, d
  <2>. QED  BY <1>2 DEF Keeps, Record, Fields, AssignmentFields
<1>6. /\ Record(u)
      /\ \A h \in Turns : u.turns[h] = s.turns[h] \/ u.turns[h].wake = wake
  <2>. HIDE DEF g, new, u
  <2>. QED  BY <1>4, <1>5 DEF Record
<1>7. ASSUME Single(s), ~s.running, ~s.switching
      PROVE  Single(u)
  <2>1. \A h \in Turns : s.turns[h].pc = "off"
    BY <1>7 DEF Single
  <2>2. g \in Turns
    BY <2>1 DEF Turns
  <2>. HIDE DEF g, new, u
  <2>. QED  BY <1>5, <1>7, <2>1, <2>2 DEF Single, Record
<1>8. \/ StartPrompt(s, p, owed, wake) \in {Requeue(s, Owed(p, owed)), Requeue(d, Owed(p, owed))}
      \/ StartPrompt(s, p, owed, wake) = u /\ ~s.switching
  BY DEF StartPrompt
<1>9. Single(s) => Single(Requeue(s, Owed(p, owed))) /\ Single(Requeue(d, Owed(p, owed)))
  BY <1>1, <1>2, <1>3 DEF Keeps, Single
<1>. HIDE DEF d, u
<1>. QED  BY <1>1, <1>2, <1>3, <1>5, <1>6, <1>7, <1>8, <1>9 DEF Keeps

LEMMA MaybeResumeLemma ==
  ASSUME NEW s, Record(s)
  PROVE  LET t == MaybeResume(s) IN
         /\ Record(t)
         /\ t.streak = s.streak /\ t.suppressed = s.suppressed
         /\ t.asg.job = s.asg.job
         /\ \A h \in Turns : t.turns[h] = s.turns[h] \/ t.turns[h].wake = FALSE
         /\ Single(s) => Single(t)
<1>. DEFINE direct == s.resume /\ s.work
            r == [s EXCEPT !.resume = direct]
<1>1. Record(r) /\ Keeps(s, r) /\ r.suppressed = s.suppressed
  BY DEF Keeps, Record, Fields, AssignmentFields
<1>2. LET t == StartPrompt(r, None, FALSE, FALSE) IN
      /\ Record(t)
      /\ t.streak = r.streak /\ t.suppressed = r.suppressed
      /\ t.asg.job = r.asg.job
      /\ \A h \in Turns : t.turns[h] = r.turns[h] \/ t.turns[h].wake = FALSE
      /\ Single(r) /\ ~r.running => Single(t)
  <2>. HIDE DEF r
  <2>. QED  BY <1>1, StartPromptLemma
<1>3. Single(s) => Single(r)
  BY <1>1, KeepsSingle
<1>4. \/ MaybeResume(s) \in {s, r}
      \/ MaybeResume(s) = StartPrompt(r, None, FALSE, FALSE) /\ ~s.running
  BY DEF MaybeResume
<1>. HIDE DEF r
<1>. QED  BY <1>1, <1>2, <1>3, <1>4 DEF Keeps

\* Whatever is started next, a wake is counted and was allowed.
LEMMA StartNextLemma ==
  ASSUME NEW s, Record(s), NEW stopped
  PROVE  LET t == StartNext(s, stopped) IN
         /\ Record(t)
         /\ t.asg.job = s.asg.job
         /\ \A h \in Turns :
              \/ t.turns[h] = s.turns[h] \/ t.turns[h].wake = FALSE
              \/ t.streak = s.streak + 1 /\ s.streak < MaxWakeStreak /\ ~s.suppressed
         /\ Single(s) /\ ~s.running => Single(t)
<1>. DEFINE q == [s EXCEPT !.queue = Tail(@)]
            m == IF ~stopped \/ ~HasAssignment(s) THEN MaybeResume(s) ELSE s
            w == [m EXCEPT !.streak = @ + 1]
            first == StartPrompt(q, Head(s.queue), TRUE, FALSE)
            last == StartPrompt(w, None, FALSE, TRUE)
<1>1. Record(q) /\ Keeps(s, q)
  BY DEF Keeps, Record, Fields, AssignmentFields
<1>2. LET t == StartPrompt(q, Head(s.queue), TRUE, FALSE) IN
      /\ Record(t)
      /\ t.streak = q.streak /\ t.suppressed = q.suppressed
      /\ t.asg.job = q.asg.job
      /\ \A h \in Turns : t.turns[h] = q.turns[h] \/ t.turns[h].wake = FALSE
      /\ Single(q) /\ ~q.running => Single(t)
  <2>. HIDE DEF q
  <2>. QED  BY <1>1, StartPromptLemma
<1>3. /\ Record(m)
      /\ m.streak = s.streak /\ m.suppressed = s.suppressed
      /\ m.asg.job = s.asg.job
      /\ \A h \in Turns : m.turns[h] = s.turns[h] \/ m.turns[h].wake = FALSE
      /\ Single(s) => Single(m)
  BY MaybeResumeLemma
<1>4. /\ Record(w) /\ w.turns = m.turns /\ w.gen = m.gen /\ w.running = m.running
      /\ w.switching = m.switching /\ w.streak = s.streak + 1
      /\ w.asg.job = s.asg.job
  <2>. HIDE DEF m
  <2>. QED  BY <1>3 DEF Record, Fields, AssignmentFields
<1>5. Single(s) => Single(q) /\ Single(w)
  BY <1>1, <1>3, <1>4, KeepsSingle DEF Single
<1>6. LET t == StartPrompt(w, None, FALSE, TRUE) IN
      /\ Record(t)
      /\ t.streak = w.streak /\ t.suppressed = w.suppressed
      /\ t.asg.job = w.asg.job
      /\ \A h \in Turns : t.turns[h] = w.turns[h] \/ t.turns[h].wake = TRUE
      /\ Single(w) /\ ~w.running => Single(t)
  <2>. HIDE DEF w
  <2>. QED  BY <1>4, StartPromptLemma
<1>7. \/ StartNext(s, stopped) \in {s, m, first}
      \/ /\ StartNext(s, stopped) = last
         /\ ~m.running /\ ~m.suppressed /\ m.streak < MaxWakeStreak
  BY DEF StartNext
<1>. HIDE DEF q, m, w
<1>8. CASE StartNext(s, stopped) \in {s, m, first}
  BY <1>1, <1>2, <1>3, <1>5, <1>8 DEF Keeps
<1>9. CASE /\ StartNext(s, stopped) = last
           /\ ~m.running /\ ~m.suppressed /\ m.streak < MaxWakeStreak
  BY <1>3, <1>4, <1>5, <1>6, <1>9
<1>. QED  BY <1>7, <1>8, <1>9

LEMMA ArmLemma ==
  ASSUME NEW s, Record(s)
  PROVE  Keeps(s, Arm(s)) /\ Keeps(s, ArmUnlessSwitching(s))
BY DEF Keeps, Record, Fields, AssignmentFields, Arm, ArmUnlessSwitching

LEMMA FollowUpLemma ==
  ASSUME NEW s, Record(s), NEW p, FollowUp(s, p)
  PROVE  Record(c') /\ c'.turns = s.turns
<1>1. CASE c' = [s EXCEPT !.asg = NewAssignment(NextJob)]
  BY <1>1 DEF Record, Fields, AssignmentFields, NewAssignment
<1>2. CASE c' = Requeue(s, <<p>>)
  BY <1>2, RequeueLemma DEF Keeps
<1>. QED  BY <1>1, <1>2 DEF FollowUp

(***************************************************************************)
(* The steps.                                                              *)
(***************************************************************************)

\* A wake that begins is counted, and was allowed.
WakeCounted ==
  \A g \in Turns :
    c.turns[g].pc = "off" /\ c'.turns[g].pc # "off" /\ c'.turns[g].wake
      => c'.streak = c.streak + 1 /\ c.streak < MaxWakeStreak /\ ~c.suppressed

\* The controller the user drives: nobody gave it an assignment.
Root == Single(c) /\ c.asg.job = 0 /\ \A j \in Jobs : runner[j].pc = "none"

\* What one step owes the two theorems.
Good == /\ Record(c')
        /\ WakeCounted
        /\ ~IsChild /\ Root => Root'

LEMMA KeptGood ==
  ASSUME Record(c), Record(c'), c'.turns = c.turns,
         ~IsChild /\ Root => /\ c'.gen = c.gen /\ c'.running = c.running
                             /\ c'.switching => ~c'.running
                             /\ c'.asg.job = c.asg.job
                             /\ UNCHANGED runner
  PROVE  Good
BY DEF Good, WakeCounted, Root, Single

\* A turn that is at work goes on.
LEMMA WorkGood ==
  ASSUME Record(c), Record(c'), NEW g \in Turns, c.turns[g].pc # "off",
         \A h \in Turns \ {g} : c'.turns[h] = c.turns[h],
         UNCHANGED runner,
         c'.gen = c.gen, c'.running = c.running, c'.switching = c.switching,
         c'.asg.job = c.asg.job
  PROVE  Good
BY DEF Good, WakeCounted, Root, Single

\* A start that is no wake, from a state where nothing runs.
LEMMA StartGood ==
  ASSUME Record(c), NEW s, Record(s), s.turns = c.turns,
         ~IsChild /\ Root => /\ Single(s) /\ ~s.running
                             /\ s.asg.job = c.asg.job
                             /\ UNCHANGED runner,
         NEW p, NEW owed, c' = StartPrompt(s, p, owed, FALSE)
  PROVE  Good
<1>1. LET t == StartPrompt(s, p, owed, FALSE) IN
      /\ Record(t)
      /\ t.streak = s.streak /\ t.suppressed = s.suppressed
      /\ t.asg.job = s.asg.job
      /\ \A h \in Turns : t.turns[h] = s.turns[h] \/ t.turns[h].wake = FALSE
      /\ Single(s) /\ ~s.running => Single(t)
  BY StartPromptLemma
<1>2. Record(c') /\ WakeCounted
  BY <1>1 DEF WakeCounted
<1>3. ~IsChild /\ Root => Root'
  BY <1>1 DEF Root
<1>. QED  BY <1>2, <1>3 DEF Good

LEMMA SubmitGood == ASSUME Record(c), NEW p \in Prompts, Submit(p) PROVE Good
<1>. DEFINE s == [c EXCEPT !.streak = 0, !.suppressed = FALSE]
<1>1. /\ Record(s) /\ s.turns = c.turns /\ s.gen = c.gen /\ s.running = c.running
      /\ s.switching = c.switching /\ s.asg.job = c.asg.job
  BY DEF Record, Fields, AssignmentFields
<1>2. CASE IsChild /\ FollowUp(s, p)
  <2>. HIDE DEF s
  <2>1. Record(c') /\ c'.turns = s.turns
    BY <1>1, <1>2, FollowUpLemma
  <2>. QED  BY <1>1, <1>2, <2>1, KeptGood
<1>3. CASE c' = [s EXCEPT !.queue = Append(@, p)] /\ UNCHANGED runner
  <2>1. /\ Record(c') /\ c'.turns = s.turns /\ c'.gen = s.gen /\ c'.running = s.running
        /\ c'.switching = s.switching /\ c'.asg.job = s.asg.job
    <3>. HIDE DEF s
    <3>. QED  BY <1>1, <1>3 DEF Record, Fields, AssignmentFields
  <2>. HIDE DEF s
  <2>. QED  BY <1>1, <1>3, <2>1, KeptGood DEF Root, Single
<1>4. CASE c' = StartPrompt(s, p, FALSE, FALSE) /\ ~s.running /\ UNCHANGED runner
  <2>. HIDE DEF s
  <2>1. Single(c) => Single(s)
    BY <1>1 DEF Single
  <2>. QED  BY <1>1, <1>4, <2>1, StartGood DEF Root
<1>. QED  BY <1>2, <1>3, <1>4 DEF Submit

LEMMA RecallGood == ASSUME Record(c), Recall PROVE Good
<1>1. /\ Record(c') /\ c'.turns = c.turns /\ c'.gen = c.gen /\ c'.running = c.running
      /\ c'.switching = c.switching /\ c'.asg.job = c.asg.job
  BY DEF Recall, Record, Fields, AssignmentFields
<1>2. UNCHANGED runner
  BY DEF Recall
<1>. QED  BY <1>1, <1>2, KeptGood DEF Root, Single

LEMMA CancelGood == ASSUME Record(c), Cancel PROVE Good
<1>1. /\ Record(c') /\ c'.turns = c.turns /\ c'.gen = c.gen /\ c'.running = c.running
      /\ c'.switching = c.switching /\ c'.asg.job = c.asg.job
  BY DEF Cancel, Record, Fields, AssignmentFields
<1>2. UNCHANGED runner
  BY DEF Cancel
<1>. QED  BY <1>1, <1>2, KeptGood DEF Root, Single

LEMMA ChangeModelGood == ASSUME Record(c), ChangeModel PROVE Good
<1>1. /\ Record(c') /\ c'.turns = c.turns /\ c'.gen = c.gen /\ c'.running = c.running
      /\ c'.switching = c.switching /\ c'.asg.job = c.asg.job
  BY DEF ChangeModel, Record, Fields, AssignmentFields
<1>2. UNCHANGED runner
  BY DEF ChangeModel
<1>. QED  BY <1>1, <1>2, KeptGood DEF Root, Single

LEMMA TimerFiresGood == ASSUME Record(c), TimerFires PROVE Good
<1>1. /\ Record(c') /\ c'.turns = c.turns /\ c'.gen = c.gen /\ c'.running = c.running
      /\ c'.switching = c.switching /\ c'.asg.job = c.asg.job
  BY DEF TimerFires, Record, Fields, AssignmentFields
<1>2. UNCHANGED runner
  BY DEF TimerFires
<1>. QED  BY <1>1, <1>2, KeptGood DEF Root, Single

LEMMA ReleaseGood == ASSUME Record(c), Release PROVE Good
<1>1. UNCHANGED <<c, runner>>
  BY DEF Release
<1>. QED  BY <1>1, KeptGood DEF Root, Single

LEMMA LeaveGood == ASSUME Record(c), Leave PROVE Good
<1>1. Keeps(c, c') /\ UNCHANGED runner
  BY StopAssignmentLemma DEF Leave
<1>. QED  BY <1>1, KeptGood DEF Keeps, Root, Single

LEMMA WatchEventGood == ASSUME Record(c), WatchEvent PROVE Good
<1>1. UNCHANGED runner
  BY DEF WatchEvent
<1>2. Keeps(c, c)
  BY DEF Keeps
<1>3. ASSUME NEW q, c' = ArmUnlessSwitching([c EXCEPT !.events = q])
      PROVE  Keeps(c, c')
  <2>. DEFINE s == [c EXCEPT !.events = q]
  <2>1. Keeps(c, s)
    BY DEF Keeps, Record, Fields, AssignmentFields
  <2>2. Keeps(s, ArmUnlessSwitching(s))
    <3>. HIDE DEF s
    <3>. QED  BY <2>1, ArmLemma DEF Keeps
  <2>. QED  BY <1>3, <2>1, <2>2 DEF Keeps
<1>4. Keeps(c, c')
  BY <1>2, <1>3 DEF WatchEvent
<1>. QED  BY <1>1, <1>4, KeptGood DEF Keeps, Root, Single

LEMMA ResultGood == ASSUME Record(c), Result PROVE Good
<1>1. UNCHANGED runner
  BY DEF Result
<1>. DEFINE s == [c EXCEPT !.inbox = @ + 1]
<1>2. Keeps(c, s)
  BY DEF Keeps, Record, Fields, AssignmentFields
<1>3. Keeps(s, Arm(s)) /\ Keeps(s, ArmUnlessSwitching(s))
  <2>. HIDE DEF s
  <2>. QED  BY <1>2, ArmLemma DEF Keeps
<1>4. Keeps(c, c')
  BY <1>2, <1>3 DEF Result, Keeps
<1>. QED  BY <1>1, <1>4, KeptGood DEF Keeps, Root, Single

LEMMA ShutdownGood == ASSUME Record(c), Shutdown PROVE Good
<1>. DEFINE s == [c EXCEPT !.closing = TRUE]
            r == StopAssignment(s)
<1>1. Keeps(c, s)
  BY DEF Keeps, Record, Fields, AssignmentFields
<1>2. Keeps(s, r)
  <2>. HIDE DEF s
  <2>. QED  BY <1>1, StopAssignmentLemma DEF Keeps
<1>3. c' = [[r EXCEPT !.queue = <<>>, !.wake = "off"] EXCEPT !.stopped = @ \/ [r EXCEPT !.queue = <<>>, !.wake = "off"].running]
  BY DEF Shutdown
<1>4. Keeps(r, c')
  <2>. HIDE DEF r
  <2>. QED  BY <1>2, <1>3 DEF Keeps, Record, Fields, AssignmentFields
<1>5. UNCHANGED runner
  BY DEF Shutdown
<1>6. Keeps(c, c')
  <2>. HIDE DEF s, r
  <2>. QED  BY <1>1, <1>2, <1>4 DEF Keeps
<1>. QED  BY <1>5, <1>6, KeptGood DEF Keeps, Root, Single

LEMMA BeginSwitchGood == ASSUME Record(c), BeginSwitch PROVE Good
<1>1. /\ Record(c') /\ c'.turns = c.turns /\ c'.gen = c.gen /\ c'.running = c.running
      /\ ~c.running /\ c'.asg.job = c.asg.job
  BY DEF BeginSwitch, Record, Fields, AssignmentFields
<1>2. UNCHANGED runner
  BY DEF BeginSwitch
<1>. QED  BY <1>1, <1>2, KeptGood

LEMMA CompactGood == ASSUME Record(c), Compact PROVE Good
<1>. DEFINE g == CHOOSE g \in Turns \ {c.gen} : c.turns[g].pc = "off"
            new == [NoTurn EXCEPT !.pc = "compacting"]
<1>1. DOMAIN new = TurnFields /\ new.wake = FALSE
  BY DEF NoTurn, TurnFields
<1>2. /\ ~c.running /\ ~c.switching /\ UNCHANGED runner
      /\ c' = [c EXCEPT !.running = TRUE, !.stopped = FALSE, !.gen = g, !.turns[g] = new]
  BY DEF Compact
<1>3. /\ DOMAIN c' = Fields /\ c'.turns = [c.turns EXCEPT ![g] = new]
      /\ c'.gen = g /\ c'.running = TRUE /\ c'.switching = c.switching /\ c'.asg = c.asg
      /\ c'.streak = c.streak
  <2>. HIDE DEF g, new
  <2>. QED  BY <1>2 DEF Record, Fields
<1>4. Record(c') /\ WakeCounted
  <2>. HIDE DEF g, new
  <2>. QED  BY <1>1, <1>3 DEF Record, WakeCounted
<1>5. ASSUME ~IsChild, Root
      PROVE  Root'
  <2>1. \A h \in Turns : c.turns[h].pc = "off"
    BY <1>2, <1>5 DEF Root, Single
  <2>2. g \in Turns
    BY <2>1 DEF Turns
  <2>. HIDE DEF g, new
  <2>. QED  BY <1>2, <1>3, <1>5, <2>1, <2>2 DEF Root, Single, Record
<1>. QED  BY <1>4, <1>5 DEF Good

LEMMA SetPlanApprovedGood == ASSUME Record(c), NEW approved \in BOOLEAN, SetPlanApproved(approved) PROVE Good
<1>1. UNCHANGED runner
  BY DEF SetPlanApproved
<1>2. CASE ~approved
  <2>. DEFINE s == [c EXCEPT !.approved = approved]
  <2>1. Keeps(c, s)
    BY DEF Keeps, Record, Fields, AssignmentFields
  <2>2. c' = [s EXCEPT !.blocked = FALSE, !.resume = FALSE, !.stopped = TRUE, !.queue = <<>>]
    BY <1>2 DEF SetPlanApproved
  <2>3. Keeps(s, c')
    <3>. HIDE DEF s
    <3>. QED  BY <2>1, <2>2 DEF Keeps, Record, Fields, AssignmentFields
  <2>. HIDE DEF s
  <2>. QED  BY <1>1, <2>1, <2>3, KeptGood DEF Keeps, Root, Single
<1>3. CASE approved
  <2>. DEFINE s == [[c EXCEPT !.approved = approved] EXCEPT !.resume = @ \/ [c EXCEPT !.approved = approved].work]
  <2>1. Keeps(c, s)
    BY DEF Keeps, Record, Fields, AssignmentFields
  <2>2. c' = MaybeResume(s)
    BY <1>3 DEF SetPlanApproved
  <2>. HIDE DEF s
  <2>3. LET t == MaybeResume(s) IN
         /\ Record(t)
         /\ t.streak = s.streak /\ t.suppressed = s.suppressed
         /\ t.asg.job = s.asg.job
         /\ \A h \in Turns : t.turns[h] = s.turns[h] \/ t.turns[h].wake = FALSE
         /\ Single(s) => Single(t)
    BY <2>1, MaybeResumeLemma DEF Keeps
  <2>4. Single(c) => Single(s)
    BY <2>1, KeepsSingle
  <2>. QED  BY <1>1, <2>1, <2>2, <2>3, <2>4 DEF Keeps, Good, WakeCounted, Root
<1>. QED  BY <1>2, <1>3

LEMMA WakeForWatchesGood == ASSUME Record(c), WakeForWatches PROVE Good
<1>. DEFINE s == [c EXCEPT !.wake = "off"]
            w == [s EXCEPT !.streak = @ + 1]
<1>1. Keeps(c, s) /\ s.suppressed = c.suppressed
  BY DEF Keeps, Record, Fields, AssignmentFields
<1>2. /\ Record(w) /\ w.turns = s.turns /\ w.gen = s.gen /\ w.running = s.running
      /\ w.switching = s.switching /\ w.asg.job = s.asg.job /\ w.streak = s.streak + 1
  <2>. HIDE DEF s
  <2>. QED  BY <1>1 DEF Keeps, Record, Fields, AssignmentFields
<1>3. UNCHANGED runner
  BY DEF WakeForWatches
<1>4. CASE c' = s
  <2>. HIDE DEF s
  <2>. QED  BY <1>1, <1>3, <1>4, KeptGood DEF Keeps, Root, Single
<1>5. CASE /\ c' = StartPrompt(w, None, FALSE, TRUE)
           /\ ~s.running /\ ~s.suppressed /\ ~(s.streak >= MaxWakeStreak)
  <2>. HIDE DEF w
  <2>1. LET t == StartPrompt(w, None, FALSE, TRUE) IN
        /\ Record(t)
        /\ t.streak = w.streak /\ t.suppressed = w.suppressed
        /\ t.asg.job = w.asg.job
        /\ \A h \in Turns : t.turns[h] = w.turns[h] \/ t.turns[h].wake = TRUE
        /\ Single(w) /\ ~w.running => Single(t)
    BY <1>2, StartPromptLemma
  <2>. HIDE DEF s
  <2>2. Single(c) => Single(w)
    BY <1>1, <1>2 DEF Keeps, Single
  <2>3. s.streak < MaxWakeStreak
    <3>1. s.streak \in Nat /\ MaxWakeStreak \in Nat
      BY <1>1, LimitsAssumption DEF Keeps, Record
    <3>. QED  BY <1>5, <3>1
  <2>4. WakeCounted
    BY <1>1, <1>2, <1>5, <2>1, <2>3 DEF Keeps, WakeCounted
  <2>. QED  BY <1>1, <1>2, <1>3, <1>5, <2>1, <2>2, <2>4 DEF Keeps, Good, Root
<1>. QED  BY <1>4, <1>5 DEF WakeForWatches

LEMMA EndSwitchGood == ASSUME Record(c), EndSwitch PROVE Good
<1>. DEFINE b == [c EXCEPT !.switching = FALSE, !.stopped = FALSE]
<1>1. PICK s \in Conversations(b) :
        \/ /\ NeedsFollowUp(s)
           /\ FollowUp([s EXCEPT !.queue = Tail(@)], Head(s.queue))
        \/ c' = StartNext(s, c.stopped) /\ UNCHANGED runner
  BY DEF EndSwitch
<1>2. /\ Record(b) /\ b.turns = c.turns /\ b.gen = c.gen /\ b.running = c.running
      /\ ~b.switching /\ b.asg.job = c.asg.job
      /\ b.streak = c.streak /\ b.suppressed = c.suppressed
  BY DEF Record, Fields, AssignmentFields
<1>3. /\ Record(s) /\ s.turns = c.turns /\ s.gen = c.gen /\ s.running = c.running
      /\ ~s.switching /\ s.asg.job = c.asg.job
      /\ s.streak = c.streak /\ s.suppressed = c.suppressed
  <2>. HIDE DEF b
  <2>1. s = b \/ \E a \in Plans, w \in Plans : s = Other(b, a, w)
    BY DEF Conversations
  <2>2. ASSUME NEW a, NEW w, s = Other(b, a, w)
        PROVE  /\ DOMAIN s = Fields /\ s.turns = b.turns /\ s.gen = b.gen
               /\ s.running = b.running /\ s.switching = b.switching /\ s.asg = b.asg
               /\ s.streak = b.streak /\ s.suppressed = b.suppressed
    BY <1>2, <2>2 DEF Record, Fields, Other
  <2>. QED  BY <1>2, <2>1, <2>2 DEF Record
<1>4. Root => Single(s) /\ ~s.running
  BY <1>3 DEF Root, Single, EndSwitch
<1>5. CASE /\ NeedsFollowUp(s)
           /\ FollowUp([s EXCEPT !.queue = Tail(@)], Head(s.queue))
  <2>. DEFINE q == [s EXCEPT !.queue = Tail(@)]
  <2>1. Record(q) /\ q.turns = s.turns
    BY <1>3 DEF Record, Fields, AssignmentFields
  <2>2. ~Root
    BY <1>3, <1>5 DEF Root, NeedsFollowUp, HasAssignment
  <2>. HIDE DEF q
  <2>3. Record(c') /\ c'.turns = q.turns
    BY <1>5, <2>1, FollowUpLemma DEF q
  <2>. QED  BY <1>3, <2>1, <2>2, <2>3, KeptGood
<1>6. CASE c' = StartNext(s, c.stopped) /\ UNCHANGED runner
  <2>1. LET t == StartNext(s, c.stopped) IN
         /\ Record(t)
         /\ t.asg.job = s.asg.job
         /\ \A h \in Turns :
              \/ t.turns[h] = s.turns[h] \/ t.turns[h].wake = FALSE
              \/ t.streak = s.streak + 1 /\ s.streak < MaxWakeStreak /\ ~s.suppressed
         /\ Single(s) /\ ~s.running => Single(t)
    BY <1>3, StartNextLemma
  <2>. QED  BY <1>3, <1>4, <1>6, <2>1 DEF Good, WakeCounted, Root
<1>. QED  BY <1>1, <1>5, <1>6

(***************************************************************************)
(* The steps of a turn.                                                    *)
(***************************************************************************)

LEMMA TurnGood ==
  ASSUME Record(c), NEW g \in Turns, c.turns[g].pc # "off",
         NEW s, Keeps(c, s), NEW t, DOMAIN t = TurnFields,
         c' = [s EXCEPT !.turns[g] = t],
         UNCHANGED runner
  PROVE  Good
<1>1. /\ DOMAIN c' = Fields /\ c'.turns = [c.turns EXCEPT ![g] = t]
      /\ c'.gen = c.gen /\ c'.running = c.running /\ c'.switching = c.switching
      /\ c'.asg = s.asg /\ c'.streak = s.streak
  BY DEF Keeps, Record, Fields
<1>2. Record(c') /\ c'.asg.job = c.asg.job
  BY <1>1 DEF Keeps, Record
<1>. QED  BY <1>1, <1>2, WorkGood DEF Record

LEMMA GoesGood ==
  ASSUME Record(c), NEW g \in Turns, c.turns[g].pc # "off", NEW pc, Goes(g, pc),
         UNCHANGED runner
  PROVE  Good
<1>. DEFINE t == [c.turns[g] EXCEPT !.pc = pc]
<1>1. DOMAIN t = TurnFields /\ Keeps(c, c)
  BY DEF Record, Keeps
<1>2. c' = [c EXCEPT !.turns[g] = t]
  BY DEF Goes
<1>. HIDE DEF t
<1>. QED  BY <1>1, <1>2, TurnGood

LEMMA FailsGood ==
  ASSUME Record(c), NEW g \in Turns, c.turns[g].pc # "off", Fails(g)
  PROVE  Good
<1>. DEFINE t == [c.turns[g] EXCEPT !.pc = "unwinding", !.prompt = None, !.rides = {},
                                    !.inject = <<>>]
            u == [c.turns[g] EXCEPT !.pc = "unwinding"]
<1>1. DOMAIN t = TurnFields /\ DOMAIN u = TurnFields /\ Keeps(c, c)
  BY DEF Record, Keeps
<1>2. c' \in {[c EXCEPT !.turns[g] = t], [c EXCEPT !.turns[g] = u]} /\ UNCHANGED runner
  BY DEF Fails
<1>. HIDE DEF t, u
<1>. QED  BY <1>1, <1>2, TurnGood

LEMMA DelayGood == ASSUME Record(c), NEW g \in Turns, Delay(g) PROVE Good
BY GoesGood DEF Delay, turnRest

LEMMA OpeningGood == ASSUME Record(c), NEW g \in Turns, Opening(g) PROVE Good
<1>. DEFINE t == [c.turns[g] EXCEPT !.pc = "inbox", !.prompt = None, !.rides = {}]
<1>1. DOMAIN t = TurnFields /\ Keeps(c, c)
  BY DEF Record, Keeps
<1>2. c.turns[g].pc # "off"
  BY DEF Opening
<1>3. CASE c' = [c EXCEPT !.turns[g] = t] /\ UNCHANGED runner
  <2>. HIDE DEF t
  <2>. QED  BY <1>1, <1>2, <1>3, TurnGood
<1>4. CASE Fails(g)
  BY <1>2, <1>4, FailsGood
<1>. QED  BY <1>3, <1>4 DEF Opening, turnRest

LEMMA InboxGood == ASSUME Record(c), NEW g \in Turns, Inbox(g) PROVE Good
<1>1. c.turns[g].pc # "off"
  BY DEF Inbox
<1>2. CASE Goes(g, "unwinding") /\ UNCHANGED runner
  BY <1>1, <1>2, GoesGood
<1>3. CASE c' = [c EXCEPT !.turns[g].pc = "inference", !.inbox = 0] /\ UNCHANGED runner
  <2>. DEFINE s == [c EXCEPT !.inbox = 0]
              t == [c.turns[g] EXCEPT !.pc = "inference"]
  <2>1. Keeps(c, s) /\ DOMAIN t = TurnFields
    BY DEF Keeps, Record, Fields, AssignmentFields
  <2>2. c' = [s EXCEPT !.turns[g] = t]
    BY <1>3 DEF Record, Fields
  <2>. HIDE DEF s, t
  <2>. QED  BY <1>1, <1>3, <2>1, <2>2, TurnGood
<1>4. CASE /\ c' = [c EXCEPT !.suppressed = TRUE,
                             !.turns[g] = [@ EXCEPT !.pc = "unwinding", !.prompt = None]]
           /\ UNCHANGED runner
  <2>. DEFINE s == [c EXCEPT !.suppressed = TRUE]
              t == [c.turns[g] EXCEPT !.pc = "unwinding", !.prompt = None]
  <2>1. Keeps(c, s) /\ DOMAIN t = TurnFields
    BY DEF Keeps, Record, Fields, AssignmentFields
  <2>2. c' = [s EXCEPT !.turns[g] = t]
    BY <1>4 DEF Record, Fields
  <2>. HIDE DEF s, t
  <2>. QED  BY <1>1, <1>4, <2>1, <2>2, TurnGood
<1>. QED  BY <1>2, <1>3, <1>4 DEF Inbox, turnRest

LEMMA InferenceGood == ASSUME Record(c), NEW g \in Turns, Inference(g) PROVE Good
<1>1. c.turns[g].pc # "off"
  BY DEF Inference
<1>2. CASE \E pc : Goes(g, pc) /\ UNCHANGED runner
  BY <1>1, <1>2, GoesGood
<1>3. CASE Fails(g)
  BY <1>1, <1>3, FailsGood
<1>. DEFINE t == [c.turns[g] EXCEPT !.pc = "boundary"]
<1>4. ASSUME NEW work,
             c' = [c EXCEPT !.turns[g].pc = "boundary", !.blocked = FALSE,
                            !.resume = FALSE, !.work = work],
             UNCHANGED runner
      PROVE  Good
  <2>. DEFINE s == [c EXCEPT !.blocked = FALSE, !.resume = FALSE, !.work = work]
  <2>1. Keeps(c, s) /\ DOMAIN t = TurnFields
    BY DEF Keeps, Record, Fields, AssignmentFields
  <2>2. c' = [s EXCEPT !.turns[g] = t]
    BY <1>4 DEF Record, Fields
  <2>. HIDE DEF s, t
  <2>. QED  BY <1>1, <1>4, <2>1, <2>2, TurnGood
<1>5. CASE c' = [c EXCEPT !.turns[g].pc = "boundary", !.blocked = TRUE] /\ UNCHANGED runner
  <2>. DEFINE s == [c EXCEPT !.blocked = TRUE]
  <2>1. Keeps(c, s) /\ DOMAIN t = TurnFields
    BY DEF Keeps, Record, Fields, AssignmentFields
  <2>2. c' = [s EXCEPT !.turns[g] = t]
    BY <1>5 DEF Record, Fields
  <2>. HIDE DEF s, t
  <2>. QED  BY <1>1, <1>5, <2>1, <2>2, TurnGood
<1>. QED  BY <1>2, <1>3, <1>4, <1>5 DEF Inference, turnRest

LEMMA BoundaryGood == ASSUME Record(c), NEW g \in Turns, Boundary(g) PROVE Good
<1>1. c.turns[g].pc # "off" /\ UNCHANGED runner
  BY DEF Boundary, turnRest
<1>2. CASE c' = [c EXCEPT !.turns[g].pc = "inbox"]
  BY <1>1, <1>2, GoesGood DEF Goes
<1>. DEFINE d == DrainWatch(c)
            t == [c.turns[g] EXCEPT !.pc = "feeding", !.inject = c.queue, !.rides = ToSet(c.events)]
<1>3. CASE c' = [d EXCEPT !.queue = <<>>,
                  !.turns[g] = [@ EXCEPT !.pc = "feeding", !.inject = c.queue,
                                         !.rides = ToSet(c.events)]]
  <2>1. Keeps(c, d)
    BY DrainLemma
  <2>. HIDE DEF d
  <2>. DEFINE s == [d EXCEPT !.queue = <<>>]
  <2>2. Keeps(c, s) /\ DOMAIN t = TurnFields
    BY <2>1 DEF Keeps, Record, Fields, AssignmentFields
  <2>3. c' = [s EXCEPT !.turns[g] = t]
    BY <1>3, <2>1 DEF Keeps, Record, Fields
  <2>. HIDE DEF s, t
  <2>. QED  BY <1>1, <2>2, <2>3, TurnGood
<1>. QED  BY <1>2, <1>3 DEF Boundary

LEMMA FeedingGood == ASSUME Record(c), NEW g \in Turns, Feeding(g) PROVE Good
<1>1. c.turns[g].pc # "off"
  BY DEF Feeding
<1>. DEFINE t == [c.turns[g] EXCEPT !.inject = Tail(@)]
            u == [c.turns[g] EXCEPT !.pc = "inbox", !.rides = {}]
<1>2. DOMAIN t = TurnFields /\ DOMAIN u = TurnFields /\ Keeps(c, c)
  BY DEF Record, Keeps
<1>3. CASE c' \in {[c EXCEPT !.turns[g] = t], [c EXCEPT !.turns[g] = u]} /\ UNCHANGED runner
  <2>. HIDE DEF t, u
  <2>. QED  BY <1>1, <1>2, <1>3, TurnGood
<1>4. CASE Fails(g)
  BY <1>1, <1>4, FailsGood
<1>. QED  BY <1>3, <1>4 DEF Feeding, turnRest

LEMMA UnwindingGood == ASSUME Record(c), NEW g \in Turns, Unwinding(g) PROVE Good
<1>. DEFINE s == Requeue(c, Held(c.turns[g]))
            t == [NoTurn EXCEPT !.pc = "finishing", !.job = c.turns[g].job,
                                !.wake = c.turns[g].wake]
<1>1. Keeps(c, s)
  BY RequeueLemma
<1>2. DOMAIN t = TurnFields
  BY DEF NoTurn, TurnFields
<1>3. c.turns[g].pc # "off" /\ c' = [s EXCEPT !.turns[g] = t] /\ UNCHANGED runner
  BY DEF Unwinding, turnRest
<1>. HIDE DEF s, t
<1>. QED  BY <1>1, <1>2, <1>3, TurnGood

LEMMA CompactingGood == ASSUME Record(c), NEW g \in Turns, Compacting(g) PROVE Good
BY GoesGood DEF Compacting, turnRest

\* The turn gives the pipeline up and decides, in the same section, who is next.
LEMMA FinishingGood == ASSUME Record(c), NEW g \in Turns, Finishing(g) PROVE Good
<1>. DEFINE s == [c EXCEPT !.turns[g] = NoTurn]
            t == [s EXCEPT !.running = FALSE, !.stopped = FALSE]
            n == StartNext(t, c.stopped)
            i == [n EXCEPT !.asg.turn = "interrupted"]
<1>1. c.turns[g].pc # "off"
  BY DEF Finishing
<1>2. /\ Record(s) /\ s.turns = [c.turns EXCEPT ![g] = NoTurn] /\ s.gen = c.gen
      /\ s.streak = c.streak /\ s.suppressed = c.suppressed /\ s.asg = c.asg
      /\ s.switching = c.switching
  BY NoTurnLemma DEF Record, Fields, AssignmentFields
<1>3. /\ Record(t) /\ t.turns = s.turns /\ t.gen = s.gen /\ t.streak = s.streak
      /\ t.suppressed = s.suppressed /\ t.asg = s.asg /\ ~t.running
  <2>. HIDE DEF s
  <2>. QED  BY <1>2 DEF Record, Fields, AssignmentFields
<1>4. Single(c) => g = c.gen /\ Single(t)
  <2>. HIDE DEF t, s
  <2>. QED  BY <1>1, <1>2, <1>3, NoTurnLemma DEF Single, Record
<1>5. WakeCounted \/ c'.turns # t.turns
  <2>. HIDE DEF t, s
  <2>. QED  BY <1>2, <1>3, NoTurnLemma DEF WakeCounted, Record
<1>6. CASE g # c.gen /\ c' = s
  <2>. HIDE DEF t, s
  <2>. QED  BY <1>2, <1>3, <1>4, <1>5, <1>6 DEF Good, Root
<1>7. CASE NeedsFollowUp(t) /\ FollowUp([t EXCEPT !.queue = Tail(@)], Head(t.queue))
  <2>. DEFINE q == [t EXCEPT !.queue = Tail(@)]
  <2>. HIDE DEF t
  <2>1. Record(q) /\ q.turns = t.turns
    BY <1>3 DEF Record, Fields, AssignmentFields
  <2>2. t.asg.job # 0
    BY <1>7 DEF NeedsFollowUp, HasAssignment
  <2>. HIDE DEF q
  <2>3. Record(c') /\ c'.turns = q.turns
    BY <1>7, <2>1, FollowUpLemma DEF q
  <2>. HIDE DEF s
  <2>. QED  BY <1>2, <1>3, <1>5, <2>1, <2>2, <2>3 DEF Good, Root
<1>8. CASE c' \in {n, i, Complete(n)} /\ UNCHANGED runner
  <2>. HIDE DEF t
  <2>1. /\ Record(n)
        /\ n.asg.job = t.asg.job
        /\ \A h \in Turns :
             \/ n.turns[h] = t.turns[h] \/ n.turns[h].wake = FALSE
             \/ n.streak = t.streak + 1 /\ t.streak < MaxWakeStreak /\ ~t.suppressed
        /\ Single(t) /\ ~t.running => Single(n)
    BY <1>3, StartNextLemma
  <2>. HIDE DEF n
  <2>2. Keeps(n, n) /\ Keeps(n, i) /\ Keeps(n, Complete(n))
    BY <2>1, CompleteLemma DEF Keeps, Record, Fields, AssignmentFields
  <2>3. Keeps(n, c')
    BY <1>8, <2>2
  <2>. HIDE DEF s, i
  <2>4. WakeCounted
    BY <1>1, <1>2, <1>3, <2>1, <2>3, NoTurnLemma DEF WakeCounted, Keeps, Record
  <2>5. Single(n) => Single(c')
    BY <2>3, KeepsSingle
  <2>. QED  BY <1>2, <1>3, <1>4, <1>8, <2>1, <2>3, <2>4, <2>5 DEF Good, Root, Keeps
<1>9. \/ g # c.gen /\ c' = s
      \/ NeedsFollowUp(t) /\ FollowUp([t EXCEPT !.queue = Tail(@)], Head(t.queue))
      \/ c' \in {n, i, Complete(n)} /\ UNCHANGED runner
  BY DEF Finishing
<1>. QED  BY <1>6, <1>7, <1>8, <1>9

(***************************************************************************)
(* The job manager's runners: a session the user drives has none.          *)
(***************************************************************************)

LEMMA KeepsGood ==
  ASSUME Record(c), Keeps(c, c'), UNCHANGED runner \/ \E j \in Jobs : runner[j].pc # "none"
  PROVE  Good
BY KeptGood DEF Keeps, Root, Single

LEMMA ClaimGood == ASSUME Record(c), NEW j \in Jobs, Claim(j) PROVE Good
<1>1. runner[j].pc # "none"
  BY DEF Claim
<1>2. Record(c') /\ c'.turns = c.turns
  BY DEF Claim, Record, Fields, AssignmentFields, NewAssignment
<1>. QED  BY <1>1, <1>2, KeptGood DEF Root

LEMMA BindFailsGood == ASSUME Record(c), NEW j \in Jobs, BindFails(j) PROVE Good
<1>. DEFINE s == StopAssignment(c)
<1>1. runner[j].pc # "none"
  BY DEF BindFails
<1>2. Keeps(c, c) /\ Keeps(c, s)
  BY StopAssignmentLemma DEF Keeps
<1>. HIDE DEF s
<1>3. Keeps(s, Requeue(s, <<runner[j].prompt>>))
  BY <1>2, RequeueLemma DEF Keeps
<1>4. c' \in {c, Requeue(s, <<runner[j].prompt>>)}
  BY DEF BindFails, s
<1>. QED  BY <1>1, <1>2, <1>3, <1>4, KeepsGood DEF Keeps

LEMMA AttachGood == ASSUME Record(c), NEW j \in Jobs, Attach(j) PROVE Good
<1>1. runner[j].pc # "none"
  BY DEF Attach
<1>2. Keeps(c, c) /\ Keeps(c, StopAssignment(c))
  BY StopAssignmentLemma DEF Keeps
<1>3. c' \in {c, StopAssignment(c)}
  BY DEF Attach, StopJob
<1>. QED  BY <1>1, <1>2, <1>3, KeepsGood

LEMMA BeginGood == ASSUME Record(c), NEW j \in Jobs, Begin(j) PROVE Good
<1>. DEFINE s == [c EXCEPT !.attached = FALSE]
            r == StopAssignment(s)
            q == [s EXCEPT !.queue = Tail(@)]
            p == runner[j].prompt
<1>1. runner[j].pc # "none" /\ ~Root
  BY DEF Begin, Root
<1>2. Keeps(c, s)
  BY DEF Keeps, Record, Fields, AssignmentFields
<1>3. Keeps(c, q)
  <2>. HIDE DEF s
  <2>. QED  BY <1>2 DEF Keeps, Record, Fields, AssignmentFields
<1>4. Keeps(c, Requeue(r, Owed(p, TRUE)))
  <2>. HIDE DEF s
  <2>1. Keeps(s, r)
    BY <1>2, StopAssignmentLemma DEF Keeps
  <2>2. Keeps(r, Requeue(r, Owed(p, TRUE)))
    <3>. HIDE DEF r
    <3>. QED  BY <2>1, RequeueLemma DEF Keeps
  <2>. HIDE DEF r
  <2>. QED  BY <1>2, <2>1, <2>2 DEF Keeps
<1>5. \/ c' \in {s, Requeue(r, Owed(p, TRUE))}
      \/ c' = StartPrompt(s, p, TRUE, FALSE)
      \/ c' = StartPrompt(q, Head(s.queue), TRUE, FALSE)
  BY DEF Begin
<1>. HIDE DEF s, r, q
<1>6. CASE c' \in {s, Requeue(r, Owed(p, TRUE))}
  BY <1>1, <1>2, <1>4, <1>6, KeepsGood
<1>7. CASE c' = StartPrompt(s, p, TRUE, FALSE)
  BY <1>1, <1>2, <1>7, StartGood DEF Keeps
<1>8. CASE c' = StartPrompt(q, Head(s.queue), TRUE, FALSE)
  BY <1>1, <1>3, <1>8, StartGood DEF Keeps
<1>. QED  BY <1>5, <1>6, <1>7, <1>8

LEMMA DoneGood == ASSUME Record(c), NEW j \in Jobs, Done(j) PROVE Good
BY KeepsGood DEF Done, Keeps

LEMMA ContextEndsGood == ASSUME Record(c), NEW j \in Jobs, ContextEnds(j) PROVE Good
BY KeepsGood, StopAssignmentLemma DEF ContextEnds

LEMMA ViewReadyGood == ASSUME Record(c), ViewReady PROVE Good
<1>1. PICK v : c' = [c EXCEPT !.view = v]
  BY DEF ViewReady
<1>2. Keeps(c, c')
  BY <1>1 DEF Keeps, Record, Fields, AssignmentFields
<1>. QED  BY <1>2, KeepsGood DEF ViewReady

(***************************************************************************)
(* The theorems.                                                           *)
(***************************************************************************)

LEMMA NextGood == ASSUME Record(c), [Next]_vars PROVE Good
<1>1. CASE UNCHANGED vars
  BY <1>1, KeepsGood DEF vars, Keeps
<1>2. CASE UserStep
  BY <1>2, SubmitGood, RecallGood, CancelGood, CompactGood, SetPlanApprovedGood,
     BeginSwitchGood, EndSwitchGood, LeaveGood, ShutdownGood, ReleaseGood, ChangeModelGood
     DEF UserStep
<1>3. CASE Background
  BY <1>3, WatchEventGood, ResultGood, TimerFiresGood, WakeForWatchesGood DEF Background
<1>4. CASE \E g \in Turns : TurnStep(g)
  BY <1>4, DelayGood, OpeningGood, InboxGood, InferenceGood, BoundaryGood, FeedingGood,
     UnwindingGood, CompactingGood, FinishingGood DEF TurnStep
<1>5. CASE ViewReady
  BY <1>5, ViewReadyGood
<1>6. CASE \E j \in Jobs : RunnerStep(j) \/ CancelJob(j)
  <2>1. ASSUME NEW j \in Jobs, CancelJob(j) PROVE Good
    BY <2>1, KeepsGood DEF CancelJob, Keeps
  <2>. QED  BY <1>6, <2>1, ClaimGood, BindFailsGood, AttachGood, BeginGood, DoneGood,
            ContextEndsGood DEF RunnerStep
<1>. QED  BY <1>1, <1>2, <1>3, <1>4, <1>5, <1>6 DEF Next

LEMMA InitRecord == Init => Record(c)
BY DEF Init, Record, Fields, AssignmentFields, TurnFields, NoTurn, NewAssignment

LEMMA InitRoot == Init /\ ~IsChild => Root
BY DEF Init, Root, Single, NoTurn, NewAssignment, Turns

\* The record of streamMu's fields keeps its shape in every controller.
THEOREM Records == Spec => []Record(c)
<1>1. Record(c) /\ [Next]_vars => Record(c)'
  BY NextGood DEF Good
<1>. QED  BY <1>1, InitRecord, PTL DEF Spec

\* WakesAreThrottled: a wake starts a turn only below the limit, counts it, and
\* never follows Esc, whatever was in flight (wakeForWatches, startNextLocked),
\* in every controller.
THEOREM WakesThrottled == Spec => WakesAreThrottled
<1>1. Record(c) /\ [Next]_vars =>
        [\A g \in Turns :
           c.turns[g].pc = "off" /\ c'.turns[g].pc # "off" /\ c'.turns[g].wake
             => c'.streak = c.streak + 1 /\ c.streak < MaxWakeStreak /\ ~c.suppressed]_vars
  BY NextGood DEF Good, WakeCounted
<1>. QED  BY <1>1, Records, PTL DEF Spec, WakesAreThrottled

LEMMA SingleIsOne == Single(c) => OneLoop
<1>. SUFFICES ASSUME Single(c) PROVE OneLoop
  OBVIOUS
<1>. DEFINE L == {g \in Turns : c.turns[g].pc # "off"}
<1>1. L = {} \/ L = {c.gen}
  BY DEF Single
<1>2. Cardinality(L) <= 1
  <2>. HIDE DEF L
  <2>1. Cardinality({}) = 0 /\ Cardinality({c.gen}) = 1
    BY FS_EmptySet, FS_Singleton
  <2>. QED  BY <1>1, <2>1
<1>. QED  BY <1>2 DEF OneLoop

\* OneLoop: whatever the user, the timer, the watches and a session switch do,
\* one turn at a time works with the engine of a session the user drives.
THEOREM OneLoopRuns == ~IsChild => (Spec => []OneLoop)
<1>. SUFFICES ASSUME ~IsChild PROVE Spec => []OneLoop
  OBVIOUS
<1>1. Init => Record(c) /\ Root
  BY InitRecord, InitRoot
<1>2. Record(c) /\ Root /\ [Next]_vars => (Record(c) /\ Root)'
  BY NextGood DEF Good
<1>3. Root => OneLoop
  BY SingleIsOne DEF Root
<1>. QED  BY <1>1, <1>2, <1>3, PTL DEF Spec


(***************************************************************************)
(* A retained sub-agent.  Nothing but prompts asks for its turns, every    *)
(* turn works for the assignment the controller holds, and an assignment   *)
(* is claimed by its runner before a turn of it runs.  So a runner that    *)
(* leaves its assignment when it is over leaves no turn behind.            *)
(***************************************************************************)

\* The turns of a child and the assignment they work for.
Working(s) ==
  /\ Single(s)
  /\ s.events = <<>> /\ s.inbox = 0 /\ ~s.approved
  /\ \A g \in Turns : s.turns[g].pc # "off" => s.turns[g].job = s.asg.job
  /\ s.asg.job \in Jobs
  /\ s.running => ~s.asg.terminal /\ s.asg.turn \in {"running", "interrupting"}

\* Only its runner claims an assignment, and by then nothing has started it.
Lone(s) ==
  /\ Working(s)
  /\ s.running \/ s.switching \/ s.closing => s.asg.terminal \/ s.asg.claimed

\* Where the runner of the assignment stands.
Runners(s) ==
  /\ DOMAIN runner = Jobs
  /\ \A j \in Jobs : DOMAIN runner[j] = {"pc", "prompt"}
  /\ \E k \in Nat : Admitted = 1..k
  /\ \A j \in Jobs : s.asg.job = j =>
       /\ runner[j].pc # "none"
       /\ runner[j].pc = "starting" => ~s.asg.claimed
       /\ runner[j].pc \in {"attaching", "beginning", "waiting"} => s.asg.claimed
       /\ runner[j].pc = "returned" => s.asg.terminal

\* No watch, no background result and no compaction so far.
Unspent ==
  /\ DOMAIN used = {"events", "inbox", "cancels", "compacts", "switches"}
  /\ used.events = 0 /\ used.inbox = 0 /\ used.compacts = 0

Child == Lone(c) /\ Runners(c) /\ Unspent

\* The assignment is the same one, and over if it was.
Onward(s, t) ==
  /\ t.asg.job = s.asg.job /\ t.asg.claimed = s.asg.claimed
  /\ s.asg.terminal => t.asg.terminal

\* Nothing of a child's turns and assignment is touched.
Beside(s, t) ==
  /\ Keeps(s, t)
  /\ t.asg = s.asg /\ t.closing = s.closing
  /\ t.events = s.events /\ t.inbox = s.inbox /\ t.approved = s.approved

LEMMA BesideLone ==
  ASSUME NEW s, NEW t, Beside(s, t), Lone(s)
  PROVE  Lone(t) /\ Onward(s, t)
BY KeepsSingle DEF Beside, Keeps, Working, Lone, Onward

LEMMA BesideTwice ==
  ASSUME NEW s, NEW t, NEW u, Beside(s, t), Beside(t, u)
  PROVE  Beside(s, u)
BY DEF Beside, Keeps

LEMMA RequeueBeside ==
  ASSUME NEW s, Record(s), NEW ps
  PROVE  Beside(s, Requeue(s, ps))
BY RequeueLemma DEF Beside, Record, Fields, Requeue

LEMMA CompleteLone ==
  ASSUME NEW s, Record(s), Working(s), ~s.running
  PROVE  Lone(Complete(s)) /\ Onward(s, Complete(s)) /\ Complete(s).asg.terminal
<1>. DEFINE t == [s EXCEPT !.asg.terminal = TRUE, !.asg.turn = "idle"]
<1>1. /\ t.turns = s.turns /\ t.gen = s.gen /\ t.running = s.running
      /\ t.switching = s.switching /\ t.closing = s.closing
      /\ t.events = s.events /\ t.inbox = s.inbox /\ t.approved = s.approved
      /\ t.asg.job = s.asg.job /\ t.asg.claimed = s.asg.claimed /\ t.asg.terminal = TRUE
  BY DEF Record, Fields, AssignmentFields
<1>2. \/ Complete(s) = t
      \/ s.asg.terminal /\ Complete(s) = s
  BY DEF Complete, OpenAssignment, HasAssignment, Working, Jobs
<1>. HIDE DEF t
<1>. QED  BY <1>1, <1>2 DEF Working, Lone, Onward, Single

LEMMA StopAssignmentLone ==
  ASSUME NEW s, Record(s), Working(s), s.running => s.asg.terminal \/ s.asg.claimed
  PROVE  LET t == StopAssignment(s) IN
         /\ Lone(t) /\ Onward(s, t)
         /\ ~s.running => t.asg.terminal
<1>. DEFINE t == [s EXCEPT !.asg.stop = TRUE, !.queue = <<>>]
            u == [t EXCEPT !.stopped = TRUE, !.asg.turn = "interrupting"]
<1>1. /\ Record(t) /\ t.turns = s.turns /\ t.gen = s.gen /\ t.running = s.running
      /\ t.switching = s.switching /\ t.closing = s.closing
      /\ t.events = s.events /\ t.inbox = s.inbox /\ t.approved = s.approved
      /\ t.asg.job = s.asg.job /\ t.asg.claimed = s.asg.claimed
      /\ t.asg.terminal = s.asg.terminal /\ t.asg.turn = s.asg.turn
  BY DEF Record, Fields, AssignmentFields
<1>2. /\ u.turns = t.turns /\ u.gen = t.gen /\ u.running = t.running
      /\ u.switching = t.switching /\ u.closing = t.closing
      /\ u.events = t.events /\ u.inbox = t.inbox /\ u.approved = t.approved
      /\ u.asg.job = t.asg.job /\ u.asg.claimed = t.asg.claimed
      /\ u.asg.terminal = t.asg.terminal /\ u.asg.turn = "interrupting"
  <2>. HIDE DEF t
  <2>. QED  BY <1>1 DEF Record, Fields, AssignmentFields
<1>3. \/ StopAssignment(s) = s /\ s.asg.terminal
      \/ StopAssignment(s) = u /\ s.running
      \/ StopAssignment(s) = Complete(t) /\ ~s.running
  BY DEF StopAssignment, OpenAssignment, HasAssignment, Working, Jobs
<1>. HIDE DEF t, u
<1>4. Working(t)
  BY <1>1 DEF Working, Single
<1>5. s.running => Lone(u)
  BY <1>1, <1>2, <1>4 DEF Working, Lone, Single
<1>6. ~s.running => Lone(Complete(t)) /\ Onward(t, Complete(t)) /\ Complete(t).asg.terminal
  BY <1>1, <1>4, CompleteLone
<1>. QED  BY <1>1, <1>2, <1>3, <1>5, <1>6 DEF Onward, Working, Lone

\* A turn of an assignment that is claimed, or no turn.
LEMMA StartPromptLone ==
  ASSUME NEW s, Record(s), Lone(s), ~s.running, s.asg.terminal \/ s.asg.claimed,
         NEW p, NEW owed, NEW wake
  PROVE  LET t == StartPrompt(s, p, owed, wake) IN Lone(t) /\ Onward(s, t)
<1>. DEFINE d == DrainWatch(s)
            g == CHOOSE g \in Turns \ {s.gen} : s.turns[g].pc = "off"
            new == [NoTurn EXCEPT !.pc = "delay", !.prompt = p, !.owed = owed, !.wake = wake,
                                  !.rides = ToSet(s.events), !.job = s.asg.job]
            u == [d EXCEPT !.running = TRUE, !.stopped = FALSE, !.blocked = FALSE,
                          !.resume = FALSE, !.gen = g,
                          !.turns[g] = new,
                          !.asg.turn = IF HasAssignment(s) THEN "running" ELSE @]
<1>1. HasAssignment(s)
  BY DEF HasAssignment, Working, Lone, Jobs
<1>2. Record(d) /\ Beside(s, d)
  BY DrainLemma DEF Beside, Keeps, Working, Lone, Record, Fields, DrainWatch
<1>3. new.job = s.asg.job
  BY DEF NoTurn
<1>4. /\ u.turns = [s.turns EXCEPT ![g] = new] /\ u.gen = g /\ u.running = TRUE
      /\ u.switching = s.switching /\ u.closing = s.closing
      /\ u.events = s.events /\ u.inbox = s.inbox /\ u.approved = s.approved
      /\ u.asg.job = s.asg.job /\ u.asg.claimed = s.asg.claimed
      /\ u.asg.terminal = s.asg.terminal /\ u.asg.turn = "running"
  <2>. HIDE DEF g, new, d
  <2>. QED  BY <1>1, <1>2 DEF Beside, Keeps, Record, Fields, AssignmentFields
<1>5. ASSUME ~s.asg.terminal, ~s.switching
      PROVE  Lone(u) /\ Onward(s, u)
  <2>1. \A h \in Turns : s.turns[h].pc = "off"
    BY DEF Working, Lone, Single
  <2>2. g \in Turns
    BY <2>1 DEF Turns
  <2>. HIDE DEF g, new, u
  <2>. QED  BY <1>3, <1>4, <1>5, <2>1, <2>2 DEF Working, Lone, Onward, Single, Record
<1>6. \/ StartPrompt(s, p, owed, wake) \in {Requeue(s, Owed(p, owed)), Requeue(d, Owed(p, owed))}
      \/ StartPrompt(s, p, owed, wake) = u /\ ~s.switching /\ ~s.asg.terminal
  BY <1>1 DEF StartPrompt
<1>7. Beside(s, Requeue(s, Owed(p, owed))) /\ Beside(s, Requeue(d, Owed(p, owed)))
  <2>. HIDE DEF d
  <2>. QED  BY <1>2, RequeueBeside, BesideTwice
<1>. HIDE DEF d, u
<1>. QED  BY <1>5, <1>6, <1>7, BesideLone

LEMMA MaybeResumeLone ==
  ASSUME NEW s, Record(s), Lone(s)
  PROVE  LET t == MaybeResume(s) IN Lone(t) /\ Onward(s, t) /\ Record(t) /\ Beside(s, t)
<1>. DEFINE r == [s EXCEPT !.resume = s.resume /\ s.work]
<1>1. Beside(s, s) /\ Beside(s, r)
  BY DEF Beside, Keeps, Record, Fields, AssignmentFields
<1>2. MaybeResume(s) \in {s, r}
  BY DEF MaybeResume, Working, Lone
<1>. QED  BY <1>1, <1>2, BesideLone DEF Beside, Keeps

LEMMA StartNextLone ==
  ASSUME NEW s, Record(s), Lone(s), ~s.running, s.asg.terminal \/ s.asg.claimed, NEW stopped
  PROVE  LET t == StartNext(s, stopped) IN Lone(t) /\ Onward(s, t)
<1>. DEFINE q == [s EXCEPT !.queue = Tail(@)]
            m == IF ~stopped \/ ~HasAssignment(s) THEN MaybeResume(s) ELSE s
<1>1. Record(q) /\ Beside(s, q)
  BY DEF Beside, Keeps, Record, Fields, AssignmentFields
<1>2. Lone(m) /\ Onward(s, m)
  BY MaybeResumeLone DEF Onward
<1>3. ~Waiting(m)
  BY <1>2 DEF Waiting, Working, Lone
<1>4. StartNext(s, stopped) \in {s, m, StartPrompt(q, Head(s.queue), TRUE, FALSE)}
  BY <1>3 DEF StartNext
<1>. HIDE DEF q, m
<1>5. Lone(q) /\ Onward(s, q) /\ ~q.running /\ (q.asg.terminal \/ q.asg.claimed)
  BY <1>1, BesideLone DEF Beside, Keeps
<1>6. LET t == StartPrompt(q, Head(s.queue), TRUE, FALSE) IN Lone(t) /\ Onward(q, t)
  BY <1>1, <1>5, StartPromptLone
<1>. QED  BY <1>2, <1>4, <1>5, <1>6 DEF Onward


(***************************************************************************)
(* The steps of a child.                                                   *)
(***************************************************************************)

\* The assignment and its runner stay what they are to each other.
LEMMA ChildGoesOn ==
  ASSUME Child, Lone(c'), Onward(c, c'), UNCHANGED runner, Unspent'
  PROVE  Child'
BY DEF Child, Runners, Onward, Lone, Working, Admitted

LEMMA ChildBeside ==
  ASSUME Child, Beside(c, c'), UNCHANGED <<runner, used>>
  PROVE  Child'
BY BesideLone, ChildGoesOn DEF Child, Unspent

\* The runner of one assignment moves on.
LEMMA RunnerGoesOn ==
  ASSUME Child, NEW j \in Jobs, runner[j].pc # "none", NEW pc, pc # "none",
         runner' = [runner EXCEPT ![j].pc = pc], UNCHANGED used,
         Lone(c'), c'.asg.job = j \/ Onward(c, c'),
         c'.asg.job = j =>
           /\ pc = "starting" => ~c'.asg.claimed
           /\ pc \in {"attaching", "beginning", "waiting"} => c'.asg.claimed
           /\ pc = "returned" => c'.asg.terminal
  PROVE  Child'
<1>1. /\ DOMAIN runner' = Jobs
      /\ \A i \in Jobs : DOMAIN runner'[i] = {"pc", "prompt"}
      /\ runner'[j].pc = pc
      /\ \A i \in Jobs \ {j} : runner'[i] = runner[i]
  BY DEF Child, Runners
<1>2. Admitted' = Admitted
  BY <1>1 DEF Admitted
<1>3. Runners(c)'
  BY <1>1, <1>2 DEF Child, Runners, Onward
<1>. QED  BY <1>3 DEF Child, Unspent

\* A turn goes on, and works for whom it worked.
LEMMA ChildTurn ==
  ASSUME Record(c), Child, NEW g \in Turns, c.turns[g].pc # "off",
         NEW s, Beside(c, s), NEW t, t.job = c.turns[g].job,
         c' = [s EXCEPT !.turns[g] = t],
         UNCHANGED <<runner, used>>
  PROVE  Child'
<1>1. Lone(s) /\ Onward(c, s) /\ Record(s) /\ s.turns = c.turns
  BY BesideLone DEF Child, Beside, Keeps
<1>2. /\ c'.turns = [s.turns EXCEPT ![g] = t]
      /\ c'.gen = s.gen /\ c'.running = s.running /\ c'.switching = s.switching
      /\ c'.closing = s.closing /\ c'.events = s.events /\ c'.inbox = s.inbox
      /\ c'.approved = s.approved /\ c'.asg = s.asg
  BY <1>1 DEF Record, Fields
<1>3. g = s.gen /\ s.running /\ c.turns[g].job = s.asg.job
  BY <1>1 DEF Child, Lone, Working, Single
<1>4. Lone(c') /\ Onward(c, c')
  BY <1>1, <1>2, <1>3 DEF Lone, Working, Single, Onward, Record
<1>. QED  BY <1>4, ChildGoesOn DEF Child, Unspent

\* The manager admits the next assignment, or the prompt waits again.
LEMMA ChildFollowUp ==
  ASSUME Child, NEW s, Record(s), Lone(s), Onward(c, s),
         s.asg.terminal, ~s.switching, ~s.closing, NEW p, FollowUp(s, p), UNCHANGED used
  PROVE  Child'
<1>1. CASE c' = Requeue(s, <<p>>) /\ UNCHANGED runner
  <2>1. Lone(c') /\ Onward(c, c')
    BY <1>1, RequeueBeside, BesideLone DEF Onward
  <2>. QED  BY <1>1, <2>1, ChildGoesOn DEF Child, Unspent
<1>2. CASE /\ c' = [s EXCEPT !.asg = NewAssignment(NextJob)]
           /\ runner' = [runner EXCEPT ![NextJob] = [pc |-> "starting", prompt |-> p]]
  <2>1. NextJob \in Jobs
    BY DEF FollowUp
  <2>2. PICK k \in Nat : Admitted = 1..k
    BY DEF Child, Runners
  <2>3. NextJob = k + 1
    <3>1. Cardinality(1..k) = k
      BY FS_Interval
    <3>. QED  BY <2>2, <3>1 DEF NextJob
  <2>4. /\ c'.turns = s.turns /\ c'.gen = s.gen /\ c'.running = s.running
        /\ c'.switching = s.switching /\ c'.closing = s.closing /\ c'.events = s.events
        /\ c'.inbox = s.inbox /\ c'.approved = s.approved
        /\ c'.asg.job = NextJob /\ c'.asg.claimed = FALSE /\ c'.asg.terminal = FALSE
    BY <1>2 DEF Record, Fields, NewAssignment
  <2>5. ~s.running /\ \A g \in Turns : s.turns[g].pc = "off"
    BY DEF Lone, Working, Single
  <2>6. Lone(c')
    BY <2>1, <2>4, <2>5 DEF Lone, Working, Single
  <2>7. /\ DOMAIN runner' = Jobs
        /\ \A i \in Jobs : DOMAIN runner'[i] = {"pc", "prompt"}
        /\ runner'[NextJob].pc = "starting"
        /\ \A i \in Jobs \ {NextJob} : runner'[i] = runner[i]
    BY <1>2, <2>1 DEF Child, Runners
  <2>8. Admitted' = 1..(k + 1)
    <3>1. Admitted' = Admitted \cup {NextJob}
      BY <2>1, <2>7 DEF Admitted
    <3>. QED  BY <2>2, <2>3, <3>1
  <2>9. Runners(c)'
    BY <2>2, <2>4, <2>7, <2>8 DEF Runners
  <2>. QED  BY <2>6, <2>9 DEF Child, Unspent
<1>. QED  BY <1>1, <1>2 DEF FollowUp


LEMMA ChildSubmit ==
  ASSUME Record(c), Child, IsChild, NEW p \in Prompts, Submit(p)
  PROVE  Child'
<1>. DEFINE s == [c EXCEPT !.streak = 0, !.suppressed = FALSE]
<1>1. Record(s) /\ Beside(c, c) /\ s.asg = c.asg /\ s.switching = c.switching
      /\ s.closing = c.closing /\ s.running = c.running /\ s.turns = c.turns
      /\ s.gen = c.gen /\ s.events = c.events /\ s.inbox = c.inbox /\ s.approved = c.approved
  BY DEF Record, Fields, AssignmentFields, Beside, Keeps
<1>2. Lone(s) /\ Onward(c, s) /\ UNCHANGED used /\ ~c.closing
  <2>. HIDE DEF s
  <2>. QED  BY <1>1 DEF Child, Working, Lone, Single, Onward, Submit
<1>3. CASE s.asg.terminal /\ ~s.switching /\ FollowUp(s, p)
  <2>. HIDE DEF s
  <2>. QED  BY <1>1, <1>2, <1>3, ChildFollowUp
<1>4. CASE c' = [s EXCEPT !.queue = Append(@, p)] /\ UNCHANGED runner
  <2>1. Beside(s, c')
    <3>. HIDE DEF s
    <3>. QED  BY <1>1, <1>4 DEF Beside, Keeps, Record, Fields, AssignmentFields
  <2>. HIDE DEF s
  <2>. QED  BY <1>2, <1>4, <2>1, BesideLone, ChildGoesOn DEF Child, Unspent, Onward
<1>5. CASE /\ c' = StartPrompt(s, p, FALSE, FALSE) /\ ~s.running /\ UNCHANGED runner
           /\ s.asg.terminal \/ s.asg.claimed
  <2>. HIDE DEF s
  <2>1. Lone(c') /\ Onward(s, c')
    BY <1>1, <1>2, <1>5, StartPromptLone
  <2>. QED  BY <1>2, <1>5, <2>1, ChildGoesOn DEF Child, Unspent, Onward
<1>6. OpenAssignment(s) \/ s.asg.terminal
  BY <1>2 DEF OpenAssignment, HasAssignment, Lone, Working, Jobs
<1>. QED  BY <1>3, <1>4, <1>5, <1>6 DEF Submit

LEMMA ChildRecall == ASSUME Record(c), Child, Recall PROVE Child'
<1>1. Beside(c, c')
  BY DEF Recall, Beside, Keeps, Record, Fields, AssignmentFields
<1>. QED  BY <1>1, ChildBeside DEF Recall

LEMMA ChildCancel == ASSUME Record(c), Child, Cancel PROVE Child'
<1>1. PICK turn : /\ c' = [c EXCEPT !.suppressed = TRUE, !.wake = "off",
                                    !.stopped = @ \/ c.running \/ c.switching, !.asg.turn = turn]
                  /\ c.running => turn \in {c.asg.turn, "interrupting"}
  BY DEF Cancel
<1>2. /\ c'.turns = c.turns /\ c'.gen = c.gen /\ c'.running = c.running
      /\ c'.switching = c.switching /\ c'.closing = c.closing /\ c'.events = c.events
      /\ c'.inbox = c.inbox /\ c'.approved = c.approved
      /\ c'.asg.job = c.asg.job /\ c'.asg.claimed = c.asg.claimed
      /\ c'.asg.terminal = c.asg.terminal
      /\ c.running => c'.asg.turn \in {c.asg.turn, "interrupting"}
  BY <1>1 DEF Record, Fields, AssignmentFields
<1>3. Lone(c') /\ Onward(c, c')
  BY <1>2 DEF Child, Lone, Working, Single, Onward
<1>4. UNCHANGED runner /\ Unspent'
  BY DEF Cancel, Child, Unspent
<1>. QED  BY <1>3, <1>4, ChildGoesOn

LEMMA ChildBeginSwitch == ASSUME Record(c), Child, BeginSwitch PROVE Child'
<1>1. /\ c'.turns = c.turns /\ c'.gen = c.gen /\ c'.running = c.running
      /\ c'.closing = c.closing /\ c'.events = c.events
      /\ c'.inbox = c.inbox /\ c'.approved = c.approved /\ c'.asg = c.asg
  BY DEF BeginSwitch, Record, Fields
<1>2. ~c.running /\ c.asg.terminal
  BY DEF BeginSwitch, OpenAssignment, HasAssignment, Child, Lone, Working, Jobs
<1>3. Lone(c') /\ Onward(c, c')
  BY <1>1, <1>2 DEF Child, Lone, Working, Single, Onward
<1>4. UNCHANGED runner /\ Unspent'
  BY DEF BeginSwitch, Child, Unspent
<1>. QED  BY <1>3, <1>4, ChildGoesOn

LEMMA ChildEndSwitch == ASSUME Record(c), Child, ~HasPlan, EndSwitch PROVE Child'
<1>. DEFINE b == [c EXCEPT !.switching = FALSE, !.stopped = FALSE]
<1>1. PICK s \in Conversations(b) :
        \/ /\ NeedsFollowUp(s)
           /\ FollowUp([s EXCEPT !.queue = Tail(@)], Head(s.queue))
        \/ c' = StartNext(s, c.stopped) /\ UNCHANGED runner
  BY DEF EndSwitch
<1>2. /\ Record(b) /\ b.turns = c.turns /\ b.gen = c.gen /\ b.running = c.running
      /\ ~b.switching /\ b.asg = c.asg /\ b.closing = c.closing
      /\ b.events = c.events /\ b.inbox = c.inbox /\ b.approved = c.approved
  BY DEF Record, Fields, AssignmentFields
<1>3. /\ Record(s) /\ s.turns = c.turns /\ s.gen = c.gen /\ s.running = c.running
      /\ ~s.switching /\ s.asg = c.asg /\ s.closing = c.closing
      /\ s.events = c.events /\ s.inbox = 0 /\ ~s.approved
  <2>. HIDE DEF b
  <2>1. s = b \/ \E a \in Plans, w \in Plans : s = Other(b, a, w)
    BY DEF Conversations
  <2>2. ASSUME NEW a \in Plans, NEW w, s = Other(b, a, w)
        PROVE  /\ DOMAIN s = Fields /\ s.turns = b.turns /\ s.gen = b.gen
               /\ s.running = b.running /\ s.switching = b.switching /\ s.asg = b.asg
               /\ s.closing = b.closing /\ s.events = b.events
               /\ s.streak = b.streak /\ s.inbox = 0 /\ ~s.approved
    <3>1. ~a
      BY DEF Plans
    <3>. QED  BY <1>2, <2>2, <3>1 DEF Record, Fields, Other
  <2>. QED  BY <1>2, <2>1, <2>2 DEF Record, Child, Lone, Working
<1>4. Lone(s) /\ Onward(c, s) /\ ~s.running /\ (s.asg.terminal \/ s.asg.claimed)
  BY <1>3 DEF Child, Lone, Working, Single, Onward, EndSwitch
<1>5. UNCHANGED used
  BY DEF EndSwitch
<1>6. CASE /\ NeedsFollowUp(s)
           /\ FollowUp([s EXCEPT !.queue = Tail(@)], Head(s.queue))
  <2>. DEFINE q == [s EXCEPT !.queue = Tail(@)]
  <2>1. Beside(s, q) /\ Record(q)
    BY <1>3 DEF Beside, Keeps, Record, Fields, AssignmentFields
  <2>2. s.asg.terminal /\ ~s.switching /\ ~s.closing
    BY <1>6 DEF NeedsFollowUp, Admissible
  <2>3. FollowUp(q, Head(s.queue))
    BY <1>6
  <2>. HIDE DEF q
  <2>4. Lone(q) /\ Onward(s, q)
    BY <1>4, <2>1, BesideLone
  <2>5. q.asg.terminal /\ ~q.switching /\ ~q.closing /\ Onward(c, q)
    BY <1>4, <2>1, <2>2, <2>4 DEF Beside, Keeps, Onward
  <2>. QED  BY <1>5, <2>1, <2>3, <2>4, <2>5, ChildFollowUp
<1>7. CASE c' = StartNext(s, c.stopped) /\ UNCHANGED runner
  <2>1. Lone(c') /\ Onward(s, c')
    BY <1>3, <1>4, <1>7, StartNextLone
  <2>. QED  BY <1>4, <1>5, <1>7, <2>1, ChildGoesOn DEF Child, Unspent, Onward
<1>. QED  BY <1>1, <1>6, <1>7

LEMMA ChildLeave == ASSUME Record(c), Child, Leave PROVE Child'
BY StopAssignmentLone, ChildGoesOn DEF Leave, Child, Lone, Unspent

LEMMA ChildShutdown == ASSUME Record(c), Child, Shutdown PROVE Child'
<1>. DEFINE s == [c EXCEPT !.closing = TRUE]
            r == StopAssignment(s)
            q == [r EXCEPT !.queue = <<>>, !.wake = "off"]
<1>1. /\ Record(s) /\ s.turns = c.turns /\ s.gen = c.gen /\ s.running = c.running
      /\ s.switching = c.switching /\ s.asg = c.asg
      /\ s.events = c.events /\ s.inbox = c.inbox /\ s.approved = c.approved
  BY DEF Record, Fields, AssignmentFields
<1>2. Working(s) /\ Onward(c, s) /\ (s.running => s.asg.terminal \/ s.asg.claimed)
  <2>. HIDE DEF s
  <2>. QED  BY <1>1 DEF Child, Lone, Working, Single, Onward
<1>3. Lone(r) /\ Onward(s, r) /\ Keeps(s, r)
  <2>. HIDE DEF s
  <2>. QED  BY <1>1, <1>2, StopAssignmentLone, StopAssignmentLemma
<1>4. c' = [q EXCEPT !.stopped = @ \/ q.running]
  BY DEF Shutdown
<1>5. Beside(r, q)
  <2>. HIDE DEF r
  <2>. QED  BY <1>3 DEF Beside, Keeps, Record, Fields, AssignmentFields
<1>6. Beside(q, c')
  <2>. HIDE DEF q
  <2>. QED  BY <1>4, <1>5 DEF Beside, Keeps, Record, Fields, AssignmentFields
<1>. HIDE DEF s, r, q
<1>7. Lone(c') /\ Onward(c, c')
  BY <1>2, <1>3, <1>5, <1>6, BesideLone DEF Onward
<1>. QED  BY <1>7, ChildGoesOn DEF Shutdown, Child, Unspent

LEMMA ChildQuiet ==
  ASSUME Record(c), Child, Release \/ ChangeModel \/ TimerFires \/ ViewReady
  PROVE  Child'
<1>1. ASSUME NEW v, c' \in {[c EXCEPT !.model = v], [c EXCEPT !.wake = v], [c EXCEPT !.view = v]}
      PROVE  Beside(c, c')
  BY <1>1 DEF Beside, Keeps, Record, Fields, AssignmentFields
<1>2. UNCHANGED c => Beside(c, c')
  BY DEF Beside, Keeps
<1>3. Beside(c, c') /\ UNCHANGED <<runner, used>>
  BY <1>1, <1>2 DEF Release, ChangeModel, TimerFires, ViewReady, runnerRest
<1>. QED  BY <1>3, ChildBeside

\* Events and results never reach a child: a callback finds nothing to do.
LEMMA ChildBackground ==
  ASSUME Record(c), Child, MaxEvents = 0, MaxInbox = 0, WatchEvent \/ Result \/ WakeForWatches
  PROVE  Child'
<1>1. WakeForWatches
  BY DEF WatchEvent, Result, Child, Unspent
<1>. DEFINE s == [c EXCEPT !.wake = "off"]
<1>2. Beside(c, s)
  BY DEF Beside, Keeps, Record, Fields, AssignmentFields
<1>3. c' = s
  <2>1. ~Waiting(s)
    BY DEF Waiting, Child, Lone, Working, Record, Fields
  <2>. HIDE DEF s
  <2>. QED  BY <1>1, <2>1 DEF WakeForWatches, s
<1>. HIDE DEF s
<1>. QED  BY <1>1, <1>2, <1>3, ChildBeside DEF WakeForWatches


LEMMA ChildFails ==
  ASSUME Record(c), Child, NEW g \in Turns, c.turns[g].pc # "off", Fails(g)
  PROVE  Child'
<1>. DEFINE t == [c.turns[g] EXCEPT !.pc = "unwinding", !.prompt = None, !.rides = {},
                                    !.inject = <<>>]
            u == [c.turns[g] EXCEPT !.pc = "unwinding"]
<1>1. t.job = c.turns[g].job /\ u.job = c.turns[g].job /\ Beside(c, c)
  BY DEF Record, TurnFields, Beside, Keeps
<1>2. /\ c' \in {[c EXCEPT !.turns[g] = t], [c EXCEPT !.turns[g] = u]}
      /\ UNCHANGED <<runner, used>>
  BY DEF Fails
<1>. HIDE DEF t, u
<1>. QED  BY <1>1, <1>2, ChildTurn

\* What a turn does before its last step.
LEMMA ChildWorks ==
  ASSUME Record(c), Child, ~HasPlan, NEW g \in Turns,
         \/ Delay(g) \/ Opening(g) \/ Inbox(g) \/ Inference(g) \/ Boundary(g)
         \/ Feeding(g) \/ Unwinding(g) \/ Compacting(g)
  PROVE  Child'
<1>. DEFINE T == c.turns[g]
<1>1. /\ T.pc # "off" /\ DOMAIN T = TurnFields /\ Beside(c, c)
      /\ \A pc : [T EXCEPT !.pc = pc].job = T.job
  BY DEF Delay, Opening, Inbox, Inference, Boundary, Feeding, Unwinding, Compacting,
         Record, TurnFields, Beside, Keeps
<1>2. CASE \E pc : Goes(g, pc) /\ UNCHANGED <<runner, used>>
  <2>1. PICK pc : c' = [c EXCEPT !.turns[g] = [T EXCEPT !.pc = pc]] /\ UNCHANGED <<runner, used>>
    BY <1>2 DEF Goes
  <2>. DEFINE t == [T EXCEPT !.pc = pc]
  <2>2. t.job = T.job /\ c' = [c EXCEPT !.turns[g] = t]
    BY <1>1, <2>1
  <2>. HIDE DEF t
  <2>. QED  BY <1>1, <2>1, <2>2, ChildTurn
<1>3. CASE Fails(g)
  BY <1>1, <1>3, ChildFails
<1>4. CASE Opening(g)
  <2>. DEFINE t == [T EXCEPT !.pc = "inbox", !.prompt = None, !.rides = {}]
  <2>1. t.job = T.job
    BY <1>1 DEF TurnFields
  <2>2. CASE c' = [c EXCEPT !.turns[g] = t] /\ UNCHANGED <<runner, used>>
    <3>. HIDE DEF t
    <3>. QED  BY <1>1, <2>1, <2>2, ChildTurn
  <2>. QED  BY <1>3, <1>4, <2>2 DEF Opening, turnRest
<1>5. CASE Inbox(g)
  <2>. DEFINE s == [c EXCEPT !.inbox = 0]
              t == [T EXCEPT !.pc = "inference"]
  <2>1. c.inbox = 0
    BY DEF Child, Lone, Working
  <2>2. Beside(c, s) /\ t.job = T.job
    BY <1>1, <2>1 DEF Beside, Keeps, Record, Fields, AssignmentFields, TurnFields
  <2>3. CASE /\ c' = [c EXCEPT !.turns[g].pc = "inference", !.inbox = 0]
             /\ UNCHANGED <<runner, used>>
    <3>1. c' = [s EXCEPT !.turns[g] = t]
      BY <2>3 DEF Record, Fields
    <3>2. UNCHANGED <<runner, used>>
      BY <2>3
    <3>. HIDE DEF s, t
    <3>. QED  BY <1>1, <2>2, <3>1, <3>2, ChildTurn
  <2>. QED  BY <1>2, <1>5, <2>1, <2>3 DEF Inbox, turnRest
<1>6. CASE Boundary(g)
  <2>1. CASE c' = [c EXCEPT !.turns[g].pc = "inbox"] /\ UNCHANGED <<runner, used>>
    BY <1>2, <2>1 DEF Goes
  <2>. DEFINE d == DrainWatch(c)
              s == [d EXCEPT !.queue = <<>>]
              t == [T EXCEPT !.pc = "feeding", !.inject = c.queue, !.rides = ToSet(c.events)]
  <2>2. CASE /\ c' = [d EXCEPT !.queue = <<>>,
                        !.turns[g] = [@ EXCEPT !.pc = "feeding", !.inject = c.queue,
                                               !.rides = ToSet(c.events)]]
             /\ UNCHANGED <<runner, used>>
    <3>1. Beside(c, d)
      BY DrainLemma DEF Beside, Keeps, Child, Working, Lone, Record, Fields, DrainWatch
    <3>. HIDE DEF d
    <3>2. Beside(d, s)
      BY <3>1 DEF Beside, Keeps, Record, Fields, AssignmentFields
    <3>3. c' = [s EXCEPT !.turns[g] = t]
      BY <2>2, <3>1 DEF Beside, Keeps, Record, Fields
    <3>4. t.job = T.job
      BY <1>1 DEF TurnFields
    <3>5. UNCHANGED <<runner, used>>
      BY <2>2
    <3>. HIDE DEF s, t
    <3>6. Beside(c, s)
      BY <3>1, <3>2, BesideTwice
    <3>. QED  BY <1>1, <3>3, <3>4, <3>5, <3>6, ChildTurn
  <2>. QED  BY <1>6, <2>1, <2>2 DEF Boundary, turnRest
<1>7. CASE Feeding(g)
  <2>. DEFINE t == [T EXCEPT !.inject = Tail(@)]
              u == [T EXCEPT !.pc = "inbox", !.rides = {}]
  <2>1. t.job = T.job /\ u.job = T.job
    BY <1>1 DEF TurnFields
  <2>2. CASE /\ c' \in {[c EXCEPT !.turns[g] = t], [c EXCEPT !.turns[g] = u]}
             /\ UNCHANGED <<runner, used>>
    <3>. HIDE DEF t, u
    <3>. QED  BY <1>1, <2>1, <2>2, ChildTurn
  <2>. QED  BY <1>3, <1>7, <2>2 DEF Feeding, turnRest
<1>8. CASE Unwinding(g)
  <2>. DEFINE s == Requeue(c, Held(T))
              t == [NoTurn EXCEPT !.pc = "finishing", !.job = T.job, !.wake = T.wake]
  <2>1. Beside(c, s) /\ t.job = T.job
    BY RequeueBeside DEF NoTurn
  <2>2. c' = [s EXCEPT !.turns[g] = t] /\ UNCHANGED <<runner, used>>
    BY <1>8 DEF Unwinding, turnRest
  <2>. HIDE DEF s, t
  <2>. QED  BY <1>1, <2>1, <2>2, ChildTurn
<1>9. CASE Delay(g) \/ Inference(g) \/ Compacting(g)
  BY <1>2, <1>3, <1>9 DEF Delay, Inference, Compacting, turnRest
<1>. QED  BY <1>4, <1>5, <1>6, <1>7, <1>8, <1>9

\* The turn ends: the pipeline is free, and the assignment is not over.
LEMMA ChildFinishing ==
  ASSUME Record(c), Child, NEW g \in Turns, Finishing(g)
  PROVE  Child'
<1>. DEFINE s == [c EXCEPT !.turns[g] = NoTurn]
            t == [s EXCEPT !.running = FALSE, !.stopped = FALSE]
            n == StartNext(t, c.stopped)
            i == [n EXCEPT !.asg.turn = "interrupted"]
<1>1. c.turns[g].pc # "off" /\ UNCHANGED used
  BY DEF Finishing
<1>2. /\ Record(s) /\ s.turns = [c.turns EXCEPT ![g] = NoTurn] /\ s.gen = c.gen
      /\ s.asg = c.asg /\ s.switching = c.switching /\ s.closing = c.closing
      /\ s.events = c.events /\ s.inbox = c.inbox /\ s.approved = c.approved
  BY NoTurnLemma DEF Record, Fields, AssignmentFields
<1>3. /\ Record(t) /\ t.turns = s.turns /\ t.gen = s.gen /\ t.asg = s.asg
      /\ t.switching = s.switching /\ t.closing = s.closing /\ ~t.running
      /\ t.events = s.events /\ t.inbox = s.inbox /\ t.approved = s.approved
  <2>. HIDE DEF s
  <2>. QED  BY <1>2 DEF Record, Fields, AssignmentFields
<1>4. g = c.gen /\ ~c.asg.terminal /\ c.asg.claimed
  BY <1>1 DEF Child, Lone, Working, Single
<1>5. Lone(t) /\ Onward(c, t)
  <2>. HIDE DEF s, t
  <2>. QED  BY <1>2, <1>3, <1>4, NoTurnLemma DEF Child, Lone, Working, Single, Onward, Record
<1>6. Lone(n) /\ Onward(t, n) /\ Record(n)
  <2>. HIDE DEF t
  <2>. QED  BY <1>2, <1>3, <1>4, <1>5, StartNextLone, StartNextLemma
<1>7. ~NeedsFollowUp(t)
  <2>. HIDE DEF t
  <2>. QED  BY <1>2, <1>3, <1>4 DEF NeedsFollowUp
<1>8. /\ \/ c' = n
         \/ c' \in {i, Complete(n)} /\ ~Started(t, c.stopped)
      /\ UNCHANGED runner
  <2>. HIDE DEF s, t, n, i
  <2>. QED  BY <1>4, <1>7 DEF Finishing, s, t, n, i
<1>9. ASSUME ~Started(t, c.stopped) PROVE ~n.running
  <2>. HIDE DEF t
  <2>. QED  BY <1>3, <1>9 DEF Started, StartNext
<1>. HIDE DEF s, t
<1>10. ASSUME ~n.running
       PROVE  /\ Lone(i) /\ Onward(n, i)
              /\ Lone(Complete(n)) /\ Onward(n, Complete(n))
  <2>. HIDE DEF n
  <2>1. /\ i.turns = n.turns /\ i.gen = n.gen /\ i.running = n.running
        /\ i.switching = n.switching /\ i.closing = n.closing /\ i.events = n.events
        /\ i.inbox = n.inbox /\ i.approved = n.approved
        /\ i.asg.job = n.asg.job /\ i.asg.claimed = n.asg.claimed
        /\ i.asg.terminal = n.asg.terminal
    BY <1>6 DEF Record, Fields, AssignmentFields
  <2>. HIDE DEF i
  <2>2. Lone(i) /\ Onward(n, i)
    BY <1>6, <1>10, <2>1 DEF Lone, Working, Single, Onward
  <2>. QED  BY <1>6, <1>10, <2>2, CompleteLone DEF Lone
<1>. HIDE DEF n, i
<1>11. Lone(c') /\ Onward(c, c')
  BY <1>5, <1>6, <1>8, <1>9, <1>10 DEF Onward
<1>. QED  BY <1>1, <1>8, <1>11, ChildGoesOn DEF Child, Unspent


(***************************************************************************)
(* A child's runners.                                                      *)
(***************************************************************************)

LEMMA ChildClaim ==
  ASSUME Record(c), Child, NEW j \in Jobs, Claim(j)
  PROVE  Child'
<1>. DEFINE u == [c EXCEPT !.asg.claimed = TRUE]
            v == [c EXCEPT !.asg = [NewAssignment(j) EXCEPT !.claimed = TRUE]]
<1>1. runner[j].pc = "starting" /\ UNCHANGED used
  BY DEF Claim, runnerRest
<1>2. c.asg.job = j => ~c.asg.claimed
  BY <1>1 DEF Child, Runners
<1>3. /\ u.turns = c.turns /\ u.gen = c.gen /\ u.running = c.running
      /\ u.switching = c.switching /\ u.closing = c.closing /\ u.events = c.events
      /\ u.inbox = c.inbox /\ u.approved = c.approved
      /\ u.asg.job = c.asg.job /\ u.asg.claimed = TRUE
      /\ u.asg.terminal = c.asg.terminal /\ u.asg.turn = c.asg.turn
  BY DEF Record, Fields, AssignmentFields
<1>4. /\ v.turns = c.turns /\ v.gen = c.gen /\ v.running = c.running
      /\ v.switching = c.switching /\ v.closing = c.closing /\ v.events = c.events
      /\ v.inbox = c.inbox /\ v.approved = c.approved
      /\ v.asg.job = j /\ v.asg.claimed = TRUE /\ v.asg.terminal = FALSE
  BY DEF Record, Fields, AssignmentFields, NewAssignment
<1>5. Lone(u)
  <2>. HIDE DEF u
  <2>. QED  BY <1>3 DEF Child, Lone, Working, Single
<1>6. ~c.running => Lone(v)
  <2>. HIDE DEF v
  <2>. QED  BY <1>4 DEF Child, Lone, Working, Single
<1>7. CASE c' = u /\ c.asg.job = j /\ c.asg.terminal /\ Returns(j)
  <2>. HIDE DEF u
  <2>. QED  BY <1>1, <1>3, <1>5, <1>7, RunnerGoesOn DEF Returns
<1>8. CASE /\ UNCHANGED c /\ Returns(j)
           /\ c.asg.job = j => c.asg.terminal \/ c.closing \/ c.running
  <2>1. c.asg.job = j => c.asg.terminal
    BY <1>2, <1>8 DEF Child, Lone
  <2>2. Lone(c') /\ Onward(c, c')
    BY <1>8 DEF Child, Onward
  <2>. QED  BY <1>1, <1>8, <2>1, <2>2, RunnerGoesOn DEF Returns
<1>9. CASE /\ \/ c' = u /\ c.asg.job = j
              \/ c' = v /\ ~c.running
           /\ \E pc \in {"attaching", "beginning"} : runner' = [runner EXCEPT ![j].pc = pc]
  <2>1. Lone(c') /\ c'.asg.job = j /\ c'.asg.claimed
    <3>. HIDE DEF u, v
    <3>. QED  BY <1>3, <1>4, <1>5, <1>6, <1>9
  <2>. HIDE DEF u, v
  <2>. QED  BY <1>1, <1>9, <2>1, RunnerGoesOn
<1>. HIDE DEF u, v
<1>. QED  BY <1>2, <1>7, <1>8, <1>9 DEF Claim, u, v

LEMMA ChildBindFails ==
  ASSUME Record(c), Child, NEW j \in Jobs, BindFails(j)
  PROVE  Child'
<1>. DEFINE s == StopAssignment(c)
<1>1. runner[j].pc = "starting" /\ UNCHANGED used /\ Returns(j)
  BY DEF BindFails, runnerRest
<1>2. CASE Over(c, j) /\ UNCHANGED c
  <2>1. Lone(c') /\ Onward(c, c') /\ (c'.asg.job = j => c'.asg.terminal)
    BY <1>2 DEF Child, Onward, Over
  <2>. QED  BY <1>1, <2>1, RunnerGoesOn DEF Returns
<1>3. CASE ~Over(c, j) /\ c' = Requeue(s, <<runner[j].prompt>>)
  <2>1. ~c.running
    BY <1>1, <1>3 DEF Child, Runners, Lone, Over
  <2>2. Lone(s) /\ Onward(c, s) /\ s.asg.terminal /\ Record(s)
    BY <2>1, StopAssignmentLone, StopAssignmentLemma DEF Child, Lone, Keeps
  <2>. HIDE DEF s
  <2>3. Lone(c') /\ Onward(s, c')
    BY <1>3, <2>2, RequeueBeside, BesideLone
  <2>. QED  BY <1>1, <2>2, <2>3, RunnerGoesOn DEF Returns, Onward
<1>. QED  BY <1>2, <1>3 DEF BindFails

LEMMA ChildAttach ==
  ASSUME Record(c), Child, NEW j \in Jobs, Attach(j)
  PROVE  Child'
<1>1. /\ runner[j].pc = "attaching" /\ UNCHANGED used
      /\ c.asg.job = j => c.asg.claimed
  BY DEF Attach, runnerRest, Child, Runners
<1>2. Lone(c') /\ Onward(c, c')
  BY StopAssignmentLone DEF Attach, StopJob, Child, Lone, Onward
<1>3. CASE runner' = [runner EXCEPT ![j].pc = "beginning"]
  BY <1>1, <1>2, <1>3, RunnerGoesOn DEF Onward
<1>4. CASE Over(c, j) /\ Returns(j)
  BY <1>1, <1>2, <1>4, RunnerGoesOn DEF Onward, Over, Returns
<1>. QED  BY <1>3, <1>4 DEF Attach

LEMMA ChildBegin ==
  ASSUME Record(c), Child, NEW j \in Jobs, Begin(j)
  PROVE  Child'
<1>. DEFINE s == [c EXCEPT !.attached = FALSE]
            r == StopAssignment(s)
            q == [s EXCEPT !.queue = Tail(@)]
            p == runner[j].prompt
<1>1. /\ runner[j].pc = "beginning" /\ UNCHANGED used
      /\ runner' = [runner EXCEPT ![j].pc = "waiting"]
      /\ c.asg.job = j => c.asg.claimed
  BY DEF Begin, runnerRest, Child, Runners
<1>2. Beside(c, s)
  BY DEF Beside, Keeps, Record, Fields, AssignmentFields
<1>3. Record(s) /\ Lone(s) /\ Onward(c, s)
  <2>. HIDE DEF s
  <2>. QED  BY <1>2, BesideLone DEF Child, Beside, Keeps
<1>4. Beside(s, q)
  <2>. HIDE DEF s
  <2>. QED  BY <1>3 DEF Beside, Keeps, Record, Fields, AssignmentFields
<1>5. Record(q) /\ Lone(q) /\ Onward(s, q) /\ q.running = s.running /\ q.asg = s.asg
  <2>. HIDE DEF s, q
  <2>. QED  BY <1>3, <1>4, BesideLone DEF Beside, Keeps
<1>6. Lone(r) /\ Onward(s, r) /\ Record(r)
  <2>. HIDE DEF s
  <2>. QED  BY <1>3, StopAssignmentLone, StopAssignmentLemma DEF Lone, Keeps
<1>7. \/ c' = s
      \/ c' = Requeue(r, Owed(p, TRUE))
      \/ /\ ~Over(s, j) /\ s.asg.turn \in {"idle", "interrupted"}
         /\ \/ c' = StartPrompt(s, p, TRUE, FALSE)
            \/ c' = StartPrompt(q, Head(s.queue), TRUE, FALSE)
  BY DEF Begin
<1>. HIDE DEF s, r, q
<1>8. ASSUME ~Over(s, j), s.asg.turn \in {"idle", "interrupted"}
      PROVE  ~s.running /\ (s.asg.terminal \/ s.asg.claimed)
  BY <1>1, <1>3, <1>8 DEF Over, Onward, Lone, Working
<1>9. Lone(c') /\ Onward(c, c')
  <2>1. CASE c' = s
    BY <1>3, <2>1
  <2>2. CASE c' = Requeue(r, Owed(p, TRUE))
    <3>1. Lone(c') /\ Onward(r, c')
      BY <1>6, <2>2, RequeueBeside, BesideLone
    <3>. QED  BY <1>3, <1>6, <3>1 DEF Onward
  <2>3. CASE /\ ~Over(s, j) /\ s.asg.turn \in {"idle", "interrupted"}
             /\ c' = StartPrompt(s, p, TRUE, FALSE)
    BY <1>3, <1>8, <2>3, StartPromptLone DEF Onward
  <2>4. CASE /\ ~Over(s, j) /\ s.asg.turn \in {"idle", "interrupted"}
             /\ c' = StartPrompt(q, Head(s.queue), TRUE, FALSE)
    BY <1>3, <1>5, <1>8, <2>4, StartPromptLone DEF Onward
  <2>. QED  BY <1>7, <2>1, <2>2, <2>3, <2>4
<1>. QED  BY <1>1, <1>9, RunnerGoesOn DEF Onward

LEMMA ChildDone ==
  ASSUME Record(c), Child, NEW j \in Jobs, Done(j)
  PROVE  Child'
<1>1. Lone(c') /\ Onward(c, c') /\ (c'.asg.job = j => c'.asg.terminal)
  BY DEF Done, Child, Onward, Over
<1>. QED  BY <1>1, RunnerGoesOn DEF Done, Returns, runnerRest

LEMMA ChildContextEnds ==
  ASSUME Record(c), Child, NEW j \in Jobs, ContextEnds(j)
  PROVE  Child'
BY StopAssignmentLone, ChildGoesOn DEF ContextEnds, Child, Lone, Unspent, runnerRest

(***************************************************************************)
(* One loop, and what its end proves.                                      *)
(***************************************************************************)

LEMMA ChildInit == IsChild /\ Init => Record(c) /\ Child
<1>. SUFFICES ASSUME IsChild, Init PROVE Record(c) /\ Child
  OBVIOUS
<1>1. 1 \in Jobs
  BY ChildAssumption, BoundsAssumption DEF Jobs
<1>2. Lone(c)
  BY <1>1 DEF Init, Lone, Working, Single, NoTurn, NewAssignment, Turns
<1>3. Admitted = 1..1
  BY <1>1 DEF Init, Admitted
<1>4. Runners(c)
  BY <1>1, <1>3 DEF Init, Runners, NewAssignment
<1>. QED  BY <1>2, <1>4, InitRecord DEF Init, Child, Unspent

LEMMA ChildNext ==
  ASSUME IsChild, MaxCompacts = 0, Record(c), Child, [Next]_vars
  PROVE  Child'
<1>1. MaxEvents = 0 /\ MaxInbox = 0 /\ ~HasPlan
  BY ChildAssumption
<1>2. CASE UNCHANGED vars
  BY <1>2 DEF vars, Child, Runners, Admitted, Unspent
<1>3. CASE UserStep
  <2>1. \A approved \in BOOLEAN : ~SetPlanApproved(approved)
    BY <1>1 DEF SetPlanApproved
  <2>2. ~Compact
    <3>1. ~(used.compacts < MaxCompacts)
      BY DEF Child, Unspent
    <3>. QED  BY <3>1 DEF Compact
  <2>. QED  BY <1>1, <1>3, <2>1, <2>2, ChildSubmit, ChildRecall, ChildCancel, ChildBeginSwitch,
            ChildEndSwitch, ChildLeave, ChildShutdown, ChildQuiet DEF UserStep
<1>4. CASE Background
  BY <1>1, <1>4, ChildBackground, ChildQuiet DEF Background
<1>5. CASE \E g \in Turns : TurnStep(g)
  BY <1>1, <1>5, ChildWorks, ChildFinishing DEF TurnStep
<1>6. CASE ViewReady
  BY <1>6, ChildQuiet
<1>7. CASE \E j \in Jobs : RunnerStep(j) \/ CancelJob(j)
  <2>1. ASSUME NEW j \in Jobs, CancelJob(j) PROVE Child'
    BY <2>1 DEF CancelJob, runnerRest, Child, Runners, Admitted, Unspent
  <2>. QED  BY <1>7, <2>1, ChildClaim, ChildBindFails, ChildAttach, ChildBegin, ChildDone,
            ChildContextEnds DEF RunnerStep
<1>. QED  BY <1>2, <1>3, <1>4, <1>5, <1>6, <1>7 DEF Next

\* A child in which nobody compacts.  (With /compact the engine of a child may
\* have two loops: TurnsCompact.cfg.)
LEMMA ChildInvariance == IsChild /\ MaxCompacts = 0 => (Spec => []Child)
<1>. SUFFICES ASSUME IsChild, MaxCompacts = 0 PROVE Spec => []Child
  OBVIOUS
<1>1. Init => Record(c) /\ Child
  BY ChildInit
<1>2. Record(c) /\ Child /\ [Next]_vars => (Record(c) /\ Child)'
  BY ChildNext, NextGood DEF Good
<1>. QED  BY <1>1, <1>2, PTL DEF Spec

\* ReturnProvesExit: when RunAssignment returns, to a finished turn, a cancelled
\* job, a View that failed, a session that closes or a stop that came first, no
\* turn of its job is left (its comment, assignment.go:80).
THEOREM ReturnsAfterTheLoop == IsChild /\ MaxCompacts = 0 => (Spec => []ReturnProvesExit)
<1>1. Child => ReturnProvesExit
  BY DEF Child, Lone, Working, Single, Runners, ReturnProvesExit
<1>. QED  BY <1>1, ChildInvariance, PTL

\* OneLoop of a child: the runner, follow-ups, submits and session switches never
\* start a second turn.
THEOREM OneLoopRunsInAChild == IsChild /\ MaxCompacts = 0 => (Spec => []OneLoop)
<1>1. Child => OneLoop
  BY SingleIsOne DEF Child, Lone, Working
<1>. QED  BY <1>1, ChildInvariance, PTL


(***************************************************************************)
(* Watch events of the controller the user drives, when nobody presses Esc *)
(* and no plan is revoked (a turn that is cut gives up what it took along: *)
(* TurnsEsc.cfg).                                                          *)
(***************************************************************************)

\* The events that wait or ride along with a turn.
Carried(s) == ToSet(s.events) \cup UNION {s.turns[g].rides : g \in Turns}

\* A turn has given its events away when it leaves the places where it holds some.
Loads(s) ==
  /\ s.asg.job = 0
  /\ s.events \in Seq(Nat)
  /\ ~s.closing => /\ ~s.stopped
                   /\ \A g \in Turns : s.turns[g].pc \notin {"delay", "opening", "feeding"}
                                         => s.turns[g].rides = {}

\* Nothing is lost or made up on the way from one record to the next.
Carries(s, t) ==
  /\ Loads(t)
  /\ t.closing = s.closing
  /\ ~s.closing => Carried(t) = Carried(s)

LEMMA CarriesTwice ==
  ASSUME NEW s, NEW t, NEW u, Carries(s, t), Carries(t, u)
  PROVE  Carries(s, u)
BY DEF Carries

LEMMA KeptCarries ==
  ASSUME NEW s, NEW t, Loads(s), t.turns = s.turns, t.asg.job = s.asg.job,
         t.events = s.events, t.closing = s.closing, ~s.closing => ~t.stopped
  PROVE  Carries(s, t)
BY DEF Carries, Carried, Loads

LEMMA CarriedByOne ==
  ASSUME NEW s, Single(s), Loads(s), ~s.closing, NEW g \in Turns, s.turns[g].pc # "off"
  PROVE  Carried(s) = ToSet(s.events) \cup s.turns[g].rides
<1>1. \A h \in Turns \ {g} : s.turns[h].rides = {}
  BY DEF Single, Loads
<1>2. UNION {s.turns[h].rides : h \in Turns} = s.turns[g].rides
  BY <1>1
<1>. QED  BY <1>2 DEF Carried

LEMMA CarriedByNone ==
  ASSUME NEW s, Single(s), Loads(s), ~s.closing, ~s.running
  PROVE  Carried(s) = ToSet(s.events)
<1>1. \A h \in Turns : s.turns[h].rides = {}
  BY DEF Single, Loads
<1>2. UNION {s.turns[h].rides : h \in Turns} = {}
  BY <1>1
<1>. QED  BY <1>2 DEF Carried

LEMMA NoEvents == ToSet(<<>>) = {} /\ <<>> \in Seq(Nat)
BY DEF ToSet

\* A turn that starts takes along what waits.
LEMMA StartPromptCarries ==
  ASSUME NEW s, Record(s), Single(s), Loads(s), ~s.running, NEW p, NEW owed, NEW wake
  PROVE  Carries(s, StartPrompt(s, p, owed, wake))
<1>. DEFINE d == DrainWatch(s)
            g == CHOOSE g \in Turns \ {s.gen} : s.turns[g].pc = "off"
            new == [NoTurn EXCEPT !.pc = "delay", !.prompt = p, !.owed = owed, !.wake = wake,
                                  !.rides = ToSet(s.events), !.job = s.asg.job]
            u == [d EXCEPT !.running = TRUE, !.stopped = FALSE, !.blocked = FALSE,
                          !.resume = FALSE, !.gen = g,
                          !.turns[g] = new,
                          !.asg.turn = IF HasAssignment(s) THEN "running" ELSE @]
<1>1. ~HasAssignment(s)
  BY DEF HasAssignment, Loads
<1>2. /\ Record(d) /\ d.turns = s.turns /\ d.events = <<>> /\ d.closing = s.closing
      /\ d.asg = s.asg
  BY DrainLemma DEF Keeps, Record, Fields, DrainWatch
<1>3. new.rides = ToSet(s.events) /\ new.pc = "delay"
  BY DEF NoTurn
<1>4. /\ u.turns = [s.turns EXCEPT ![g] = new] /\ u.gen = g /\ u.running = TRUE
      /\ u.closing = s.closing /\ u.events = <<>> /\ ~u.stopped /\ u.asg.job = 0
      /\ u.switching = s.switching
  <2>1. d.switching = s.switching
    BY DrainLemma DEF Keeps
  <2>2. s.asg.job = 0
    BY DEF Loads
  <2>. HIDE DEF g, new, d
  <2>. QED  BY <1>2, <2>1, <2>2 DEF Record, Fields, AssignmentFields
<1>5. ASSUME ~s.closing, ~s.switching PROVE Carries(s, u)
  <2>1. \A h \in Turns : s.turns[h].pc = "off"
    BY DEF Single
  <2>2. g \in Turns
    BY <2>1 DEF Turns
  <2>. HIDE DEF g, new, u
  <2>3. Loads(u)
    BY <1>3, <1>4, <2>1, <2>2, NoEvents DEF Loads, Record
  <2>4. Single(u) /\ u.turns[g].pc # "off" /\ u.turns[g].rides = ToSet(s.events)
    BY <1>3, <1>4, <1>5, <2>1, <2>2 DEF Single, Record
  <2>5. Carried(u) = ToSet(s.events)
    <3>1. ~u.closing
      BY <1>4, <1>5
    <3>2. Carried(u) = ToSet(u.events) \cup u.turns[g].rides
      BY <2>2, <2>3, <2>4, <3>1, CarriedByOne
    <3>. QED  BY <1>4, <2>4, <3>2, NoEvents
  <2>. QED  BY <1>4, <1>5, <2>3, <2>5, CarriedByNone DEF Carries
<1>6. \/ StartPrompt(s, p, owed, wake) = Requeue(s, Owed(p, owed))
      \/ StartPrompt(s, p, owed, wake) = u /\ ~s.closing /\ ~s.switching
  BY <1>1 DEF StartPrompt
<1>7. Carries(s, Requeue(s, Owed(p, owed)))
  BY KeptCarries DEF Requeue, Record, Fields, Loads
<1>. HIDE DEF u
<1>. QED  BY <1>5, <1>6, <1>7

LEMMA MaybeResumeCarries ==
  ASSUME NEW s, Record(s), Single(s), Loads(s)
  PROVE  Carries(s, MaybeResume(s))
<1>. DEFINE r == [s EXCEPT !.resume = s.resume /\ s.work]
<1>1. Record(r) /\ Keeps(s, r) /\ Carries(s, r) /\ Carries(s, s)
  <2>1. Keeps(s, r)
    BY DEF Keeps, Record, Fields, AssignmentFields
  <2>2. r.events = s.events /\ r.closing = s.closing /\ r.stopped = s.stopped
    BY DEF Record, Fields
  <2>. HIDE DEF r
  <2>. QED  BY <2>1, <2>2, KeptCarries DEF Keeps, Loads
<1>2. \/ MaybeResume(s) \in {s, r}
      \/ MaybeResume(s) = StartPrompt(r, None, FALSE, FALSE) /\ ~s.running
  BY DEF MaybeResume
<1>. HIDE DEF r
<1>3. Single(r) /\ Loads(r) /\ r.running = s.running
  BY <1>1, KeepsSingle DEF Carries, Keeps
<1>. QED  BY <1>1, <1>2, <1>3, StartPromptCarries, CarriesTwice

LEMMA StartNextCarries ==
  ASSUME NEW s, Record(s), Single(s), Loads(s), ~s.running, NEW stopped
  PROVE  Carries(s, StartNext(s, stopped))
<1>. DEFINE q == [s EXCEPT !.queue = Tail(@)]
            m == IF ~stopped \/ ~HasAssignment(s) THEN MaybeResume(s) ELSE s
            w == [m EXCEPT !.streak = @ + 1]
            first == StartPrompt(q, Head(s.queue), TRUE, FALSE)
            last == StartPrompt(w, None, FALSE, TRUE)
<1>1. Record(q) /\ Keeps(s, q) /\ Carries(s, q) /\ Carries(s, s)
  <2>1. Keeps(s, q)
    BY DEF Keeps, Record, Fields, AssignmentFields
  <2>2. q.events = s.events /\ q.closing = s.closing /\ q.stopped = s.stopped
    BY DEF Record, Fields
  <2>. HIDE DEF q
  <2>. QED  BY <2>1, <2>2, KeptCarries DEF Keeps, Loads
<1>2. Carries(s, m) /\ Record(m) /\ Single(m) /\ m.streak = s.streak
  BY <1>1, MaybeResumeCarries, MaybeResumeLemma
<1>3. Record(w) /\ Carries(m, w) /\ Single(w) /\ w.running = m.running
  <2>. HIDE DEF m
  <2>1. /\ Record(w) /\ w.turns = m.turns /\ w.gen = m.gen /\ w.running = m.running
        /\ w.switching = m.switching /\ w.events = m.events /\ w.closing = m.closing
        /\ w.stopped = m.stopped /\ w.asg = m.asg
    BY <1>2 DEF Record, Fields, AssignmentFields
  <2>. HIDE DEF w
  <2>. QED  BY <1>2, <2>1, KeptCarries DEF Single, Loads, Carries
<1>4. \/ StartNext(s, stopped) \in {s, m, first}
      \/ StartNext(s, stopped) = last /\ ~m.running
  BY DEF StartNext
<1>. HIDE DEF q, m, w
<1>5. Carries(s, first)
  <2>1. Single(q) /\ Loads(q) /\ ~q.running
    BY <1>1, KeepsSingle DEF Keeps, Carries
  <2>. QED  BY <1>1, <2>1, StartPromptCarries, CarriesTwice
<1>6. ~m.running => Carries(s, last)
  <2>1. Loads(w)
    BY <1>3 DEF Carries
  <2>2. ~m.running => Carries(w, last)
    BY <1>3, <2>1, StartPromptCarries
  <2>. QED  BY <1>2, <1>3, <2>2, CarriesTwice
<1>. QED  BY <1>1, <1>2, <1>4, <1>5, <1>6

\* The watch events the session never sees.
Missed == shed.full \cup shed.failed

\* Every watch event so far is waiting, rides along, has arrived or was missed.
Tally ==
  /\ Record(c) /\ Root /\ Loads(c)
  /\ DOMAIN used = {"events", "inbox", "cancels", "compacts", "switches"}
  /\ used.cancels = 0 /\ used.events \in Nat
  /\ DOMAIN shed = {"full", "failed"}
  /\ c.closing \/ 1..used.events = Carried(c) \cup rode \cup Missed

\* What a step owes to Tally, once it is known that the controller stays the user's.
Tallied == Record(c') /\ Root' => Tally'

SpendsOther ==
  used' = used \/ \E f \in {"inbox", "compacts", "switches"} : used' = [used EXCEPT ![f] = @ + 1]

LEMMA CarriedTallies ==
  ASSUME Tally, Carries(c, c'), SpendsOther, UNCHANGED <<rode, shed>>
  PROVE  Tallied
BY DEF Tally, Tallied, Carries, Loads, Carried, SpendsOther, Missed

LEMMA KeptTallies ==
  ASSUME Tally, SpendsOther, UNCHANGED <<rode, shed>>,
         c'.turns = c.turns, c'.asg.job = c.asg.job, c'.events = c.events,
         c'.closing = c.closing, ~c.closing => ~c'.stopped
  PROVE  Tallied
<1>1. Carries(c, c')
  BY KeptCarries DEF Tally
<1>. QED  BY <1>1, CarriedTallies

\* A turn hands its events on.
LEMMA TurnTallies ==
  ASSUME Tally, NEW g \in Turns, c.turns[g].pc # "off", UNCHANGED used,
         NEW s, Keeps(c, s), s.closing = c.closing, s.stopped = c.stopped, s.events \in Seq(Nat),
         NEW t, t.pc # "off", t.pc \notin {"delay", "opening", "feeding"} => t.rides = {},
         c' = [s EXCEPT !.turns[g] = t],
         DOMAIN shed' = DOMAIN shed,
         ~c.closing => ToSet(s.events) \cup t.rides \cup rode' \cup Missed'
                         = ToSet(c.events) \cup c.turns[g].rides \cup rode \cup Missed
  PROVE  Tallied
<1>1. /\ c'.turns = [c.turns EXCEPT ![g] = t] /\ c'.gen = c.gen /\ c'.running = c.running
      /\ c'.switching = c.switching /\ c'.events = s.events /\ c'.closing = c.closing
      /\ c'.stopped = c.stopped /\ c'.asg.job = c.asg.job
  BY DEF Keeps, Record, Fields
<1>2. Loads(c')
  BY <1>1 DEF Tally, Loads, Record
<1>3. CASE c.closing
  BY <1>1, <1>2, <1>3 DEF Tally, Tallied, Loads
<1>4. CASE ~c.closing
  <2>1. Carried(c) = ToSet(c.events) \cup c.turns[g].rides
    BY <1>4, CarriedByOne DEF Tally, Root
  <2>2. Single(c')
    BY <1>1 DEF Tally, Root, Single, Record
  <2>3. c'.turns[g] = t
    BY <1>1 DEF Tally, Record
  <2>4. Carried(c') = ToSet(s.events) \cup t.rides
    <3>1. ~c'.closing /\ c'.turns[g].pc # "off"
      BY <1>1, <1>4, <2>3
    <3>2. Carried(c') = ToSet(c'.events) \cup c'.turns[g].rides
      BY <1>2, <2>2, <3>1, CarriedByOne
    <3>. QED  BY <1>1, <2>3, <3>2
  <2>5. Carried(c)' = Carried(c') /\ Loads(c)' = Loads(c')
    BY DEF Carried, Loads
  <2>6. 1..used.events = Carried(c') \cup rode' \cup Missed'
    BY <1>4, <2>1, <2>4 DEF Tally
  <2>. QED  BY <1>2, <2>5, <2>6 DEF Tally, Tallied
<1>. QED  BY <1>3, <1>4

LEMMA UserTallies ==
  ASSUME Tally, ~IsChild, ~HasPlan, MaxCancels = 0, UserStep
  PROVE  Tallied
<1>1. ASSUME NEW p \in Prompts, Submit(p) PROVE Tallied
  <2>. DEFINE s == [c EXCEPT !.streak = 0, !.suppressed = FALSE]
  <2>1. /\ Record(s) /\ s.turns = c.turns /\ s.gen = c.gen /\ s.running = c.running
        /\ s.switching = c.switching /\ s.asg = c.asg /\ s.events = c.events
        /\ s.closing = c.closing /\ s.stopped = c.stopped /\ ~s.closing
    BY <1>1 DEF Tally, Record, Fields, AssignmentFields, Submit
  <2>2. UNCHANGED <<used, rode, shed>>
    BY <1>1 DEF Submit, outVars
  <2>. HIDE DEF s
  <2>3. CASE c' = [s EXCEPT !.queue = Append(@, p)]
    <3>1. /\ c'.turns = c.turns /\ c'.asg.job = c.asg.job /\ c'.events = c.events
          /\ c'.closing = c.closing /\ c'.stopped = c.stopped
      BY <2>1, <2>3 DEF Record, Fields
    <3>. QED  BY <2>1, <2>2, <3>1, KeptTallies DEF Tally, Loads, SpendsOther
  <2>4. CASE ~s.running /\ c' = StartPrompt(s, p, FALSE, FALSE)
    <3>1. Carries(c, s)
      BY <2>1, KeptCarries DEF Tally, Loads
    <3>2. Single(s)
      BY <2>1 DEF Tally, Root, Single
    <3>3. Carries(s, c')
      <4>1. Loads(s)
        BY <3>1 DEF Carries
      <4>. QED  BY <2>1, <2>4, <3>2, <4>1, StartPromptCarries
    <3>. QED  BY <2>2, <3>1, <3>3, CarriesTwice, CarriedTallies DEF SpendsOther
  <2>. QED  BY <1>1, <2>3, <2>4 DEF Submit, s
<1>2. CASE Recall
  <2>1. /\ c'.turns = c.turns /\ c'.asg.job = c.asg.job /\ c'.events = c.events
        /\ c'.closing = c.closing /\ c'.stopped = c.stopped
    BY <1>2 DEF Recall, Tally, Record, Fields
  <2>. QED  BY <1>2, <2>1, KeptTallies DEF Recall, Tally, Loads, SpendsOther
<1>3. ~Cancel
  BY DEF Cancel, Tally
<1>4. CASE Compact
  <2>. DEFINE g == CHOOSE g \in Turns \ {c.gen} : c.turns[g].pc = "off"
              new == [NoTurn EXCEPT !.pc = "compacting"]
  <2>1. new.rides = {} /\ new.pc = "compacting"
    BY DEF NoTurn
  <2>2. /\ ~c.running /\ ~c.closing
        /\ c' = [c EXCEPT !.running = TRUE, !.stopped = FALSE, !.gen = g, !.turns[g] = new]
    BY <1>4 DEF Compact
  <2>3. \A h \in Turns : c.turns[h].pc = "off" /\ c.turns[h].rides = {}
    BY <2>2 DEF Tally, Root, Single, Loads
  <2>4. g \in Turns
    BY <2>3 DEF Turns
  <2>. HIDE DEF g, new
  <2>5. /\ c'.turns = [c.turns EXCEPT ![g] = new]
        /\ c'.events = c.events /\ c'.closing = c.closing /\ ~c'.stopped
        /\ c'.asg = c.asg
    BY <2>2 DEF Tally, Record, Fields
  <2>6. \A h \in Turns : c'.turns[h].rides = {}
    BY <2>1, <2>3, <2>5 DEF Tally, Record
  <2>7. Carries(c, c')
    BY <2>1, <2>3, <2>5, <2>6 DEF Carries, Carried, Loads, Tally
  <2>. QED  BY <1>4, <2>7, CarriedTallies DEF Compact, SpendsOther, outVars
<1>5. \A approved \in BOOLEAN : ~SetPlanApproved(approved)
  BY DEF SetPlanApproved
<1>6. CASE BeginSwitch
  <2>1. /\ c'.turns = c.turns /\ c'.asg.job = c.asg.job /\ c'.events = c.events
        /\ c'.closing = c.closing /\ c'.stopped = c.stopped
    BY <1>6 DEF BeginSwitch, Tally, Record, Fields
  <2>. QED  BY <1>6, <2>1, KeptTallies DEF BeginSwitch, Tally, Loads, SpendsOther, outVars
<1>7. CASE EndSwitch
  <2>. DEFINE b == [c EXCEPT !.switching = FALSE, !.stopped = FALSE]
  <2>1. PICK s \in Conversations(b) :
          \/ NeedsFollowUp(s)
          \/ c' = StartNext(s, c.stopped)
    BY <1>7 DEF EndSwitch
  <2>2. /\ Record(b) /\ b.turns = c.turns /\ b.gen = c.gen /\ b.running = c.running
        /\ ~b.switching /\ b.asg = c.asg /\ b.events = c.events /\ b.closing = c.closing
        /\ ~b.stopped
    BY DEF Tally, Record, Fields, AssignmentFields
  <2>3. /\ Record(s) /\ s.turns = c.turns /\ s.gen = c.gen /\ s.running = c.running
        /\ ~s.switching /\ s.asg = c.asg /\ s.events = c.events /\ s.closing = c.closing
        /\ ~s.stopped
    <3>. HIDE DEF b
    <3>1. s = b \/ \E a \in Plans, w \in Plans : s = Other(b, a, w)
      BY DEF Conversations
    <3>2. ASSUME NEW a, NEW w, s = Other(b, a, w)
          PROVE  /\ DOMAIN s = Fields /\ s.turns = b.turns /\ s.gen = b.gen
                 /\ s.running = b.running /\ s.switching = b.switching /\ s.asg = b.asg
                 /\ s.streak = b.streak /\ s.events = b.events /\ s.closing = b.closing
                 /\ s.stopped = b.stopped
      BY <2>2, <3>2 DEF Record, Fields, Other
    <3>. QED  BY <2>2, <3>1, <3>2 DEF Record
  <2>4. ~NeedsFollowUp(s)
    BY <2>3 DEF NeedsFollowUp, HasAssignment, Tally, Root
  <2>5. Carries(c, s) /\ Loads(s)
    BY <2>3, KeptCarries DEF Tally, Carries
  <2>6. Single(s) /\ ~s.running
    BY <1>7, <2>3 DEF EndSwitch, Tally, Root, Single
  <2>7. Carries(s, c')
    BY <2>1, <2>3, <2>4, <2>5, <2>6, StartNextCarries
  <2>. QED  BY <1>7, <2>5, <2>7, CarriesTwice, CarriedTallies DEF EndSwitch, SpendsOther, outVars
<1>8. ~Leave
  BY DEF Leave, OpenAssignment, HasAssignment, Tally, Root
<1>9. CASE Shutdown
  <2>1. ~OpenAssignment([c EXCEPT !.closing = TRUE])
    BY DEF OpenAssignment, HasAssignment, Tally, Root, Record, Fields
  <2>2. /\ c'.closing /\ c'.asg.job = 0 /\ c'.events = c.events
    BY <1>9, <2>1 DEF Shutdown, StopAssignment, Tally, Root, Record, Fields
  <2>. QED  BY <1>9, <2>2 DEF Tally, Tallied, Loads, Shutdown, outVars
<1>10. CASE Release
  BY <1>10, KeptTallies DEF Release, Tally, Loads, SpendsOther
<1>11. CASE ChangeModel
  <2>1. /\ c'.turns = c.turns /\ c'.asg.job = c.asg.job /\ c'.events = c.events
        /\ c'.closing = c.closing /\ c'.stopped = c.stopped
    BY <1>11 DEF ChangeModel, Tally, Record, Fields
  <2>. QED  BY <1>11, <2>1, KeptTallies DEF ChangeModel, Tally, Loads, SpendsOther, outVars
<1>. QED  BY <1>1, <1>2, <1>3, <1>4, <1>5, <1>6, <1>7, <1>8, <1>9, <1>10, <1>11 DEF UserStep

LEMMA TailsKeep ==
  ASSUME NEW q \in Seq(Nat), NEW e \in Nat
  PROVE  /\ Append(q, e) \in Seq(Nat) /\ Tail(Append(q, e)) \in Seq(Nat)
         /\ ToSet(Append(q, e)) = ToSet(q) \cup {e}
         /\ ToSet(Append(q, e)) = {Head(Append(q, e))} \cup ToSet(Tail(Append(q, e)))
<1>. DEFINE r == Append(q, e)
<1>1. r \in Seq(Nat) /\ Tail(r) \in Seq(Nat) /\ Len(r) = Len(q) + 1 /\ r[Len(r)] = e
      /\ DOMAIN r = 1..Len(r) /\ DOMAIN Tail(r) = 1..Len(Tail(r)) /\ DOMAIN q = 1..Len(q)
      /\ \A i \in 1..Len(q) : r[i] = q[i]
  <2>1. r \in Seq(Nat) /\ Len(r) = Len(q) + 1 /\ r[Len(r)] = e
    OBVIOUS
  <2>2. Tail(r) \in Seq(Nat) /\ DOMAIN r = 1..Len(r)
    <3>. HIDE DEF r
    <3>. QED  BY <2>1
  <2>3. \A i \in 1..Len(q) : r[i] = q[i]
    OBVIOUS
  <2>. QED  BY <2>1, <2>2, <2>3
<1>2. ToSet(r) = ToSet(q) \cup {e}
  <2>1. ToSet(r) \subseteq ToSet(q) \cup {e}
    BY <1>1 DEF ToSet
  <2>2. ToSet(q) \subseteq ToSet(r)
    BY <1>1 DEF ToSet
  <2>3. e \in ToSet(r)
    BY <1>1 DEF ToSet
  <2>. QED  BY <2>1, <2>2, <2>3
<1>3. Len(Tail(r)) = Len(r) - 1 /\ Head(r) = r[1] /\ \A i \in 1..(Len(r) - 1) : Tail(r)[i] = r[i + 1]
  BY <1>1
<1>4. ToSet(r) = {Head(r)} \cup ToSet(Tail(r))
  <2>. HIDE DEF r
  <2>1. ToSet(r) \subseteq {Head(r)} \cup ToSet(Tail(r))
    <3>1. ASSUME NEW i \in 1..Len(r) PROVE r[i] \in {Head(r)} \cup ToSet(Tail(r))
      <4>1. CASE i = 1
        BY <1>3, <4>1
      <4>2. CASE i # 1
        <5>1. i - 1 \in 1..Len(Tail(r)) /\ Tail(r)[i - 1] = r[i]
          BY <1>1, <1>3, <4>2
        <5>. QED  BY <1>1, <5>1, Zenon DEF ToSet
      <4>. QED  BY <4>1, <4>2
    <3>. QED  BY <1>1, <3>1, Zenon DEF ToSet
  <2>2. ToSet(Tail(r)) \subseteq ToSet(r)
    BY <1>1, <1>3 DEF ToSet
  <2>3. Head(r) \in ToSet(r)
    BY <1>1, <1>3 DEF ToSet
  <2>. QED  BY <2>1, <2>2, <2>3
<1>. QED  BY <1>1, <1>2, <1>4

LEMMA BackgroundTallies ==
  ASSUME Tally, Background
  PROVE  Tallied
<1>1. CASE WatchEvent
  <2>. DEFINE e == used.events + 1
              q == Append(c.events, e)
  <2>1. /\ q \in Seq(Nat) /\ Tail(q) \in Seq(Nat)
        /\ ToSet(q) = ToSet(c.events) \cup {e}
        /\ ToSet(q) = {Head(q)} \cup ToSet(Tail(q))
    <3>1. c.events \in Seq(Nat) /\ e \in Nat
      BY DEF Tally, Loads
    <3>. HIDE DEF e
    <3>. QED  BY <3>1, TailsKeep
  <2>2. /\ used'.events = e /\ e \in Nat /\ used'.cancels = 0
        /\ DOMAIN used' = {"events", "inbox", "cancels", "compacts", "switches"}
        /\ 1..e = 1..used.events \cup {e} /\ UNCHANGED rode
    BY <1>1 DEF WatchEvent, Tally
  <2>3. CASE c.closing
    <3>1. c' = c /\ DOMAIN shed' = {"full", "failed"}
      BY <1>1, <2>3 DEF WatchEvent, Tally
    <3>. QED  BY <2>2, <2>3, <3>1 DEF Tally, Tallied, Loads
  <2>4. ASSUME ~c.closing, NEW r \in Seq(Nat), c' = ArmUnlessSwitching([c EXCEPT !.events = r]),
               DOMAIN shed' = DOMAIN shed, ToSet(r) \cup Missed' = ToSet(q) \cup Missed
        PROVE  Tallied
    <3>. HIDE DEF e, q
    <3>1. /\ c'.turns = c.turns /\ c'.asg = c.asg /\ c'.events = r /\ c'.closing = c.closing
          /\ c'.stopped = c.stopped
      BY <2>4 DEF ArmUnlessSwitching, Arm, Tally, Record, Fields
    <3>2. Loads(c)'
      BY <2>4, <3>1 DEF Tally, Loads
    <3>3. Carried(c)' \cup Missed' = Carried(c) \cup {e} \cup Missed
      <4>1. Carried(c)' = ToSet(r) \cup UNION {c.turns[g].rides : g \in Turns}
        BY <3>1 DEF Carried
      <4>. QED  BY <2>1, <2>4, <4>1 DEF Carried
    <3>4. 1..e = Carried(c)' \cup rode' \cup Missed'
      BY <2>2, <2>4, <3>3 DEF Tally
    <3>. QED  BY <2>2, <2>4, <3>2, <3>4 DEF Tally, Tallied
  <2>5. ASSUME ~c.closing, Len(q) > QueueLimit PROVE Tallied
    <3>1. /\ c' = ArmUnlessSwitching([c EXCEPT !.events = Tail(q)])
          /\ shed' = [shed EXCEPT !.full = @ \cup {Head(q)}]
      BY <1>1, <2>5 DEF WatchEvent
    <3>2. DOMAIN shed' = DOMAIN shed /\ Missed' = Missed \cup {Head(q)}
      BY <3>1 DEF Missed, Tally
    <3>. HIDE DEF e, q
    <3>. QED  BY <2>1, <2>4, <2>5, <3>1, <3>2
  <2>6. ASSUME ~c.closing, ~(Len(q) > QueueLimit) PROVE Tallied
    <3>1. /\ c' = ArmUnlessSwitching([c EXCEPT !.events = q]) /\ UNCHANGED shed
      BY <1>1, <2>6 DEF WatchEvent
    <3>. HIDE DEF e, q
    <3>. QED  BY <2>1, <2>4, <2>6, <3>1 DEF Missed
  <2>. QED  BY <2>3, <2>5, <2>6
<1>2. CASE Result
  <2>. DEFINE s == [c EXCEPT !.inbox = @ + 1]
  <2>1. /\ Record(s) /\ s.turns = c.turns /\ s.asg = c.asg /\ s.events = c.events
        /\ s.closing = c.closing /\ s.stopped = c.stopped
    BY DEF Tally, Record, Fields
  <2>2. c' \in {Arm(s), ArmUnlessSwitching(s)}
    BY <1>2 DEF Result
  <2>. HIDE DEF s
  <2>3. /\ c'.turns = c.turns /\ c'.asg.job = c.asg.job /\ c'.events = c.events
        /\ c'.closing = c.closing /\ c'.stopped = c.stopped
    BY <2>1, <2>2 DEF Arm, ArmUnlessSwitching, Record, Fields
  <2>. QED  BY <1>2, <2>3, KeptTallies DEF Result, Tally, Loads, SpendsOther, outVars
<1>3. CASE TimerFires
  <2>1. /\ c'.turns = c.turns /\ c'.asg.job = c.asg.job /\ c'.events = c.events
        /\ c'.closing = c.closing /\ c'.stopped = c.stopped
    BY <1>3 DEF TimerFires, Tally, Record, Fields
  <2>. QED  BY <1>3, <2>1, KeptTallies DEF TimerFires, Tally, Loads, SpendsOther, outVars
<1>4. CASE WakeForWatches
  <2>. DEFINE s == [c EXCEPT !.wake = "off"]
              w == [s EXCEPT !.streak = @ + 1]
  <2>1. /\ Record(s) /\ s.turns = c.turns /\ s.gen = c.gen /\ s.running = c.running
        /\ s.switching = c.switching /\ s.asg = c.asg /\ s.events = c.events
        /\ s.closing = c.closing /\ s.stopped = c.stopped
    BY DEF Tally, Record, Fields
  <2>2. \/ c' = s
        \/ ~s.running /\ c' = StartPrompt(w, None, FALSE, TRUE)
    BY <1>4 DEF WakeForWatches
  <2>. HIDE DEF s
  <2>3. /\ Record(w) /\ w.turns = c.turns /\ w.gen = c.gen /\ w.running = s.running
        /\ w.switching = c.switching /\ w.asg = c.asg /\ w.events = c.events
        /\ w.closing = c.closing /\ w.stopped = c.stopped
    BY <2>1 DEF Record, Fields
  <2>. HIDE DEF w
  <2>4. Carries(c, w) /\ Loads(w) /\ Single(w) /\ Carries(c, s)
    BY <2>1, <2>3, KeptCarries DEF Tally, Root, Single, Loads, Carries
  <2>5. Carries(c, c')
    <3>1. CASE c' = s
      BY <2>4, <3>1
    <3>2. CASE ~s.running /\ c' = StartPrompt(w, None, FALSE, TRUE)
      <4>1. Carries(w, c')
        BY <2>3, <2>4, <3>2, StartPromptCarries
      <4>. QED  BY <2>4, <4>1, CarriesTwice
    <3>. QED  BY <2>2, <3>1, <3>2
  <2>. QED  BY <1>4, <2>5, CarriedTallies DEF WakeForWatches, SpendsOther, outVars
<1>. QED  BY <1>1, <1>2, <1>3, <1>4 DEF Background

\* The events leave the turn only for the session or, with an error row, for shed.
LEMMA MovesTally ==
  ASSUME Tally, NEW g \in Turns, c.turns[g].pc # "off", UNCHANGED <<used, rode, shed>>,
         NEW s, Keeps(c, s), s.closing = c.closing, s.stopped = c.stopped, s.events = c.events,
         NEW t, t.pc # "off", c.turns[g].rides = t.rides,
         c.turns[g].pc \in {"delay", "opening", "feeding"}
           => t.pc \in {"delay", "opening", "feeding"},
         c' = [s EXCEPT !.turns[g] = t]
  PROVE  Tallied
<1>1. s.events \in Seq(Nat)
  BY DEF Tally, Loads
<1>2. CASE c.closing
  <2>1. /\ c'.turns = [c.turns EXCEPT ![g] = t] /\ c'.events = s.events
        /\ c'.closing = c.closing /\ c'.asg.job = c.asg.job
    BY DEF Keeps, Record, Fields
  <2>. QED  BY <1>1, <1>2, <2>1 DEF Tally, Tallied, Loads
<1>3. CASE ~c.closing
  <2>1. t.pc \notin {"delay", "opening", "feeding"} => t.rides = {}
    BY <1>3 DEF Tally, Loads
  <2>. QED  BY <1>1, <2>1, TurnTallies DEF Missed
<1>. QED  BY <1>2, <1>3

LEMMA ClosingTallies ==
  ASSUME Tally, c.closing, UNCHANGED used, DOMAIN shed' = DOMAIN shed, NEW g \in Turns,
         NEW s, Keeps(c, s), s.closing, s.events = c.events,
         NEW t, c' = [s EXCEPT !.turns[g] = t]
  PROVE  Tallied
<1>1. c'.closing /\ c'.events = c.events /\ c'.asg.job = c.asg.job
  BY DEF Keeps, Record, Fields
<1>. QED  BY <1>1 DEF Tally, Tallied, Loads

LEMMA FailsTallies ==
  ASSUME Tally, NEW g \in Turns, c.turns[g].pc # "off", Fails(g)
  PROVE  Tallied
<1>. DEFINE t == [c.turns[g] EXCEPT !.pc = "unwinding", !.prompt = None, !.rides = {},
                                    !.inject = <<>>]
            u == [c.turns[g] EXCEPT !.pc = "unwinding"]
<1>1. /\ t.pc = "unwinding" /\ t.rides = {} /\ Keeps(c, c)
      /\ UNCHANGED <<used, rode>>
  BY DEF Tally, Record, Keeps, TurnFields, Fails
<1>2. CASE Alive(g)
  <2>1. /\ c' = [c EXCEPT !.turns[g] = t] /\ DOMAIN shed' = DOMAIN shed
        /\ Missed' = Missed \cup c.turns[g].rides
    BY <1>2 DEF Fails, Tally, Missed
  <2>. HIDE DEF t
  <2>. QED  BY <1>1, <2>1, TurnTallies DEF Tally, Loads
<1>3. CASE ~Alive(g)
  <2>1. c' = [c EXCEPT !.turns[g] = u] /\ DOMAIN shed' = DOMAIN shed
    BY <1>3 DEF Fails
  <2>2. c.closing
    BY <1>3 DEF Alive, Tally, Root, Single, Loads
  <2>. HIDE DEF u
  <2>. QED  BY <1>1, <2>1, <2>2, ClosingTallies
<1>. QED  BY <1>2, <1>3

LEMMA GoesTallies ==
  ASSUME Tally, NEW g \in Turns, c.turns[g].pc # "off", UNCHANGED <<used, rode, shed>>,
         NEW pc, pc # "off", Goes(g, pc),
         \/ c.turns[g].pc \notin {"delay", "opening", "feeding"}
         \/ pc \in {"delay", "opening", "feeding"} \/ ~Alive(g)
  PROVE  Tallied
<1>. DEFINE t == [c.turns[g] EXCEPT !.pc = pc]
<1>1. t.pc = pc /\ t.rides = c.turns[g].rides /\ Keeps(c, c)
  BY DEF Tally, Record, Keeps, TurnFields
<1>2. c' = [c EXCEPT !.turns[g] = t]
  BY DEF Goes
<1>3. Alive(g) \/ c.closing
  BY DEF Alive, Tally, Root, Single, Loads
<1>. HIDE DEF t
<1>. QED  BY <1>1, <1>2, <1>3, MovesTally, ClosingTallies

LEMMA TurnStepTallies ==
  ASSUME Tally, NEW g \in Turns, TurnStep(g)
  PROVE  Tallied
<1>1. CASE Delay(g)
  BY <1>1, GoesTallies DEF Delay, turnRest
<1>2. CASE Opening(g)
  <2>. DEFINE t == [c.turns[g] EXCEPT !.pc = "inbox", !.prompt = None, !.rides = {}]
  <2>1. CASE c' = [c EXCEPT !.turns[g] = t] /\ rode' = rode \cup c.turns[g].rides /\ UNCHANGED <<used, shed>>
    <3>1. t.pc = "inbox" /\ t.rides = {} /\ Keeps(c, c)
      BY DEF Tally, Record, Keeps, TurnFields
    <3>. HIDE DEF t
    <3>. QED  BY <1>2, <2>1, <3>1, TurnTallies DEF Tally, Loads, Opening, Missed
  <2>2. CASE Fails(g)
    BY <1>2, <2>2, FailsTallies DEF Opening
  <2>. QED  BY <1>2, <2>1, <2>2 DEF Opening, turnRest
<1>3. CASE Inbox(g)
  <2>1. c.turns[g].pc = "inbox" /\ UNCHANGED <<used, rode, shed>>
    BY <1>3 DEF Inbox, turnRest
  <2>2. CASE Goes(g, "unwinding")
    BY <2>1, <2>2, GoesTallies
  <2>3. CASE c' = [c EXCEPT !.turns[g].pc = "inference", !.inbox = 0]
    <3>. DEFINE s == [c EXCEPT !.inbox = 0]
                t == [c.turns[g] EXCEPT !.pc = "inference"]
    <3>1. /\ Keeps(c, s) /\ s.closing = c.closing /\ s.stopped = c.stopped /\ s.events = c.events
          /\ t.pc = "inference" /\ t.rides = c.turns[g].rides
      BY DEF Keeps, Tally, Record, Fields, AssignmentFields, TurnFields
    <3>2. c' = [s EXCEPT !.turns[g] = t]
      BY <2>3 DEF Tally, Record, Fields
    <3>. HIDE DEF s, t
    <3>. QED  BY <2>1, <3>1, <3>2, MovesTally
  <2>4. CASE c' = [c EXCEPT !.suppressed = TRUE,
                            !.turns[g] = [@ EXCEPT !.pc = "unwinding", !.prompt = None]]
    <3>. DEFINE s == [c EXCEPT !.suppressed = TRUE]
                t == [c.turns[g] EXCEPT !.pc = "unwinding", !.prompt = None]
    <3>1. /\ Keeps(c, s) /\ s.closing = c.closing /\ s.stopped = c.stopped /\ s.events = c.events
          /\ t.pc = "unwinding" /\ t.rides = c.turns[g].rides
      BY DEF Keeps, Tally, Record, Fields, AssignmentFields, TurnFields
    <3>2. c' = [s EXCEPT !.turns[g] = t]
      BY <2>4 DEF Tally, Record, Fields
    <3>. HIDE DEF s, t
    <3>. QED  BY <2>1, <3>1, <3>2, MovesTally
  <2>. QED  BY <1>3, <2>2, <2>3, <2>4 DEF Inbox
<1>4. CASE Inference(g)
  <2>1. c.turns[g].pc = "inference"
    BY <1>4 DEF Inference
  <2>2. CASE \E pc \in {"unwinding", "boundary"} : Goes(g, pc) /\ UNCHANGED <<used, rode, shed>>
    BY <2>1, <2>2, GoesTallies
  <2>3. CASE Fails(g)
    BY <2>1, <2>3, FailsTallies
  <2>. DEFINE t == [c.turns[g] EXCEPT !.pc = "boundary"]
  <2>4. t.pc = "boundary" /\ t.rides = c.turns[g].rides
    BY DEF Tally, Record, TurnFields
  <2>5. ASSUME NEW work, c' = [c EXCEPT !.turns[g].pc = "boundary", !.blocked = FALSE,
                                        !.resume = FALSE, !.work = work],
               UNCHANGED <<used, rode, shed>>
        PROVE  Tallied
    <3>. DEFINE s == [c EXCEPT !.blocked = FALSE, !.resume = FALSE, !.work = work]
    <3>1. Keeps(c, s) /\ s.closing = c.closing /\ s.stopped = c.stopped /\ s.events = c.events
      BY DEF Keeps, Tally, Record, Fields, AssignmentFields
    <3>2. c' = [s EXCEPT !.turns[g] = t]
      BY <2>5 DEF Tally, Record, Fields
    <3>. HIDE DEF s, t
    <3>. QED  BY <2>1, <2>4, <2>5, <3>1, <3>2, MovesTally
  <2>6. CASE c' = [c EXCEPT !.turns[g].pc = "boundary", !.blocked = TRUE] /\ UNCHANGED <<used, rode, shed>>
    <3>. DEFINE s == [c EXCEPT !.blocked = TRUE]
    <3>1. Keeps(c, s) /\ s.closing = c.closing /\ s.stopped = c.stopped /\ s.events = c.events
      BY DEF Keeps, Tally, Record, Fields, AssignmentFields
    <3>2. c' = [s EXCEPT !.turns[g] = t]
      BY <2>6 DEF Tally, Record, Fields
    <3>. HIDE DEF s, t
    <3>. QED  BY <2>1, <2>4, <2>6, <3>1, <3>2, MovesTally
  <2>. QED  BY <1>4, <2>2, <2>3, <2>5, <2>6 DEF Inference, turnRest
<1>5. CASE Boundary(g)
  <2>1. c.turns[g].pc = "boundary" /\ UNCHANGED <<used, rode, shed>>
    BY <1>5 DEF Boundary, turnRest
  <2>2. CASE c' = [c EXCEPT !.turns[g].pc = "inbox"]
    BY <2>1, <2>2, GoesTallies DEF Goes
  <2>. DEFINE d == DrainWatch(c)
              s == [d EXCEPT !.queue = <<>>]
              t == [c.turns[g] EXCEPT !.pc = "feeding", !.inject = c.queue, !.rides = ToSet(c.events)]
  <2>3. CASE ~c.closing /\ c' = [d EXCEPT !.queue = <<>>,
                     !.turns[g] = [@ EXCEPT !.pc = "feeding", !.inject = c.queue,
                                            !.rides = ToSet(c.events)]]
    <3>1. Keeps(c, d) /\ d.closing = c.closing /\ d.stopped = c.stopped /\ d.events = <<>>
      BY DrainLemma DEF Tally, DrainWatch, Record, Fields
    <3>2. t.pc = "feeding" /\ t.rides = ToSet(c.events)
      BY DEF Tally, Record, TurnFields
    <3>3. c.turns[g].rides = {}
      BY <2>1, <2>3 DEF Tally, Loads
    <3>. HIDE DEF d
    <3>4. Keeps(c, s) /\ s.closing = c.closing /\ s.stopped = c.stopped /\ s.events = <<>>
      BY <3>1 DEF Keeps, Record, Fields, AssignmentFields
    <3>5. c' = [s EXCEPT !.turns[g] = t]
      BY <2>3, <3>1 DEF Keeps, Record, Fields
    <3>. HIDE DEF s, t
    <3>. QED  BY <2>1, <3>2, <3>3, <3>4, <3>5, NoEvents, TurnTallies DEF Missed
  <2>. QED  BY <1>5, <2>2, <2>3 DEF Boundary
<1>6. CASE Feeding(g)
  <2>. DEFINE t == [c.turns[g] EXCEPT !.inject = Tail(@)]
              u == [c.turns[g] EXCEPT !.pc = "inbox", !.rides = {}]
  <2>1. /\ c.turns[g].pc = "feeding" /\ Keeps(c, c)
        /\ t.pc = "feeding" /\ t.rides = c.turns[g].rides
        /\ u.pc = "inbox" /\ u.rides = {}
    BY <1>6 DEF Feeding, Tally, Record, Keeps, TurnFields
  <2>2. CASE c' = [c EXCEPT !.turns[g] = t] /\ UNCHANGED <<used, rode, shed>>
    <3>. HIDE DEF t
    <3>. QED  BY <2>1, <2>2, MovesTally
  <2>3. CASE c' = [c EXCEPT !.turns[g] = u] /\ rode' = rode \cup c.turns[g].rides /\ UNCHANGED <<used, shed>>
    <3>. HIDE DEF u
    <3>. QED  BY <2>1, <2>3, TurnTallies DEF Tally, Loads, Missed
  <2>4. CASE Fails(g)
    BY <2>1, <2>4, FailsTallies
  <2>. QED  BY <1>6, <2>2, <2>3, <2>4 DEF Feeding, turnRest
<1>7. CASE Unwinding(g)
  <2>. DEFINE s == Requeue(c, Held(c.turns[g]))
              t == [NoTurn EXCEPT !.pc = "finishing", !.job = c.turns[g].job,
                                  !.wake = c.turns[g].wake]
  <2>1. Keeps(c, s) /\ s.closing = c.closing /\ s.stopped = c.stopped /\ s.events = c.events
    BY RequeueLemma DEF Tally, Requeue, Record, Fields
  <2>2. t.pc = "finishing" /\ t.rides = {}
    BY DEF NoTurn
  <2>3. c.turns[g].pc = "unwinding" /\ c' = [s EXCEPT !.turns[g] = t] /\ UNCHANGED <<used, rode, shed>>
    BY <1>7 DEF Unwinding, turnRest
  <2>4. c.closing \/ c.turns[g].rides = {}
    BY <2>3 DEF Tally, Loads
  <2>. HIDE DEF s, t
  <2>. QED  BY <2>1, <2>2, <2>3, <2>4, TurnTallies DEF Tally, Loads, Missed
<1>8. CASE Compacting(g)
  BY <1>8, GoesTallies DEF Compacting, turnRest
<1>9. CASE Finishing(g)
  <2>. DEFINE s == [c EXCEPT !.turns[g] = NoTurn]
              t == [s EXCEPT !.running = FALSE, !.stopped = FALSE]
              n == StartNext(t, c.stopped)
  <2>1. c.turns[g].pc = "finishing" /\ g = c.gen /\ UNCHANGED <<used, rode, shed>>
    BY <1>9 DEF Finishing, Tally, Root, Single
  <2>2. /\ Record(s) /\ s.turns = [c.turns EXCEPT ![g] = NoTurn] /\ s.gen = c.gen
        /\ s.asg = c.asg /\ s.events = c.events /\ s.closing = c.closing
        /\ s.switching = c.switching
    BY NoTurnLemma DEF Tally, Record, Fields
  <2>3. /\ Record(t) /\ t.turns = s.turns /\ t.gen = s.gen /\ t.asg = s.asg /\ ~t.running
        /\ ~t.stopped /\ t.events = s.events /\ t.closing = s.closing /\ t.switching = s.switching
    <3>. HIDE DEF s
    <3>. QED  BY <2>2 DEF Record, Fields
  <2>. HIDE DEF s, t
  <2>4. NoTurn.rides = {} /\ NoTurn.pc = "off"
    BY DEF NoTurn
  <2>5. Single(t)
    BY <2>1, <2>2, <2>3, <2>4 DEF Tally, Root, Single, Record
  <2>6. Carries(c, t)
    <3>1. Loads(t)
      BY <2>1, <2>2, <2>3, <2>4 DEF Tally, Loads, Record
    <3>2. ASSUME ~c.closing PROVE Carried(t) = Carried(c)
      <4>1. \A h \in Turns : t.turns[h].rides = c.turns[h].rides
        BY <2>1, <2>2, <2>3, <2>4, <3>2 DEF Tally, Loads, Record
      <4>. QED  BY <2>2, <2>3, <4>1 DEF Carried
    <3>. QED  BY <2>2, <2>3, <3>1, <3>2 DEF Carries
  <2>7. Carries(t, n)
    <3>1. Loads(t)
      BY <2>6 DEF Carries
    <3>. QED  BY <2>3, <2>5, <3>1, StartNextCarries
  <2>8. ~NeedsFollowUp(t) /\ ~OpenAssignment(n)
    BY <2>2, <2>3, <2>7 DEF NeedsFollowUp, OpenAssignment, HasAssignment, Carries, Loads, Tally
  <2>9. c' = n
    <3>. HIDE DEF n
    <3>. QED  BY <1>9, <2>1, <2>8 DEF Finishing, n, t, s
  <2>. QED  BY <2>1, <2>6, <2>7, <2>9, CarriesTwice, CarriedTallies DEF SpendsOther
<1>. QED  BY <1>1, <1>2, <1>3, <1>4, <1>5, <1>6, <1>7, <1>8, <1>9 DEF TurnStep

LEMMA RunnerTallies ==
  ASSUME Tally, ViewReady \/ \E j \in Jobs : RunnerStep(j) \/ CancelJob(j)
  PROVE  Tallied
<1>1. CASE ViewReady
  <2>1. PICK outcome : c' = [c EXCEPT !.view = outcome]
    BY <1>1 DEF ViewReady
  <2>2. /\ c'.turns = c.turns /\ c'.asg.job = c.asg.job /\ c'.events = c.events
        /\ c'.closing = c.closing /\ c'.stopped = c.stopped
    BY <2>1 DEF Tally, Record, Fields
  <2>. QED  BY <1>1, <2>2, KeptTallies DEF ViewReady, runnerRest, Tally, Loads, SpendsOther
<1>2. ASSUME NEW j \in Jobs, RunnerStep(j) \/ CancelJob(j) PROVE FALSE
  <2>1. runner[j].pc = "none" /\ c.asg.job # j
    BY BoundsAssumption DEF Tally, Root, Jobs
  <2>. QED  BY <1>2, <2>1 DEF RunnerStep, Claim, BindFails, Attach, Begin, Done, ContextEnds, CancelJob
<1>. QED  BY <1>1, <1>2

\* Every watch event is waiting, rides along with a turn, has reached the session, was
\* dropped by a full queue or was lost with a turn that failed before it appended what
\* it took along: neither the timer, a turn that begins, drains at a tool round or
\* ends, nor a session switch loses one.
THEOREM EventsAreAccounted ==
  ~IsChild /\ ~HasPlan /\ MaxCancels = 0 => (Spec => []EventsAccounted)
<1>. SUFFICES ASSUME ~IsChild, ~HasPlan, MaxCancels = 0
              PROVE  Spec => []EventsAccounted
  OBVIOUS
<1>1. Init => Tally
  <2>. SUFFICES ASSUME Init PROVE Tally
    OBVIOUS
  <2>1. Record(c) /\ Root
    BY InitRecord, InitRoot
  <2>2. /\ Loads(c) /\ ToSet(c.events) = {} /\ \A g \in Turns : c.turns[g].rides = {}
    BY NoEvents DEF Init, Loads, NoTurn, NewAssignment
  <2>3. Carried(c) = {}
    BY <2>2 DEF Carried
  <2>4. /\ DOMAIN used = {"events", "inbox", "cancels", "compacts", "switches"}
        /\ used.cancels = 0 /\ used.events = 0 /\ rode = {} /\ Missed = {}
        /\ DOMAIN shed = {"full", "failed"}
    BY DEF Init, Missed
  <2>5. 1..0 = {}
    OBVIOUS
  <2>. QED  BY <2>1, <2>2, <2>3, <2>4, <2>5 DEF Tally
<1>2. Tally /\ [Next]_vars => Tally'
  <2>. SUFFICES ASSUME Tally, [Next]_vars PROVE Tally'
    OBVIOUS
  <2>1. CASE Next
    <3>1. Record(c') /\ Root'
      BY <2>1, NextGood DEF Tally, Good
    <3>2. Tallied
      BY <2>1, UserTallies, BackgroundTallies, TurnStepTallies, RunnerTallies DEF Next
    <3>. QED  BY <3>1, <3>2 DEF Tallied
  <2>2. CASE UNCHANGED vars
    BY <2>2 DEF vars, Tally, Record, Root, Single, Loads, Carried, Missed
  <2>. QED  BY <2>1, <2>2
<1>3. Tally => EventsAccounted
  BY DEF Tally, EventsAccounted, Carried, Missed
<1>. QED  BY <1>1, <1>2, <1>3, PTL DEF Spec


(***************************************************************************)
(* Prompts of the controller the user drives, while it has a model: what   *)
(* the session holds, what a turn holds and what waits, one behind the     *)
(* other, are in the order in which the prompts were accepted.             *)
(***************************************************************************)

\* x was accepted before y.
Before(a, x, y) == \E m, n \in DOMAIN a : m < n /\ a[m] = x /\ a[n] = y
Ahead(a, X, Y) == \A x \in X, y \in Y : Before(a, x, y)
Sorted(a, q) == \A i, k \in DOMAIN q : i < k => Before(a, q[i], q[k])
Once(a) == a \in Seq(Prompts) /\ \A m, n \in DOMAIN a : a[m] = a[n] => m = n

LEMMA BeforeApart ==
  ASSUME NEW a, Once(a), NEW x, NEW y, Before(a, x, y)
  PROVE  x # y
BY DEF Once, Before

LEMMA Joined ==
  ASSUME NEW a, NEW q \in Seq(Prompts), NEW r \in Seq(Prompts), Sorted(a, q), Sorted(a, r),
         Ahead(a, ToSet(q), ToSet(r))
  PROVE  /\ q \o r \in Seq(Prompts) /\ ToSet(q \o r) = ToSet(q) \cup ToSet(r)
         /\ Sorted(a, q \o r)
<1>. DEFINE b == q \o r
<1>1. b \in Seq(Prompts) /\ Len(b) = Len(q) + Len(r)
  OBVIOUS
<1>2. \A i \in 1..Len(q) : b[i] = q[i]
  OBVIOUS
<1>3. \A i \in 1..Len(r) : b[Len(q) + i] = r[i]
  OBVIOUS
<1>4. /\ DOMAIN b = 1..Len(b) /\ DOMAIN q = 1..Len(q) /\ DOMAIN r = 1..Len(r)
      /\ Len(q) \in Nat /\ Len(r) \in Nat
  BY <1>1
<1>. HIDE DEF b
<1>5. \A i \in DOMAIN b : \/ i \in DOMAIN q /\ b[i] = q[i]
                          \/ i - Len(q) \in DOMAIN r /\ b[i] = r[i - Len(q)] /\ i > Len(q)
  <2>. SUFFICES ASSUME NEW i \in DOMAIN b, i \notin DOMAIN q
                PROVE  i - Len(q) \in DOMAIN r /\ b[i] = r[i - Len(q)] /\ i > Len(q)
    BY <1>2, <1>4
  <2>1. i - Len(q) \in 1..Len(r) /\ i > Len(q) /\ i = Len(q) + (i - Len(q))
    BY <1>1, <1>4
  <2>. QED  BY <1>3, <1>4, <2>1
<1>6. ToSet(b) = ToSet(q) \cup ToSet(r)
  <2>1. ToSet(b) \subseteq ToSet(q) \cup ToSet(r)
    BY <1>5 DEF ToSet
  <2>2. ToSet(q) \subseteq ToSet(b)
    BY <1>1, <1>2, <1>4 DEF ToSet
  <2>3. ToSet(r) \subseteq ToSet(b)
    <3>1. \A i \in DOMAIN r : Len(q) + i \in DOMAIN b /\ b[Len(q) + i] = r[i]
      BY <1>1, <1>3, <1>4
    <3>. QED  BY <3>1, Zenon DEF ToSet
  <2>. QED  BY <2>1, <2>2, <2>3
<1>7. Sorted(a, b)
  <2>. SUFFICES ASSUME NEW i \in DOMAIN b, NEW k \in DOMAIN b, i < k
                PROVE  Before(a, b[i], b[k])
    BY DEF Sorted
  <2>1. CASE i \in DOMAIN q /\ k \in DOMAIN q
    BY <1>2, <1>4, <2>1 DEF Sorted
  <2>2. CASE i \in DOMAIN q /\ k \notin DOMAIN q
    <3>1. b[i] \in ToSet(q) /\ b[k] \in ToSet(r)
      BY <1>2, <1>4, <1>5, <2>2 DEF ToSet
    <3>. QED  BY <3>1 DEF Ahead
  <2>3. CASE i \notin DOMAIN q
    <3>1. k \notin DOMAIN q /\ i - Len(q) < k - Len(q)
      BY <1>1, <1>4, <2>3
    <3>. QED  BY <1>5, <2>3, <3>1 DEF Sorted
  <2>. QED  BY <2>1, <2>2, <2>3
<1>. QED  BY <1>1, <1>6, <1>7 DEF b

LEMMA Alone ==
  ASSUME NEW a, NEW x \in Prompts
  PROVE  <<x>> \in Seq(Prompts) /\ ToSet(<<x>>) = {x} /\ Sorted(a, <<x>>)
BY DEF ToSet, Sorted

LEMMA Appended ==
  ASSUME NEW a, NEW q \in Seq(Prompts), Sorted(a, q), NEW x \in Prompts, Ahead(a, ToSet(q), {x})
  PROVE  /\ Append(q, x) \in Seq(Prompts) /\ ToSet(Append(q, x)) = ToSet(q) \cup {x}
         /\ Sorted(a, Append(q, x))
<1>. DEFINE r == <<x>>
<1>1. Append(q, x) = q \o r
  OBVIOUS
<1>2. r \in Seq(Prompts) /\ ToSet(r) = {x} /\ Sorted(a, r)
  BY Alone
<1>. HIDE DEF r
<1>3. Ahead(a, ToSet(q), ToSet(r))
  BY <1>2
<1>4. q \o r \in Seq(Prompts) /\ ToSet(q \o r) = ToSet(q) \cup ToSet(r) /\ Sorted(a, q \o r)
  BY <1>2, <1>3, Joined
<1>. QED  BY <1>1, <1>2, <1>4

LEMMA Nobody ==
  ASSUME NEW a
  PROVE  <<>> \in Seq(Prompts) /\ ToSet(<<>>) = {} /\ Sorted(a, <<>>)
BY DEF ToSet, Sorted

LEMMA First ==
  ASSUME NEW a, NEW q \in Seq(Prompts), q # <<>>, Sorted(a, q)
  PROVE  /\ Head(q) \in Prompts /\ Tail(q) \in Seq(Prompts)
         /\ ToSet(q) = {Head(q)} \cup ToSet(Tail(q))
         /\ Sorted(a, Tail(q)) /\ Ahead(a, {Head(q)}, ToSet(Tail(q)))
<1>1. /\ Head(q) = q[1] /\ Tail(q) \in Seq(Prompts) /\ Len(q) \in Nat /\ Len(q) >= 1
      /\ Len(Tail(q)) = Len(q) - 1
      /\ \A i \in 1..(Len(q) - 1) : Tail(q)[i] = q[i + 1]
  OBVIOUS
<1>2. DOMAIN q = 1..Len(q) /\ DOMAIN Tail(q) = 1..(Len(q) - 1)
  BY <1>1
<1>3. ToSet(q) \subseteq {Head(q)} \cup ToSet(Tail(q))
  <2>1. ASSUME NEW i \in DOMAIN q PROVE q[i] \in {Head(q)} \cup ToSet(Tail(q))
    <3>1. CASE i = 1
      BY <1>1, <3>1
    <3>2. CASE i # 1
      <4>1. i - 1 \in DOMAIN Tail(q) /\ Tail(q)[i - 1] = q[i]
        BY <1>1, <1>2, <3>2
      <4>. QED  BY <4>1, Zenon DEF ToSet
    <3>. QED  BY <3>1, <3>2
  <2>. QED  BY <2>1, Zenon DEF ToSet
<1>4. ToSet(Tail(q)) \subseteq ToSet(q) /\ Head(q) \in ToSet(q)
  BY <1>1, <1>2 DEF ToSet
<1>5. Sorted(a, Tail(q))
  BY <1>1, <1>2 DEF Sorted
<1>6. Ahead(a, {Head(q)}, ToSet(Tail(q)))
  BY <1>1, <1>2 DEF Sorted, Ahead, ToSet
<1>. QED  BY <1>1, <1>2, <1>3, <1>4, <1>5, <1>6

LEMMA Final ==
  ASSUME NEW a, NEW q \in Seq(Prompts), q # <<>>, Sorted(a, q)
  PROVE  /\ Last(q) \in Prompts /\ Front(q) \in Seq(Prompts)
         /\ ToSet(q) = ToSet(Front(q)) \cup {Last(q)}
         /\ Sorted(a, Front(q)) /\ Ahead(a, ToSet(Front(q)), {Last(q)})
<1>1. Len(q) \in Nat /\ Len(q) >= 1 /\ DOMAIN q = 1..Len(q)
  OBVIOUS
<1>2. /\ Front(q) \in Seq(Prompts) /\ Len(Front(q)) = Len(q) - 1
      /\ \A i \in 1..(Len(q) - 1) : Front(q)[i] = q[i]
  BY <1>1 DEF Front
<1>3. DOMAIN Front(q) = 1..(Len(q) - 1) /\ Last(q) = q[Len(q)]
  BY <1>2 DEF Last
<1>4. ToSet(q) \subseteq ToSet(Front(q)) \cup {Last(q)}
  <2>1. \A i \in DOMAIN q : \/ i = Len(q)
                            \/ i \in DOMAIN Front(q) /\ Front(q)[i] = q[i]
    BY <1>1, <1>2, <1>3
  <2>. QED  BY <1>3, <2>1 DEF ToSet
<1>5. ToSet(Front(q)) \subseteq ToSet(q) /\ Last(q) \in ToSet(q)
  BY <1>1, <1>2, <1>3 DEF ToSet
<1>6. Sorted(a, Front(q)) /\ Ahead(a, ToSet(Front(q)), {Last(q)})
  BY <1>1, <1>2, <1>3 DEF Sorted, Ahead, ToSet
<1>. QED  BY <1>1, <1>2, <1>3, <1>4, <1>5, <1>6

\* A prompt accepted now comes after all others and leaves their order alone.
LEMMA Accepting ==
  ASSUME NEW a, Once(a), NEW p \in Prompts, p \notin ToSet(a)
  PROVE  LET b == Append(a, p) IN
         /\ Once(b) /\ ToSet(b) = ToSet(a) \cup {p}
         /\ \A x, y : Before(a, x, y) => Before(b, x, y)
         /\ Ahead(b, ToSet(a), {p})
<1>. DEFINE b == Append(a, p)
<1>1. /\ b \in Seq(Prompts) /\ Len(b) = Len(a) + 1 /\ b[Len(a) + 1] = p
      /\ Len(a) \in Nat /\ DOMAIN a = 1..Len(a)
  BY DEF Once
<1>2. \A i \in 1..Len(a) : b[i] = a[i]
  BY DEF Once
<1>3. DOMAIN b = 1..(Len(a) + 1)
  BY <1>1
<1>. HIDE DEF b
<1>4. \A i \in DOMAIN b : \/ i \in DOMAIN a /\ b[i] = a[i]
                          \/ i = Len(a) + 1 /\ b[i] = p
  BY <1>1, <1>2, <1>3
<1>5. ToSet(b) = ToSet(a) \cup {p}
  <2>1. ToSet(b) \subseteq ToSet(a) \cup {p}
    BY <1>4 DEF ToSet
  <2>2. ToSet(a) \cup {p} \subseteq ToSet(b)
    BY <1>1, <1>2, <1>3 DEF ToSet
  <2>. QED  BY <2>1, <2>2
<1>6. Once(b)
  <2>1. \A i \in DOMAIN a : a[i] # p
    BY DEF ToSet
  <2>. QED  BY <1>1, <1>4, <2>1 DEF Once
<1>7. \A x, y : Before(a, x, y) => Before(b, x, y)
  BY <1>1, <1>2, <1>3 DEF Before
<1>8. Ahead(b, ToSet(a), {p})
  BY <1>1, <1>2, <1>3 DEF Ahead, Before, ToSet
<1>. QED  BY <1>5, <1>6, <1>7, <1>8 DEF b


\* What a turn holds: its opening prompt until that is appended, or what it drained.
Hand(t) == ToSet(t.inject) \cup ({t.prompt} \ {None})
Hands(s) == UNION {Hand(s.turns[g]) : g \in Turns}
Kept(s) == Hands(s) \cup ToSet(s.queue)

Holds(t, a) ==
  /\ t.prompt \in Prompts \cup {None} /\ t.inject \in Seq(Prompts) /\ Sorted(a, t.inject)
  /\ t.prompt # None => t.pc \in {"delay", "opening", "unwinding"} /\ t.inject = <<>>
  /\ t.inject # <<>> => t.pc \in {"feeding", "unwinding"}

\* The line behind the session's log l.
Lined(s, a, l) ==
  /\ s.asg.job = 0 /\ s.model
  /\ s.queue \in Seq(Prompts) /\ Sorted(a, s.queue)
  /\ \A g \in Turns : Holds(s.turns[g], a)
  /\ Kept(s) \subseteq ToSet(a)
  /\ Ahead(a, ToSet(l), Kept(s)) /\ Ahead(a, Hands(s), ToSet(s.queue))
  /\ s.closing => s.queue = <<>>

\* The line moves on without a change of what is kept.
Follows(s, t, a, l) == Lined(t, a, l) /\ Kept(t) = Kept(s) /\ t.closing = s.closing

\* Somebody will take what waits.
Attended(s) == s.queue = <<>> \/ s.closing \/ s.running \/ s.switching

LEMMA KeptFollows ==
  ASSUME NEW a, NEW l, NEW s, Lined(s, a, l), NEW t, t.turns = s.turns, t.queue = s.queue,
         t.asg.job = s.asg.job, t.model = s.model, t.closing = s.closing
  PROVE  Follows(s, t, a, l)
BY DEF Follows, Lined, Kept, Hands

LEMMA EmptyHand ==
  ASSUME NEW a, NEW t, Holds(t, a), t.pc \notin {"delay", "opening", "unwinding", "feeding"}
  PROVE  Hand(t) = {}
<1>1. t.prompt = None /\ t.inject = <<>>
  BY DEF Holds
<1>. QED  BY <1>1, Nobody DEF Hand

LEMMA OneHand ==
  ASSUME NEW a, NEW s, Single(s), \A h \in Turns : Holds(s.turns[h], a),
         NEW g \in Turns, s.turns[g].pc # "off"
  PROVE  Hands(s) = Hand(s.turns[g])
<1>1. \A h \in Turns \ {g} : Hand(s.turns[h]) = {}
  <2>. SUFFICES ASSUME NEW h \in Turns \ {g} PROVE Hand(s.turns[h]) = {}
    OBVIOUS
  <2>1. s.turns[h].pc = "off"
    BY DEF Single
  <2>. QED  BY <2>1, EmptyHand
<1>. QED  BY <1>1 DEF Hands

LEMMA NoHands ==
  ASSUME NEW a, NEW s, Single(s), \A h \in Turns : Holds(s.turns[h], a), ~s.running
  PROVE  Hands(s) = {}
<1>1. \A h \in Turns : Hand(s.turns[h]) = {}
  <2>. SUFFICES ASSUME NEW h \in Turns PROVE Hand(s.turns[h]) = {}
    OBVIOUS
  <2>1. s.turns[h].pc = "off"
    BY DEF Single
  <2>. QED  BY <2>1, EmptyHand
<1>. QED  BY <1>1 DEF Hands

\* A start by the plan or by a wake opens no prompt.
LEMMA SilentStart ==
  ASSUME NEW s, Record(s), Single(s), NEW a, NEW l, Lined(s, a, l), ~s.running,
         NEW owed, NEW wake
  PROVE  LET t == StartPrompt(s, None, owed, wake) IN
         Follows(s, t, a, l) /\ t.queue = s.queue /\ t.switching = s.switching
<1>. DEFINE d == DrainWatch(s)
            g == CHOOSE g \in Turns \ {s.gen} : s.turns[g].pc = "off"
            new == [NoTurn EXCEPT !.pc = "delay", !.prompt = None, !.owed = owed, !.wake = wake,
                                  !.rides = ToSet(s.events), !.job = s.asg.job]
            u == [d EXCEPT !.running = TRUE, !.stopped = FALSE, !.blocked = FALSE,
                          !.resume = FALSE, !.gen = g,
                          !.turns[g] = new,
                          !.asg.turn = IF HasAssignment(s) THEN "running" ELSE @]
<1>1. ~HasAssignment(s)
  BY DEF HasAssignment, Lined
<1>2. \/ StartPrompt(s, None, owed, wake) = Requeue(s, <<>>)
      \/ StartPrompt(s, None, owed, wake) = u
  BY <1>1 DEF StartPrompt, Owed
<1>3. LET t == Requeue(s, <<>>) IN Follows(s, t, a, l) /\ t.queue = s.queue /\ t.switching = s.switching
  <2>1. s.queue \in Seq(Prompts)
    BY DEF Lined
  <2>2. <<>> \o s.queue = s.queue
    BY <2>1
  <2>. DEFINE t == Requeue(s, <<>>)
  <2>3. /\ t.turns = s.turns /\ t.queue = s.queue /\ t.asg = s.asg /\ t.model = s.model
        /\ t.closing = s.closing /\ t.switching = s.switching
    BY <2>2 DEF Requeue, Record, Fields
  <2>. HIDE DEF t
  <2>4. Follows(s, t, a, l)
    BY <2>3, KeptFollows
  <2>. QED  BY <2>3, <2>4 DEF t
<1>4. Follows(s, u, a, l) /\ u.queue = s.queue /\ u.switching = s.switching
  <2>1. /\ Record(d) /\ d.turns = s.turns /\ d.queue = s.queue /\ d.closing = s.closing
        /\ d.asg = s.asg /\ d.model = s.model /\ d.switching = s.switching
    BY DrainLemma DEF Keeps, Record, Fields, DrainWatch
  <2>2. new.prompt = None /\ new.inject = <<>>
    BY DEF NoTurn
  <2>. HIDE DEF g, new, d
  <2>3. /\ u.turns = [s.turns EXCEPT ![g] = new] /\ u.queue = s.queue
        /\ u.closing = s.closing /\ u.asg.job = s.asg.job /\ u.model = s.model
        /\ u.switching = s.switching
    BY <2>1 DEF Record, Fields, AssignmentFields
  <2>. HIDE DEF u
  <2>4. Hand(new) = {} /\ Holds(new, a)
    BY <2>2, Nobody DEF Hand, Holds
  <2>5. \A h \in Turns : Holds(u.turns[h], a) /\ Hand(u.turns[h]) \in {{}, Hand(s.turns[h])}
    BY <2>3, <2>4 DEF Lined, Record
  <2>6. Hands(s) = {}
    BY NoHands DEF Lined
  <2>7. Hands(u) = {}
    BY <2>5, <2>6 DEF Hands
  <2>. QED  BY <2>3, <2>5, <2>6, <2>7 DEF Lined, Follows, Kept
<1>. HIDE DEF u
<1>. QED  BY <1>2, <1>3, <1>4

\* A start with a prompt puts it into the hand of the new turn.
Free(s) == ~s.running /\ ~s.closing /\ ~s.switching
Between(p, a, l, q) == p \in ToSet(a) /\ Ahead(a, ToSet(l), {p}) /\ Ahead(a, {p}, ToSet(q))
Opens(s, t, p, a, l) ==
  /\ Lined(t, a, l) /\ Kept(t) = {p} \cup Kept(s)
  /\ t.queue = s.queue /\ t.closing = s.closing /\ t.running

LEMMA SpokenStart ==
  ASSUME NEW s, Record(s), Single(s), NEW a, NEW l, Lined(s, a, l), Free(s),
         NEW p \in Prompts, Between(p, a, l, s.queue), NEW owed, NEW wake
  PROVE  Opens(s, StartPrompt(s, p, owed, wake), p, a, l)
<1>. DEFINE d == DrainWatch(s)
            g == CHOOSE g \in Turns \ {s.gen} : s.turns[g].pc = "off"
            new == [NoTurn EXCEPT !.pc = "delay", !.prompt = p, !.owed = owed, !.wake = wake,
                                  !.rides = ToSet(s.events), !.job = s.asg.job]
            u == [d EXCEPT !.running = TRUE, !.stopped = FALSE, !.blocked = FALSE,
                          !.resume = FALSE, !.gen = g,
                          !.turns[g] = new,
                          !.asg.turn = IF HasAssignment(s) THEN "running" ELSE @]
<1>. USE DEF Free, Between
<1>1. ~HasAssignment(s) /\ s.model
  BY DEF HasAssignment, Lined
<1>2. StartPrompt(s, p, owed, wake) = u
  BY <1>1 DEF StartPrompt
<1>3. /\ Record(d) /\ d.turns = s.turns /\ d.queue = s.queue /\ d.closing = s.closing
      /\ d.asg = s.asg /\ d.model = s.model
  BY DrainLemma DEF Keeps, Record, Fields, DrainWatch
<1>4. new.prompt = p /\ new.inject = <<>> /\ new.pc = "delay"
  BY DEF NoTurn
<1>5. \A h \in Turns : s.turns[h].pc = "off"
  BY DEF Single
<1>6. g \in Turns
  BY <1>5 DEF Turns
<1>. HIDE DEF g, new, d
<1>7. /\ u.turns = [s.turns EXCEPT ![g] = new] /\ u.queue = s.queue
      /\ u.closing = s.closing /\ u.asg.job = s.asg.job /\ u.model = s.model /\ u.running
  BY <1>3 DEF Record, Fields, AssignmentFields
<1>. HIDE DEF u
<1>8. Hand(new) = {p} /\ Holds(new, a)
  BY <1>4, Nobody, NoneAssumption DEF Hand, Holds
<1>9. Hands(s) = {}
  BY NoHands DEF Lined
<1>10. Hands(u) = {p}
  <2>1. \A h \in Turns \ {g} : u.turns[h] = s.turns[h] /\ Hand(s.turns[h]) = {}
    BY <1>7, <1>9 DEF Hands, Record
  <2>2. u.turns[g] = new
    BY <1>6, <1>7 DEF Record
  <2>. QED  BY <1>6, <1>8, <2>1, <2>2 DEF Hands
<1>11. \A h \in Turns : Holds(u.turns[h], a)
  BY <1>7, <1>8 DEF Lined, Record
<1>. QED  BY <1>2, <1>7, <1>9, <1>10, <1>11 DEF Lined, Kept, Ahead, Opens

LEMMA FollowsTwice ==
  ASSUME NEW a, NEW l, NEW s, NEW t, NEW u, Follows(s, t, a, l), Follows(t, u, a, l)
  PROVE  Follows(s, u, a, l)
BY DEF Follows

LEMMA ResumeFollows ==
  ASSUME NEW s, Record(s), Single(s), NEW a, NEW l, Lined(s, a, l)
  PROVE  LET t == MaybeResume(s) IN
         Follows(s, t, a, l) /\ t.queue = s.queue /\ t.switching = s.switching
<1>. DEFINE r == [s EXCEPT !.resume = s.resume /\ s.work]
<1>1. /\ Record(r) /\ Keeps(s, r) /\ r.queue = s.queue /\ r.closing = s.closing
      /\ r.model = s.model
  BY DEF Keeps, Record, Fields, AssignmentFields
<1>2. \/ MaybeResume(s) \in {s, r}
      \/ MaybeResume(s) = StartPrompt(r, None, FALSE, FALSE) /\ ~s.running
  BY DEF MaybeResume
<1>. HIDE DEF r
<1>3. Follows(s, r, a, l) /\ Follows(s, s, a, l)
  BY <1>1, KeptFollows DEF Keeps, Follows
<1>4. Single(r) /\ Lined(r, a, l) /\ r.switching = s.switching /\ r.running = s.running
  BY <1>1, <1>3, KeepsSingle DEF Follows, Keeps
<1>5. CASE MaybeResume(s) \in {s, r}
  BY <1>1, <1>3, <1>4, <1>5
<1>6. CASE MaybeResume(s) = StartPrompt(r, None, FALSE, FALSE) /\ ~s.running
  <2>1. LET t == StartPrompt(r, None, FALSE, FALSE) IN
        Follows(r, t, a, l) /\ t.queue = r.queue /\ t.switching = r.switching
    <3>1. Record(r) /\ Single(r) /\ Lined(r, a, l) /\ ~r.running
      BY <1>1, <1>4, <1>6
    <3>. QED  BY <3>1, SilentStart
  <2>. QED  BY <1>1, <1>3, <1>4, <1>6, <2>1, FollowsTwice
<1>. QED  BY <1>2, <1>5, <1>6

\* Whoever ends a turn or a switch leaves nobody waiting in an idle controller.
LEMMA NextFollows ==
  ASSUME NEW s, Record(s), Single(s), NEW a, Once(a), NEW l, Lined(s, a, l), ~s.running, NEW stopped
  PROVE  LET t == StartNext(s, stopped) IN Follows(s, t, a, l) /\ Attended(t)
<1>. DEFINE q == [s EXCEPT !.queue = Tail(@)]
            m == IF ~stopped \/ ~HasAssignment(s) THEN MaybeResume(s) ELSE s
            w == [m EXCEPT !.streak = @ + 1]
            first == StartPrompt(q, Head(s.queue), TRUE, FALSE)
            last == StartPrompt(w, None, FALSE, TRUE)
<1>1. Follows(s, s, a, l)
  BY DEF Follows
<1>2. CASE s.closing \/ s.switching
  <2>1. StartNext(s, stopped) = s
    BY <1>2 DEF StartNext, Admissible
  <2>. QED  BY <1>1, <1>2, <2>1 DEF Attended
<1>3. ASSUME ~s.closing, ~s.switching, s.queue # <<>>
      PROVE  LET t == StartNext(s, stopped) IN Follows(s, t, a, l) /\ Attended(t)
  <2>1. StartNext(s, stopped) = first
    BY <1>3 DEF StartNext, Admissible, HasAssignment, Lined
  <2>2. /\ Record(q) /\ Keeps(s, q) /\ q.queue = Tail(s.queue) /\ q.closing = s.closing
        /\ q.model = s.model
    BY DEF Keeps, Record, Fields, AssignmentFields
  <2>3. /\ Head(s.queue) \in Prompts /\ Tail(s.queue) \in Seq(Prompts)
        /\ ToSet(s.queue) = {Head(s.queue)} \cup ToSet(Tail(s.queue))
        /\ Sorted(a, Tail(s.queue)) /\ Ahead(a, {Head(s.queue)}, ToSet(Tail(s.queue)))
    BY <1>3, First DEF Lined
  <2>. HIDE DEF q
  <2>4. Hands(q) = Hands(s) /\ Kept(s) = {Head(s.queue)} \cup Kept(q)
    BY <2>2, <2>3 DEF Hands, Kept, Keeps
  <2>5. Lined(q, a, l)
    BY <1>3, <2>2, <2>3, <2>4 DEF Lined, Keeps, Ahead, Kept
  <2>6. /\ Head(s.queue) \in ToSet(a) /\ Ahead(a, ToSet(l), {Head(s.queue)})
        /\ Ahead(a, {Head(s.queue)}, ToSet(q.queue))
    BY <2>2, <2>3, <2>4 DEF Lined, Ahead
  <2>7. Single(q) /\ ~q.running /\ ~q.closing /\ ~q.switching
    BY <1>3, <2>2, KeepsSingle DEF Keeps
  <2>8. ASSUME NEW h \in Prompts, h = Head(s.queue)
        PROVE  Opens(q, StartPrompt(q, h, TRUE, FALSE), h, a, l)
    <3>1. Between(h, a, l, q.queue)
      BY <2>6, <2>8 DEF Between
    <3>2. Record(q) /\ Single(q) /\ Lined(q, a, l) /\ Free(q)
      BY <2>2, <2>5, <2>7 DEF Free
    <3>. QED  BY <3>1, <3>2, SpokenStart
  <2>9. Lined(first, a, l) /\ Kept(first) = Kept(s) /\ first.closing = s.closing /\ first.running
    BY <2>2, <2>3, <2>4, <2>8 DEF Opens
  <2>. HIDE DEF first
  <2>. QED  BY <1>3, <2>1, <2>9 DEF Follows, Attended
<1>4. ASSUME ~s.closing, ~s.switching, s.queue = <<>>
      PROVE  LET t == StartNext(s, stopped) IN Follows(s, t, a, l) /\ Attended(t)
  <2>1. \/ StartNext(s, stopped) = m
        \/ StartNext(s, stopped) = last /\ ~m.running
    BY <1>4 DEF StartNext, Admissible, HasAssignment, Lined
  <2>2. Follows(s, m, a, l) /\ m.queue = <<>> /\ Record(m) /\ Single(m)
    BY <1>1, <1>4, ResumeFollows, MaybeResumeLemma
  <2>. HIDE DEF m
  <2>3. /\ Record(w) /\ w.turns = m.turns /\ w.gen = m.gen /\ w.running = m.running
        /\ w.switching = m.switching /\ w.queue = m.queue /\ w.closing = m.closing
        /\ w.asg = m.asg /\ w.model = m.model
    BY <2>2 DEF Record, Fields, AssignmentFields
  <2>. HIDE DEF w
  <2>4. Follows(m, w, a, l) /\ Single(w) /\ Lined(w, a, l)
    BY <2>2, <2>3, KeptFollows DEF Follows, Single
  <2>5. ASSUME ~m.running PROVE Follows(w, last, a, l) /\ last.queue = w.queue
    <3>1. Record(w) /\ Single(w) /\ Lined(w, a, l) /\ ~w.running
      BY <2>3, <2>4, <2>5
    <3>. QED  BY <3>1, SilentStart
  <2>. QED  BY <2>1, <2>2, <2>3, <2>4, <2>5, FollowsTwice DEF Attended
<1>. QED  BY <1>2, <1>3, <1>4

(***************************************************************************)
(* The steps.                                                              *)
(***************************************************************************)

\* The session, the line behind it, and the prompts that were given up or taken
\* back: each accepted prompt is in one of them, until Close gives them up.
Accounts(s, a, l, gone, back) ==
  /\ Once(a) /\ l \in Seq(Prompts) /\ Sorted(a, l) /\ ToSet(l) \subseteq ToSet(a)
  /\ Lined(s, a, l)
  /\ ~s.closing => /\ ToSet(a) = ToSet(l) \cup Kept(s) \cup gone \cup back
                   /\ gone \cap back = {}
                   /\ (gone \cup back) \cap (ToSet(l) \cup Kept(s)) = {}

InLine ==
  /\ Record(c) /\ Root
  /\ Accounts(c, accepted, log, ended, recalled) /\ Attended(c)

\* What a step owes to InLine, once it is known that the controller stays the user's.
Files == Record(c') /\ Root' => InLine'

LEMMA FollowsFiles ==
  ASSUME InLine, Follows(c, c', accepted, log), Attended(c'),
         UNCHANGED <<accepted, log, ended, recalled>>
  PROVE  Files
<1>1. Accounts(c', accepted, log, ended, recalled)
  BY DEF InLine, Accounts, Follows
<1>. QED  BY <1>1 DEF Files, InLine, Accounts, Attended, Lined, Kept, Hands

LEMMA KeptFiles ==
  ASSUME InLine, UNCHANGED <<accepted, log, ended, recalled>>,
         c'.turns = c.turns, c'.queue = c.queue, c'.asg.job = c.asg.job,
         c'.model = c.model, c'.closing = c.closing,
         c.running => c'.running, c.switching => c'.switching
  PROVE  Files
<1>1. Follows(c, c', accepted, log)
  BY KeptFollows DEF InLine, Accounts
<1>2. Attended(c')
  BY DEF InLine, Attended
<1>. QED  BY <1>1, <1>2, FollowsFiles

\* A turn gives part of what it holds to the session, to the user or to the queue.
LEMMA TurnFiles ==
  ASSUME InLine, NEW g \in Turns, c.turns[g].pc # "off", UNCHANGED <<accepted, recalled>>,
         NEW s, Keeps(c, s), s.closing = c.closing, s.model = c.model,
         NEW t, t.pc # "off", Holds(t, accepted), c' = [s EXCEPT !.turns[g] = t],
         s.queue \in Seq(Prompts), Sorted(accepted, s.queue), s.closing => s.queue = <<>>,
         log' \in Seq(Prompts), Sorted(accepted, log'),
         LET old == ToSet(log) \cup Hand(c.turns[g]) \cup ToSet(c.queue)
             new == ToSet(log') \cup Hand(t) \cup ToSet(s.queue)
         IN  /\ new \subseteq old
             /\ ~c.closing => ended' = ended \cup (old \ new),
         Ahead(accepted, ToSet(log'), Hand(t) \cup ToSet(s.queue)),
         Ahead(accepted, Hand(t), ToSet(s.queue))
  PROVE  Files
<1>1. /\ c'.turns = [c.turns EXCEPT ![g] = t] /\ c'.gen = c.gen /\ c'.running = c.running
      /\ c'.switching = c.switching /\ c'.queue = s.queue /\ c'.closing = c.closing
      /\ c'.model = c.model /\ c'.asg.job = c.asg.job
  BY DEF Keeps, Record, Fields
<1>2. Hands(c) = Hand(c.turns[g])
  BY OneHand DEF InLine, Accounts, Lined, Root
<1>3. \A h \in Turns : Holds(c'.turns[h], accepted)
  BY <1>1 DEF InLine, Accounts, Lined, Record
<1>4. Single(c')
  BY <1>1 DEF InLine, Root, Single, Record
<1>5. c'.turns[g] = t
  BY <1>1 DEF InLine, Record
<1>6. Hands(c') = Hand(t)
  BY <1>3, <1>4, <1>5, OneHand
<1>7. Lined(c', accepted, log')
  <2>1. Kept(c') \subseteq ToSet(accepted)
    BY <1>1, <1>2, <1>6 DEF InLine, Accounts, Lined, Kept
  <2>. QED  BY <1>1, <1>3, <1>6, <2>1 DEF InLine, Accounts, Lined, Kept
<1>8. Accounts(c', accepted, log', ended', recalled)
  <2>1. ToSet(log') \subseteq ToSet(accepted)
    BY <1>2 DEF InLine, Accounts, Lined, Kept
  <2>2. ASSUME ~c.closing
        PROVE  /\ ToSet(accepted) = ToSet(log') \cup Kept(c') \cup ended' \cup recalled
               /\ ended' \cap recalled = {}
               /\ (ended' \cup recalled) \cap (ToSet(log') \cup Kept(c')) = {}
    <3>. DEFINE old == ToSet(log) \cup Hand(c.turns[g]) \cup ToSet(c.queue)
                new == ToSet(log') \cup Hand(t) \cup ToSet(s.queue)
    <3>1. /\ ToSet(accepted) = old \cup ended \cup recalled /\ ended \cap recalled = {}
          /\ (ended \cup recalled) \cap old = {}
      BY <1>2, <2>2 DEF InLine, Accounts, Kept
    <3>2. ToSet(log') \cup Kept(c') = new
      BY <1>1, <1>6 DEF Kept
    <3>3. new \subseteq old /\ ended' = ended \cup (old \ new)
      BY <2>2
    <3>. HIDE DEF old, new
    <3>. QED  BY <3>1, <3>2, <3>3
  <2>. QED  BY <1>1, <1>7, <2>1, <2>2 DEF InLine, Accounts
<1>9. Attended(c')
  BY <1>1 DEF InLine, Root, Single, Attended
<1>. QED  BY <1>8, <1>9 DEF Files, InLine, Accounts, Attended, Lined, Kept, Hands

LEMMA HandFiles ==
  ASSUME InLine, NEW g \in Turns, c.turns[g].pc # "off",
         UNCHANGED <<accepted, log, ended, recalled>>,
         NEW s, Keeps(c, s), s.closing = c.closing, s.model = c.model, s.queue = c.queue,
         NEW t, t.pc # "off", t.prompt = c.turns[g].prompt, t.inject = c.turns[g].inject,
         t.prompt # None => t.pc \in {"delay", "opening", "unwinding"},
         t.inject # <<>> => t.pc \in {"feeding", "unwinding"},
         c' = [s EXCEPT !.turns[g] = t]
  PROVE  Files
<1>1. Holds(c.turns[g], accepted)
  BY DEF InLine, Accounts, Lined
<1>2. Holds(t, accepted) /\ Hand(t) = Hand(c.turns[g])
  BY <1>1 DEF Holds, Hand
<1>3. Hands(c) = Hand(c.turns[g])
  BY OneHand DEF InLine, Accounts, Lined, Root
<1>4. /\ s.queue \in Seq(Prompts) /\ Sorted(accepted, s.queue) /\ (s.closing => s.queue = <<>>)
      /\ log \in Seq(Prompts) /\ Sorted(accepted, log)
      /\ Ahead(accepted, ToSet(log), Hand(t) \cup ToSet(s.queue))
      /\ Ahead(accepted, Hand(t), ToSet(s.queue))
  BY <1>2, <1>3 DEF InLine, Accounts, Lined, Kept
<1>. QED  BY <1>2, <1>4, TurnFiles

LEMMA GoesFiles ==
  ASSUME InLine, NEW g \in Turns, c.turns[g].pc # "off",
         UNCHANGED <<accepted, log, ended, recalled>>, NEW pc, pc # "off", Goes(g, pc),
         \/ pc = "unwinding"
         \/ c.turns[g].pc = "delay" /\ pc = "opening"
         \/ c.turns[g].pc \notin {"delay", "opening", "unwinding", "feeding"}
  PROVE  Files
<1>. DEFINE t == [c.turns[g] EXCEPT !.pc = pc]
<1>1. t.pc = pc /\ t.prompt = c.turns[g].prompt /\ t.inject = c.turns[g].inject /\ Keeps(c, c)
  BY DEF InLine, Record, Keeps, TurnFields
<1>2. c' = [c EXCEPT !.turns[g] = t]
  BY DEF Goes
<1>3. Holds(c.turns[g], accepted)
  BY DEF InLine, Accounts, Lined
<1>. HIDE DEF t
<1>4. /\ t.prompt # None => t.pc \in {"delay", "opening", "unwinding"}
      /\ t.inject # <<>> => t.pc \in {"feeding", "unwinding"}
  BY <1>1, <1>3 DEF Holds
<1>. QED  BY <1>1, <1>2, <1>4, HandFiles

\* The error row answers what a living turn holds.
LEMMA FailsFiles ==
  ASSUME InLine, NEW g \in Turns, c.turns[g].pc # "off", Fails(g)
  PROVE  Files
<1>. DEFINE t == [c.turns[g] EXCEPT !.pc = "unwinding", !.prompt = None, !.rides = {},
                                    !.inject = <<>>]
<1>1. t.pc = "unwinding" /\ t.prompt = None /\ t.inject = <<>> /\ Keeps(c, c)
  BY DEF InLine, Record, Keeps, TurnFields
<1>2. UNCHANGED <<accepted, log, recalled>>
  BY DEF Fails
<1>3. CASE ~Alive(g)
  BY <1>2, <1>3, GoesFiles DEF Fails, Goes
<1>4. CASE Alive(g)
  <2>1. c' = [c EXCEPT !.turns[g] = t]
    BY <1>4 DEF Fails
  <2>. HIDE DEF t
  <2>2. Hand(t) = {} /\ Holds(t, accepted)
    BY <1>1, Nobody DEF Hand, Holds
  <2>3. Hands(c) = Hand(c.turns[g])
    BY OneHand DEF InLine, Accounts, Lined, Root
  <2>4. /\ c.queue \in Seq(Prompts) /\ Sorted(accepted, c.queue) /\ (c.closing => c.queue = <<>>)
        /\ log \in Seq(Prompts) /\ Sorted(accepted, log)
        /\ Ahead(accepted, ToSet(log), {} \cup ToSet(c.queue))
        /\ Ahead(accepted, {}, ToSet(c.queue))
    BY DEF InLine, Accounts, Lined, Kept, Ahead
  <2>5. ASSUME ~c.closing
        PROVE  ended' = ended \cup ((ToSet(log) \cup Hand(c.turns[g]) \cup ToSet(c.queue))
                                      \ (ToSet(log) \cup {} \cup ToSet(c.queue)))
    <3>1. ended' = ended \cup (Hand(c.turns[g]) \ {None})
      BY <1>4 DEF Fails, Hand
    <3>2. None \notin ended /\ None \notin Hand(c.turns[g])
      <4>1. ToSet(accepted) \subseteq Prompts
        BY DEF InLine, Accounts, Once, ToSet
      <4>2. ended \cup Hand(c.turns[g]) \subseteq ToSet(accepted)
        BY <2>3, <2>5 DEF InLine, Accounts, Lined, Kept
      <4>. QED  BY <4>1, <4>2, NoneAssumption
    <3>3. Hand(c.turns[g]) \cap (ToSet(log) \cup ToSet(c.queue)) = {}
      BY <2>3, BeforeApart DEF InLine, Accounts, Lined, Kept, Ahead
    <3>. QED  BY <3>1, <3>2, <3>3
  <2>. QED  BY <1>1, <1>2, <2>1, <2>2, <2>4, <2>5, TurnFiles
<1>. QED  BY <1>3, <1>4

LEMMA OpeningFiles ==
  ASSUME InLine, NEW g \in Turns, Opening(g)
  PROVE  Files
<1>. DEFINE t == [c.turns[g] EXCEPT !.pc = "inbox", !.prompt = None, !.rides = {}]
            p == c.turns[g].prompt
<1>1. CASE Fails(g)
  BY <1>1, FailsFiles DEF Opening
<1>2. CASE /\ c' = [c EXCEPT !.turns[g] = t]
           /\ log' = IF c.turns[g].prompt = None THEN log ELSE Append(log, c.turns[g].prompt)
           /\ UNCHANGED <<ended, turnRest>>
  <2>1. t.pc = "inbox" /\ t.prompt = None /\ t.inject = c.turns[g].inject /\ Keeps(c, c)
    BY DEF InLine, Record, Keeps, TurnFields
  <2>2. c.turns[g].pc = "opening" /\ UNCHANGED <<accepted, recalled, ended>>
    BY <1>2 DEF Opening, turnRest
  <2>3. Holds(c.turns[g], accepted)
    BY DEF InLine, Accounts, Lined
  <2>4. c.turns[g].inject = <<>> /\ Hand(c.turns[g]) = {p} \ {None}
    BY <2>2, <2>3, Nobody DEF Holds, Hand
  <2>. HIDE DEF t
  <2>5. Hand(t) = {} /\ Holds(t, accepted)
    BY <2>1, <2>4, Nobody DEF Hand, Holds
  <2>6. Hands(c) = {p} \ {None}
    BY <2>2, <2>4, OneHand DEF InLine, Accounts, Lined, Root
  <2>7. /\ c.queue \in Seq(Prompts) /\ Sorted(accepted, c.queue) /\ (c.closing => c.queue = <<>>)
        /\ log \in Seq(Prompts) /\ Sorted(accepted, log) /\ p \in Prompts \cup {None}
        /\ Ahead(accepted, ToSet(log), ({p} \ {None}) \cup ToSet(c.queue))
        /\ Ahead(accepted, {p} \ {None}, ToSet(c.queue))
    BY <2>3, <2>6 DEF InLine, Accounts, Lined, Kept, Holds
  <2>8. /\ log' \in Seq(Prompts) /\ Sorted(accepted, log')
        /\ ToSet(log') = ToSet(log) \cup ({p} \ {None})
    <3>1. CASE p = None
      BY <1>2, <2>7, <3>1
    <3>2. CASE p # None
      <4>1. p \in Prompts /\ Ahead(accepted, ToSet(log), {p})
        BY <2>7, <3>2 DEF Ahead
      <4>2. /\ Append(log, p) \in Seq(Prompts) /\ ToSet(Append(log, p)) = ToSet(log) \cup {p}
            /\ Sorted(accepted, Append(log, p))
        BY <2>7, <4>1, Appended
      <4>. QED  BY <1>2, <3>2, <4>2
    <3>. QED  BY <3>1, <3>2
  <2>9. /\ Ahead(accepted, ToSet(log'), {} \cup ToSet(c.queue))
        /\ Ahead(accepted, {}, ToSet(c.queue))
    BY <2>7, <2>8 DEF Ahead
  <2>10. LET old == ToSet(log) \cup Hand(c.turns[g]) \cup ToSet(c.queue)
             new == ToSet(log') \cup {} \cup ToSet(c.queue)
         IN  new \subseteq old /\ ended' = ended \cup (old \ new)
    BY <2>2, <2>4, <2>8
  <2>. QED  BY <1>2, <2>1, <2>2, <2>5, <2>7, <2>8, <2>9, <2>10, TurnFiles
<1>. QED  BY <1>1, <1>2 DEF Opening

LEMMA InboxFiles == ASSUME InLine, NEW g \in Turns, Inbox(g) PROVE Files
<1>1. c.turns[g].pc = "inbox" /\ UNCHANGED <<accepted, log, ended, recalled>>
  BY DEF Inbox, turnRest
<1>2. CASE Goes(g, "unwinding")
  BY <1>1, <1>2, GoesFiles
<1>3. Holds(c.turns[g], accepted)
  BY DEF InLine, Accounts, Lined
<1>4. c.turns[g].prompt = None /\ c.turns[g].inject = <<>>
  BY <1>1, <1>3 DEF Holds
<1>5. CASE c' = [c EXCEPT !.turns[g].pc = "inference", !.inbox = 0]
  <2>. DEFINE s == [c EXCEPT !.inbox = 0]
              t == [c.turns[g] EXCEPT !.pc = "inference"]
  <2>1. /\ Keeps(c, s) /\ s.closing = c.closing /\ s.model = c.model /\ s.queue = c.queue
        /\ t.pc = "inference" /\ t.prompt = c.turns[g].prompt /\ t.inject = c.turns[g].inject
    BY DEF Keeps, InLine, Record, Fields, AssignmentFields, TurnFields
  <2>2. c' = [s EXCEPT !.turns[g] = t]
    BY <1>5 DEF InLine, Record, Fields
  <2>. HIDE DEF s, t
  <2>. QED  BY <1>1, <1>4, <2>1, <2>2, HandFiles
<1>6. CASE c' = [c EXCEPT !.suppressed = TRUE,
                          !.turns[g] = [@ EXCEPT !.pc = "unwinding", !.prompt = None]]
  <2>. DEFINE s == [c EXCEPT !.suppressed = TRUE]
              t == [c.turns[g] EXCEPT !.pc = "unwinding", !.prompt = None]
  <2>1. /\ Keeps(c, s) /\ s.closing = c.closing /\ s.model = c.model /\ s.queue = c.queue
        /\ t.pc = "unwinding" /\ t.prompt = None /\ t.inject = c.turns[g].inject
    BY DEF Keeps, InLine, Record, Fields, AssignmentFields, TurnFields
  <2>2. c' = [s EXCEPT !.turns[g] = t]
    BY <1>6 DEF InLine, Record, Fields
  <2>. HIDE DEF s, t
  <2>. QED  BY <1>1, <1>4, <2>1, <2>2, HandFiles
<1>. QED  BY <1>2, <1>5, <1>6 DEF Inbox

LEMMA InferenceFiles == ASSUME InLine, NEW g \in Turns, Inference(g) PROVE Files
<1>1. c.turns[g].pc = "inference"
  BY DEF Inference
<1>2. CASE /\ \E pc \in {"unwinding", "boundary"} : Goes(g, pc)
           /\ UNCHANGED <<log, rode, ended, turnRest>>
  BY <1>1, <1>2, GoesFiles DEF turnRest
<1>3. CASE Fails(g)
  BY <1>1, <1>3, FailsFiles
<1>4. Holds(c.turns[g], accepted)
  BY DEF InLine, Accounts, Lined
<1>5. c.turns[g].prompt = None /\ c.turns[g].inject = <<>>
  BY <1>1, <1>4 DEF Holds
<1>. DEFINE t == [c.turns[g] EXCEPT !.pc = "boundary"]
<1>6. t.pc = "boundary" /\ t.prompt = c.turns[g].prompt /\ t.inject = c.turns[g].inject
  BY DEF InLine, Record, TurnFields
<1>7. ASSUME NEW work, c' = [c EXCEPT !.turns[g].pc = "boundary", !.blocked = FALSE,
                                      !.resume = FALSE, !.work = work],
             UNCHANGED <<log, rode, ended, turnRest>>
      PROVE  Files
  <2>. DEFINE s == [c EXCEPT !.blocked = FALSE, !.resume = FALSE, !.work = work]
  <2>1. Keeps(c, s) /\ s.closing = c.closing /\ s.model = c.model /\ s.queue = c.queue
    BY DEF Keeps, InLine, Record, Fields, AssignmentFields
  <2>2. c' = [s EXCEPT !.turns[g] = t]
    BY <1>7 DEF InLine, Record, Fields
  <2>3. UNCHANGED <<accepted, log, ended, recalled>>
    BY <1>7 DEF turnRest
  <2>. HIDE DEF s, t
  <2>. QED  BY <1>1, <1>5, <1>6, <2>1, <2>2, <2>3, HandFiles
<1>8. CASE /\ c' = [c EXCEPT !.turns[g].pc = "boundary", !.blocked = TRUE]
           /\ UNCHANGED <<log, rode, ended, turnRest>>
  <2>. DEFINE s == [c EXCEPT !.blocked = TRUE]
  <2>1. Keeps(c, s) /\ s.closing = c.closing /\ s.model = c.model /\ s.queue = c.queue
    BY DEF Keeps, InLine, Record, Fields, AssignmentFields
  <2>2. c' = [s EXCEPT !.turns[g] = t]
    BY <1>8 DEF InLine, Record, Fields
  <2>3. UNCHANGED <<accepted, log, ended, recalled>>
    BY <1>8 DEF turnRest
  <2>. HIDE DEF s, t
  <2>. QED  BY <1>1, <1>5, <1>6, <2>1, <2>2, <2>3, HandFiles
<1>. QED  BY <1>2, <1>3, <1>7, <1>8 DEF Inference

\* What waits moves into the hand of the turn as it is.
LEMMA BoundaryFiles == ASSUME InLine, NEW g \in Turns, Boundary(g) PROVE Files
<1>1. c.turns[g].pc = "boundary" /\ UNCHANGED <<accepted, log, ended, recalled>>
  BY DEF Boundary, turnRest
<1>2. CASE c' = [c EXCEPT !.turns[g].pc = "inbox"]
  BY <1>1, <1>2, GoesFiles DEF Goes
<1>. DEFINE d == DrainWatch(c)
            s == [d EXCEPT !.queue = <<>>]
            t == [c.turns[g] EXCEPT !.pc = "feeding", !.inject = c.queue, !.rides = ToSet(c.events)]
<1>3. CASE c' = [d EXCEPT !.queue = <<>>,
                   !.turns[g] = [@ EXCEPT !.pc = "feeding", !.inject = c.queue,
                                          !.rides = ToSet(c.events)]]
  <2>1. Holds(c.turns[g], accepted)
    BY DEF InLine, Accounts, Lined
  <2>2. c.turns[g].prompt = None /\ c.turns[g].inject = <<>> /\ Hand(c.turns[g]) = {}
    BY <1>1, <2>1, Nobody DEF Holds, Hand
  <2>3. Keeps(c, d) /\ d.closing = c.closing /\ d.model = c.model
    BY DrainLemma DEF InLine, DrainWatch, Record, Fields
  <2>4. t.pc = "feeding" /\ t.prompt = c.turns[g].prompt /\ t.inject = c.queue
    BY DEF InLine, Record, TurnFields
  <2>. HIDE DEF d
  <2>5. Keeps(c, s) /\ s.closing = c.closing /\ s.model = c.model /\ s.queue = <<>>
    BY <2>3 DEF Keeps, Record, Fields, AssignmentFields
  <2>6. c' = [s EXCEPT !.turns[g] = t]
    BY <1>3, <2>3 DEF Keeps, Record, Fields
  <2>. HIDE DEF s, t
  <2>7. Hands(c) = {}
    BY <1>1, <2>2, OneHand DEF InLine, Accounts, Lined, Root
  <2>8. /\ c.queue \in Seq(Prompts) /\ Sorted(accepted, c.queue)
        /\ log \in Seq(Prompts) /\ Sorted(accepted, log)
        /\ Ahead(accepted, ToSet(log), ToSet(c.queue))
    BY <2>7 DEF InLine, Accounts, Lined, Kept
  <2>9. Hand(t) = ToSet(c.queue) /\ Holds(t, accepted)
    BY <2>2, <2>4, <2>8 DEF Hand, Holds
  <2>10. /\ s.queue \in Seq(Prompts) /\ Sorted(accepted, s.queue) /\ ToSet(s.queue) = {}
    BY <2>5, Nobody
  <2>11. /\ Ahead(accepted, ToSet(log), Hand(t) \cup ToSet(s.queue))
         /\ Ahead(accepted, Hand(t), ToSet(s.queue))
    BY <2>8, <2>9, <2>10 DEF Ahead
  <2>12. LET old == ToSet(log) \cup Hand(c.turns[g]) \cup ToSet(c.queue)
             new == ToSet(log') \cup Hand(t) \cup ToSet(s.queue)
         IN  new \subseteq old /\ ended' = ended \cup (old \ new)
    BY <1>1, <2>2, <2>9, <2>10
  <2>. QED  BY <1>1, <2>4, <2>5, <2>6, <2>8, <2>9, <2>10, <2>11, <2>12, TurnFiles
<1>. QED  BY <1>2, <1>3 DEF Boundary

LEMMA FeedingFiles == ASSUME InLine, NEW g \in Turns, Feeding(g) PROVE Files
<1>. DEFINE t == [c.turns[g] EXCEPT !.inject = Tail(@)]
            u == [c.turns[g] EXCEPT !.pc = "inbox", !.rides = {}]
            q == c.turns[g].inject
<1>1. c.turns[g].pc = "feeding" /\ Keeps(c, c)
  BY DEF Feeding, InLine, Keeps
<1>2. Holds(c.turns[g], accepted)
  BY DEF InLine, Accounts, Lined
<1>3. c.turns[g].prompt = None
  BY <1>1, <1>2 DEF Holds
<1>4. CASE Fails(g)
  BY <1>1, <1>4, FailsFiles
<1>5. CASE q = <<>> /\ c' = [c EXCEPT !.turns[g] = u] /\ UNCHANGED <<log, ended, accepted, recalled>>
  <2>1. u.pc = "inbox" /\ u.prompt = c.turns[g].prompt /\ u.inject = q
    BY DEF InLine, Record, TurnFields
  <2>. HIDE DEF u
  <2>. QED  BY <1>1, <1>3, <1>5, <2>1, HandFiles
<1>6. CASE /\ q # <<>> /\ c' = [c EXCEPT !.turns[g] = t] /\ log' = Append(log, Head(q))
           /\ UNCHANGED <<ended, accepted, recalled>>
  <2>1. t.pc = "feeding" /\ t.prompt = None /\ t.inject = Tail(q)
    BY <1>1, <1>3 DEF InLine, Record, TurnFields
  <2>2. /\ Head(q) \in Prompts /\ Tail(q) \in Seq(Prompts)
        /\ ToSet(q) = {Head(q)} \cup ToSet(Tail(q))
        /\ Sorted(accepted, Tail(q)) /\ Ahead(accepted, {Head(q)}, ToSet(Tail(q)))
    BY <1>2, <1>6, First DEF Holds
  <2>. HIDE DEF t, q
  <2>3. Hand(t) = ToSet(Tail(q)) /\ Holds(t, accepted)
    BY <2>1, <2>2 DEF Hand, Holds
  <2>4. Hand(c.turns[g]) = ToSet(q)
    BY <1>3 DEF Hand, q
  <2>5. Hands(c) = ToSet(q)
    BY <1>1, <2>4, OneHand DEF InLine, Accounts, Lined, Root
  <2>6. /\ c.queue \in Seq(Prompts) /\ Sorted(accepted, c.queue) /\ (c.closing => c.queue = <<>>)
        /\ log \in Seq(Prompts) /\ Sorted(accepted, log)
        /\ Ahead(accepted, ToSet(log), ToSet(q) \cup ToSet(c.queue))
        /\ Ahead(accepted, ToSet(q), ToSet(c.queue))
    BY <2>5 DEF InLine, Accounts, Lined, Kept
  <2>7. Ahead(accepted, ToSet(log), {Head(q)})
    BY <2>2, <2>6 DEF Ahead
  <2>8. /\ log' \in Seq(Prompts) /\ ToSet(log') = ToSet(log) \cup {Head(q)}
        /\ Sorted(accepted, log')
    BY <1>6, <2>2, <2>6, <2>7, Appended
  <2>9. /\ Ahead(accepted, ToSet(log'), Hand(t) \cup ToSet(c.queue))
        /\ Ahead(accepted, Hand(t), ToSet(c.queue))
    BY <2>2, <2>3, <2>6, <2>8 DEF Ahead
  <2>10. LET old == ToSet(log) \cup Hand(c.turns[g]) \cup ToSet(c.queue)
             new == ToSet(log') \cup Hand(t) \cup ToSet(c.queue)
         IN  new \subseteq old /\ ended' = ended \cup (old \ new)
    BY <1>6, <2>2, <2>3, <2>4, <2>8
  <2>. QED  BY <1>1, <1>6, <2>1, <2>3, <2>6, <2>8, <2>9, <2>10, TurnFiles
<1>. QED  BY <1>4, <1>5, <1>6 DEF Feeding, turnRest

LEMMA UnwindingFiles == ASSUME InLine, NEW g \in Turns, Unwinding(g) PROVE Files
<1>. DEFINE b == c.turns[g]
            h == Held(b)
            s == Requeue(c, h)
            t == [NoTurn EXCEPT !.pc = "finishing", !.job = b.job, !.wake = b.wake]
<1>1. /\ b.pc = "unwinding" /\ c' = [s EXCEPT !.turns[g] = t]
      /\ UNCHANGED <<accepted, log, recalled>>
      /\ ended' = (ended \cup (IF c.closing THEN ToSet(h) ELSE {})
                         \cup (IF b.owed THEN {} ELSE {b.prompt})) \ {None}
  BY DEF Unwinding, turnRest
<1>2. t.pc = "finishing" /\ t.prompt = None /\ t.inject = <<>>
  BY DEF NoTurn
<1>3. Keeps(c, s) /\ s.closing = c.closing /\ s.model = c.model
  BY RequeueLemma DEF InLine, Requeue, Record, Fields
<1>4. s.queue = IF c.closing THEN c.queue ELSE h \o c.queue
  BY DEF InLine, Requeue, Record, Fields
<1>5. Holds(b, accepted)
  BY DEF InLine, Accounts, Lined
<1>6. /\ h \in Seq(Prompts) /\ Sorted(accepted, h) /\ ToSet(h) \subseteq Hand(b)
      /\ Hand(b) \ ToSet(h) = (IF b.owed THEN {} ELSE {b.prompt}) \ {None}
  <2>1. CASE b.prompt = None
    <3>1. h = b.inject
      BY <1>5, <2>1 DEF Held, Owed, Holds
    <3>. HIDE DEF h, b
    <3>. QED  BY <1>5, <2>1, <3>1 DEF Holds, Hand
  <2>2. CASE b.prompt # None /\ b.owed
    <3>1. b.inject = <<>> /\ b.prompt \in Prompts
      BY <1>5, <2>2 DEF Holds
    <3>2. h = <<b.prompt>>
      BY <2>2, <3>1 DEF Held, Owed
    <3>. HIDE DEF h, b
    <3>. QED  BY <2>2, <3>1, <3>2, Alone, Nobody DEF Hand
  <2>3. CASE b.prompt # None /\ ~b.owed
    <3>1. b.inject = <<>> /\ b.prompt \in Prompts
      BY <1>5, <2>3 DEF Holds
    <3>2. h = <<>>
      BY <2>3, <3>1 DEF Held, Owed
    <3>. HIDE DEF h, b
    <3>. QED  BY <2>3, <3>1, <3>2, Nobody DEF Hand
  <2>. QED  BY <2>1, <2>2, <2>3
<1>7. Hands(c) = Hand(b)
  BY <1>1, OneHand DEF InLine, Accounts, Lined, Root
<1>. HIDE DEF h, b, s, t
<1>8. /\ c.queue \in Seq(Prompts) /\ Sorted(accepted, c.queue) /\ (c.closing => c.queue = <<>>)
      /\ log \in Seq(Prompts) /\ Sorted(accepted, log)
      /\ Ahead(accepted, ToSet(log), Hand(b) \cup ToSet(c.queue))
      /\ Ahead(accepted, Hand(b), ToSet(c.queue))
  BY <1>7 DEF InLine, Accounts, Lined, Kept
<1>9. Hand(t) = {} /\ Holds(t, accepted)
  BY <1>2, Nobody DEF Hand, Holds
<1>10. /\ s.queue \in Seq(Prompts) /\ Sorted(accepted, s.queue) /\ (s.closing => s.queue = <<>>)
       /\ ToSet(s.queue) = ToSet(c.queue) \cup (IF c.closing THEN {} ELSE ToSet(h))
  <2>1. CASE c.closing
    BY <1>3, <1>4, <1>8, <2>1
  <2>2. CASE ~c.closing
    <3>1. Ahead(accepted, ToSet(h), ToSet(c.queue))
      BY <1>6, <1>8 DEF Ahead
    <3>2. /\ h \o c.queue \in Seq(Prompts) /\ Sorted(accepted, h \o c.queue)
          /\ ToSet(h \o c.queue) = ToSet(h) \cup ToSet(c.queue)
      BY <1>6, <1>8, <3>1, Joined
    <3>. QED  BY <1>3, <1>4, <2>2, <3>2
  <2>. QED  BY <2>1, <2>2
<1>11. /\ Ahead(accepted, ToSet(log'), Hand(t) \cup ToSet(s.queue))
       /\ Ahead(accepted, Hand(t), ToSet(s.queue))
  BY <1>1, <1>6, <1>8, <1>9, <1>10 DEF Ahead
<1>12. LET old == ToSet(log) \cup Hand(b) \cup ToSet(c.queue)
           new == ToSet(log') \cup Hand(t) \cup ToSet(s.queue)
       IN  /\ new \subseteq old
           /\ ~c.closing => ended' = ended \cup (old \ new)
  <2>1. ToSet(log') \cup Hand(t) \cup ToSet(s.queue) \subseteq ToSet(log) \cup Hand(b) \cup ToSet(c.queue)
    BY <1>1, <1>6, <1>9, <1>10
  <2>2. ASSUME ~c.closing
        PROVE  ended' = ended \cup ((ToSet(log) \cup Hand(b) \cup ToSet(c.queue))
                                      \ (ToSet(log') \cup Hand(t) \cup ToSet(s.queue)))
    <3>1. None \notin ended
      <4>1. ToSet(accepted) \subseteq Prompts
        BY DEF InLine, Accounts, Once, ToSet
      <4>2. ended \subseteq ToSet(accepted)
        BY <2>2 DEF InLine, Accounts
      <4>. QED  BY <4>1, <4>2, NoneAssumption
    <3>2. Hand(b) \cap (ToSet(log) \cup ToSet(c.queue)) = {}
      BY <1>8, BeforeApart DEF InLine, Accounts, Ahead
    <3>3. ended' = ended \cup (Hand(b) \ ToSet(h))
      BY <1>1, <1>6, <2>2, <3>1
    <3>. QED  BY <1>1, <1>9, <1>10, <2>2, <3>2, <3>3
  <2>. QED  BY <2>1, <2>2
<1>. QED  BY <1>1, <1>2, <1>3, <1>8, <1>9, <1>10, <1>11, <1>12, TurnFiles DEF b

LEMMA FinishingFiles == ASSUME InLine, NEW g \in Turns, Finishing(g) PROVE Files
<1>. DEFINE s == [c EXCEPT !.turns[g] = NoTurn]
            t == [s EXCEPT !.running = FALSE, !.stopped = FALSE]
            n == StartNext(t, c.stopped)
<1>1. /\ c.turns[g].pc = "finishing" /\ g = c.gen
      /\ UNCHANGED <<accepted, log, ended, recalled>>
  BY DEF Finishing, InLine, Root, Single
<1>2. /\ Record(s) /\ s.turns = [c.turns EXCEPT ![g] = NoTurn] /\ s.gen = c.gen
      /\ s.asg = c.asg /\ s.queue = c.queue /\ s.closing = c.closing
      /\ s.switching = c.switching /\ s.model = c.model
  BY NoTurnLemma DEF InLine, Record, Fields
<1>3. /\ Record(t) /\ t.turns = s.turns /\ t.gen = s.gen /\ t.asg = s.asg /\ ~t.running
      /\ t.queue = s.queue /\ t.closing = s.closing /\ t.switching = s.switching
      /\ t.model = s.model
  <2>. HIDE DEF s
  <2>. QED  BY <1>2 DEF Record, Fields
<1>. HIDE DEF s, t
<1>4. NoTurn.prompt = None /\ NoTurn.inject = <<>> /\ NoTurn.pc = "off"
  BY DEF NoTurn
<1>5. Single(t)
  BY <1>1, <1>2, <1>3, <1>4 DEF InLine, Root, Single, Record
<1>6. Follows(c, t, accepted, log)
  <2>1. Hand(NoTurn) = {} /\ Holds(NoTurn, accepted)
    BY <1>4, Nobody DEF Hand, Holds
  <2>2. \A h \in Turns : Holds(t.turns[h], accepted)
    BY <1>2, <1>3, <2>1 DEF InLine, Accounts, Lined, Record
  <2>3. Hand(c.turns[g]) = {}
    BY <1>1, EmptyHand DEF InLine, Accounts, Lined
  <2>4. \A h \in Turns : Hand(t.turns[h]) = Hand(c.turns[h])
    BY <1>2, <1>3, <2>1, <2>3 DEF InLine, Record
  <2>5. Hands(t) = Hands(c)
    BY <2>4 DEF Hands
  <2>. QED  BY <1>2, <1>3, <2>2, <2>5 DEF InLine, Accounts, Lined, Kept, Follows
<1>7. Follows(t, n, accepted, log) /\ Attended(n)
  <2>1. Lined(t, accepted, log) /\ Once(accepted)
    BY <1>6 DEF Follows, InLine, Accounts
  <2>. QED  BY <1>3, <1>5, <2>1, NextFollows
<1>8. ~NeedsFollowUp(t) /\ ~OpenAssignment(n)
  BY <1>6, <1>7 DEF NeedsFollowUp, OpenAssignment, HasAssignment, Follows, Lined
<1>9. c' = n
  <2>. HIDE DEF n
  <2>. QED  BY <1>1, <1>8 DEF Finishing, n, t, s
<1>. QED  BY <1>1, <1>6, <1>7, <1>9, FollowsTwice, FollowsFiles

LEMMA TurnStepFiles == ASSUME InLine, NEW g \in Turns, TurnStep(g) PROVE Files
<1>1. CASE Delay(g)
  BY <1>1, GoesFiles DEF Delay, turnRest
<1>2. CASE Compacting(g)
  BY <1>2, GoesFiles DEF Compacting, turnRest
<1>. QED  BY <1>1, <1>2, OpeningFiles, InboxFiles, InferenceFiles, BoundaryFiles, FeedingFiles,
             UnwindingFiles, FinishingFiles DEF TurnStep

LEMMA SubmitFiles == ASSUME InLine, ~IsChild, NEW p \in Prompts, Submit(p) PROVE Files
<1>. DEFINE s == [c EXCEPT !.streak = 0, !.suppressed = FALSE]
            b == Append(accepted, p)
<1>1. /\ Record(s) /\ Keeps([c EXCEPT !.streak = 0], s) /\ s.turns = c.turns /\ s.gen = c.gen
      /\ s.running = c.running /\ s.switching = c.switching /\ s.asg = c.asg
      /\ s.queue = c.queue /\ s.closing = c.closing /\ s.model = c.model
  BY DEF InLine, Keeps, Record, Fields, AssignmentFields
<1>2. /\ p \notin ToSet(accepted) /\ ~c.closing /\ accepted' = b
      /\ UNCHANGED <<log, recalled>>
  BY DEF Submit, outVars
<1>3. /\ Once(b) /\ ToSet(b) = ToSet(accepted) \cup {p}
      /\ \A x, y : Before(accepted, x, y) => Before(b, x, y)
      /\ Ahead(b, ToSet(accepted), {p})
  BY <1>2, Accepting DEF InLine, Accounts
<1>4. ~OpenAssignment(s)
  BY <1>1 DEF OpenAssignment, HasAssignment, InLine, Root
<1>5. \/ c' = [s EXCEPT !.queue = Append(@, p)] /\ UNCHANGED ended /\ (s.switching \/ s.running)
      \/ /\ ~s.switching /\ ~s.running /\ c' = StartPrompt(s, p, FALSE, FALSE)
         /\ ended' = IF c'.running THEN ended ELSE ended \cup {p}
  BY <1>4 DEF Submit
<1>. HIDE DEF s, b
<1>6. /\ \A x, y : Ahead(accepted, x, y) => Ahead(b, x, y)
      /\ \A x : Sorted(accepted, x) => Sorted(b, x)
      /\ \A x : Holds(x, accepted) => Holds(x, b)
  BY <1>3 DEF Ahead, Sorted, Holds
<1>7. Kept(s) = Kept(c) /\ Hands(s) = Hands(c)
  BY <1>1 DEF Kept, Hands
<1>8. Lined(s, b, log)
  <2>1. Lined(c, accepted, log)
    BY DEF InLine, Accounts
  <2>2. Kept(s) \subseteq ToSet(b)
    BY <1>3, <1>7, <2>1 DEF Lined
  <2>. QED  BY <1>1, <1>6, <1>7, <2>1, <2>2 DEF Lined
<1>9. /\ log \in Seq(Prompts) /\ Sorted(b, log) /\ ToSet(log) \subseteq ToSet(accepted)
      /\ Kept(s) \subseteq ToSet(accepted)
  BY <1>6, <1>7 DEF InLine, Accounts, Lined
<1>10. /\ ToSet(accepted) = ToSet(log) \cup Kept(s) \cup ended \cup recalled
       /\ ended \cap recalled = {}
       /\ (ended \cup recalled) \cap (ToSet(log) \cup Kept(s)) = {}
  BY <1>2, <1>7 DEF InLine, Accounts
<1>11. ASSUME Lined(c', b, log), Kept(c') = Kept(s) \cup {p}, ~c'.closing, Attended(c'),
              UNCHANGED ended
       PROVE  Files
  <2>1. Accounts(c', b, log, ended, recalled)
    BY <1>2, <1>3, <1>9, <1>10, <1>11 DEF Accounts
  <2>. QED  BY <1>2, <1>11, <2>1 DEF Files, InLine, Accounts, Attended, Lined, Kept, Hands
<1>12. CASE c' = [s EXCEPT !.queue = Append(@, p)] /\ UNCHANGED ended /\ (s.switching \/ s.running)
  <2>1. /\ c'.turns = s.turns /\ c'.queue = Append(s.queue, p) /\ c'.asg = s.asg
        /\ c'.model = s.model /\ c'.closing = s.closing /\ c'.switching = s.switching
        /\ c'.running = s.running
    BY <1>1, <1>12 DEF Record, Fields
  <2>2. /\ Append(s.queue, p) \in Seq(Prompts) /\ Sorted(b, Append(s.queue, p))
        /\ ToSet(Append(s.queue, p)) = ToSet(s.queue) \cup {p}
    <3>1. Ahead(b, ToSet(s.queue), {p})
      BY <1>3, <1>9 DEF Ahead, Kept
    <3>. QED  BY <1>8, <3>1, Appended DEF Lined
  <2>3. Hands(c') = Hands(s) /\ Kept(c') = Kept(s) \cup {p}
    BY <2>1, <2>2 DEF Kept, Hands
  <2>4. /\ Ahead(b, ToSet(log), Kept(c')) /\ Ahead(b, Hands(c'), ToSet(c'.queue))
    <3>1. Ahead(b, ToSet(log), {p}) /\ Ahead(b, Hands(s), {p})
      BY <1>3, <1>9 DEF Ahead, Kept
    <3>. QED  BY <1>8, <2>1, <2>2, <2>3, <3>1 DEF Lined, Ahead
  <2>5. Kept(c') \subseteq ToSet(b)
    BY <1>3, <1>8, <2>3 DEF Lined
  <2>6. Lined(c', b, log)
    BY <1>1, <1>2, <1>8, <2>1, <2>2, <2>4, <2>5 DEF Lined
  <2>. QED  BY <1>1, <1>2, <1>11, <1>12, <2>1, <2>3, <2>6 DEF Attended
<1>13. CASE /\ ~s.switching /\ ~s.running /\ c' = StartPrompt(s, p, FALSE, FALSE)
            /\ ended' = IF c'.running THEN ended ELSE ended \cup {p}
  <2>1. s.queue = <<>>
    BY <1>1, <1>2, <1>13 DEF InLine, Attended
  <2>2. Free(s) /\ Single(s)
    BY <1>1, <1>2, <1>13 DEF Free, InLine, Root, Single
  <2>3. Between(p, b, log, s.queue)
    <3>1. Ahead(b, ToSet(log), {p}) /\ p \in ToSet(b)
      BY <1>3, <1>9 DEF Ahead
    <3>. QED  BY <2>1, <3>1, Nobody DEF Between, Ahead
  <2>4. Opens(s, c', p, b, log)
    BY <1>1, <1>8, <1>13, <2>2, <2>3, SpokenStart
  <2>. QED  BY <1>1, <1>2, <1>11, <1>13, <2>4 DEF Opens, Attended
<1>. QED  BY <1>5, <1>12, <1>13

LEMMA RecallFiles == ASSUME InLine, Recall PROVE Files
<1>1. /\ c.queue # <<>> /\ c' = [c EXCEPT !.queue = Front(@)]
      /\ recalled' = recalled \cup {Last(c.queue)} /\ UNCHANGED <<accepted, log, ended>>
  BY DEF Recall
<1>2. /\ c'.turns = c.turns /\ c'.queue = Front(c.queue) /\ c'.asg = c.asg
      /\ c'.model = c.model /\ c'.closing = c.closing /\ c'.switching = c.switching
      /\ c'.running = c.running
  BY <1>1 DEF InLine, Record, Fields
<1>3. Lined(c, accepted, log) /\ Once(accepted) /\ ~c.closing
  BY <1>1 DEF InLine, Accounts, Lined
<1>4. /\ Last(c.queue) \in Prompts /\ Front(c.queue) \in Seq(Prompts)
      /\ ToSet(c.queue) = ToSet(Front(c.queue)) \cup {Last(c.queue)}
      /\ Sorted(accepted, Front(c.queue))
      /\ Ahead(accepted, ToSet(Front(c.queue)), {Last(c.queue)})
  BY <1>1, <1>3, Final DEF Lined
<1>5. Hands(c') = Hands(c) /\ Kept(c) = Kept(c') \cup {Last(c.queue)}
  BY <1>2, <1>4 DEF Kept, Hands
<1>6. Lined(c', accepted, log)
  BY <1>2, <1>3, <1>4, <1>5 DEF Lined, Ahead
<1>7. Last(c.queue) \notin ToSet(log) \cup Kept(c')
  <2>1. Last(c.queue) \notin ToSet(log)
    BY <1>3, <1>4, <1>5, BeforeApart DEF Lined, Ahead
  <2>2. Last(c.queue) \notin Hands(c)
    BY <1>3, <1>4, BeforeApart DEF Lined, Ahead
  <2>3. Last(c.queue) \notin ToSet(Front(c.queue))
    BY <1>3, <1>4, BeforeApart DEF Ahead
  <2>. QED  BY <1>2, <1>5, <2>1, <2>2, <2>3 DEF Kept
<1>8. Accounts(c', accepted, log, ended, recalled')
  <2>1. /\ ToSet(accepted) = ToSet(log) \cup Kept(c) \cup ended \cup recalled
        /\ ended \cap recalled = {}
        /\ (ended \cup recalled) \cap (ToSet(log) \cup Kept(c)) = {}
    BY <1>3 DEF InLine, Accounts
  <2>2. /\ ToSet(accepted) = ToSet(log) \cup Kept(c') \cup ended \cup recalled'
        /\ ended \cap recalled' = {}
        /\ (ended \cup recalled') \cap (ToSet(log) \cup Kept(c')) = {}
    BY <1>1, <1>5, <1>7, <2>1
  <2>. QED  BY <1>6, <2>2 DEF InLine, Accounts
<1>9. Attended(c')
  BY <1>1, <1>2 DEF InLine, Attended
<1>. QED  BY <1>1, <1>8, <1>9 DEF Files, InLine, Accounts, Attended, Lined, Kept, Hands

\* Close, and a plan that is revoked, drop the queue in front of the user.
LEMMA DroppedFiles ==
  ASSUME InLine, UNCHANGED <<accepted, log, recalled>>, ended' = ended \cup ToSet(c.queue),
         c'.turns = c.turns, c'.queue = <<>>, c'.asg.job = c.asg.job,
         c'.model = c.model, ~c'.closing => ~c.closing
  PROVE  Files
<1>1. Lined(c, accepted, log) /\ Once(accepted)
  BY DEF InLine, Accounts
<1>2. Hands(c') = Hands(c) /\ Kept(c') = Hands(c)
  BY Nobody DEF Kept, Hands
<1>3. Lined(c', accepted, log)
  BY <1>1, <1>2, Nobody DEF Lined, Kept, Ahead
<1>4. ASSUME ~c'.closing
      PROVE  /\ ToSet(accepted) = ToSet(log) \cup Kept(c') \cup ended' \cup recalled
             /\ ended' \cap recalled = {}
             /\ (ended' \cup recalled) \cap (ToSet(log) \cup Kept(c')) = {}
  <2>1. /\ ToSet(accepted) = ToSet(log) \cup Kept(c) \cup ended \cup recalled
        /\ ended \cap recalled = {}
        /\ (ended \cup recalled) \cap (ToSet(log) \cup Kept(c)) = {}
    BY <1>4 DEF InLine, Accounts
  <2>2. ToSet(c.queue) \cap (ToSet(log) \cup Hands(c)) = {}
    BY <1>1, BeforeApart DEF Lined, Ahead, Kept
  <2>. QED  BY <1>2, <2>1, <2>2 DEF Kept
<1>5. Accounts(c', accepted, log, ended', recalled)
  BY <1>3, <1>4 DEF InLine, Accounts
<1>. QED  BY <1>5 DEF Files, InLine, Accounts, Attended, Lined, Kept, Hands

LEMMA PlanFiles == ASSUME InLine, NEW approved \in BOOLEAN, SetPlanApproved(approved) PROVE Files
<1>. DEFINE s == [c EXCEPT !.approved = approved]
            r == [s EXCEPT !.resume = @ \/ s.work]
<1>1. UNCHANGED <<accepted, log, recalled>>
  BY DEF SetPlanApproved, outVars
<1>2. /\ Record(s) /\ Keeps(c, s) /\ s.queue = c.queue /\ s.closing = c.closing
      /\ s.model = c.model
  BY DEF InLine, Keeps, Record, Fields, AssignmentFields
<1>3. CASE ~approved
  <2>1. /\ c' = [s EXCEPT !.blocked = FALSE, !.resume = FALSE, !.stopped = TRUE, !.queue = <<>>]
        /\ ended' = ended \cup ToSet(c.queue)
    BY <1>3 DEF SetPlanApproved
  <2>. HIDE DEF s
  <2>2. /\ c'.turns = s.turns /\ c'.queue = <<>> /\ c'.asg = s.asg /\ c'.model = s.model
        /\ c'.closing = s.closing
    BY <1>2, <2>1 DEF Record, Fields
  <2>. QED  BY <1>1, <1>2, <2>1, <2>2, DroppedFiles DEF Keeps
<1>4. CASE approved
  <2>1. c' = MaybeResume(r) /\ UNCHANGED ended
    BY <1>4 DEF SetPlanApproved
  <2>. HIDE DEF s
  <2>2. /\ Record(r) /\ Keeps(s, r) /\ r.queue = s.queue /\ r.closing = s.closing
        /\ r.model = s.model
    BY <1>2 DEF Keeps, Record, Fields, AssignmentFields
  <2>. HIDE DEF r
  <2>3. /\ r.turns = c.turns /\ r.gen = c.gen /\ r.running = c.running
        /\ r.switching = c.switching /\ r.asg.job = c.asg.job
    BY <1>2, <2>2 DEF Keeps
  <2>4. Follows(c, r, accepted, log)
    BY <1>2, <2>2, <2>3, KeptFollows DEF InLine, Accounts
  <2>5. Single(r) /\ Lined(r, accepted, log)
    BY <2>3, <2>4 DEF InLine, Root, Single, Follows
  <2>6. Follows(r, c', accepted, log) /\ c'.queue = r.queue /\ c'.switching = r.switching
    BY <2>1, <2>2, <2>5, ResumeFollows
  <2>7. Attended(c')
    <3>1. CASE ~c.running
      BY <1>2, <2>2, <2>3, <2>6, <3>1 DEF InLine, Attended, Follows
    <3>2. CASE c.running
      <4>1. c' = r
        BY <2>1, <2>3, <3>2 DEF MaybeResume
      <4>. QED  BY <2>3, <3>2, <4>1 DEF Attended
    <3>. QED  BY <3>1, <3>2
  <2>. QED  BY <1>1, <2>1, <2>4, <2>6, <2>7, FollowsTwice, FollowsFiles
<1>. QED  BY <1>3, <1>4

LEMMA CompactFiles == ASSUME InLine, Compact PROVE Files
<1>. DEFINE g == CHOOSE g \in Turns \ {c.gen} : c.turns[g].pc = "off"
            new == [NoTurn EXCEPT !.pc = "compacting"]
<1>1. new.prompt = None /\ new.inject = <<>> /\ new.pc = "compacting"
  BY DEF NoTurn
<1>2. /\ ~c.running /\ ~c.closing /\ UNCHANGED <<accepted, log, ended, recalled>>
      /\ c' = [c EXCEPT !.running = TRUE, !.stopped = FALSE, !.gen = g, !.turns[g] = new]
  BY DEF Compact, outVars
<1>. HIDE DEF g, new
<1>3. /\ c'.turns = [c.turns EXCEPT ![g] = new] /\ c'.queue = c.queue /\ c'.closing = c.closing
      /\ c'.asg = c.asg /\ c'.model = c.model /\ c'.running
  BY <1>2 DEF InLine, Record, Fields
<1>4. Hand(new) = {} /\ Holds(new, accepted)
  BY <1>1, Nobody DEF Hand, Holds
<1>5. \A h \in Turns : Holds(c'.turns[h], accepted) /\ Hand(c'.turns[h]) \in {{}, Hand(c.turns[h])}
  BY <1>3, <1>4 DEF InLine, Accounts, Lined, Record
<1>6. Hands(c) = {}
  BY <1>2, NoHands DEF InLine, Root, Accounts, Lined
<1>7. Hands(c') = {}
  BY <1>5, <1>6 DEF Hands
<1>8. Follows(c, c', accepted, log)
  BY <1>3, <1>5, <1>6, <1>7 DEF InLine, Accounts, Lined, Follows, Kept
<1>. QED  BY <1>2, <1>3, <1>8, FollowsFiles DEF Attended

LEMMA EndSwitchFiles == ASSUME InLine, EndSwitch PROVE Files
<1>. DEFINE b == [c EXCEPT !.switching = FALSE, !.stopped = FALSE]
<1>1. PICK s \in Conversations(b) :
        \/ NeedsFollowUp(s)
        \/ c' = StartNext(s, c.stopped)
  BY DEF EndSwitch
<1>2. UNCHANGED <<accepted, log, ended, recalled>> /\ c.switching
  BY DEF EndSwitch, outVars
<1>3. /\ Record(b) /\ b.turns = c.turns /\ b.gen = c.gen /\ b.running = c.running
      /\ ~b.switching /\ b.asg = c.asg /\ b.queue = c.queue /\ b.closing = c.closing
      /\ b.model = c.model
  BY DEF InLine, Record, Fields, AssignmentFields
<1>4. /\ Record(s) /\ s.turns = c.turns /\ s.gen = c.gen /\ s.running = c.running
      /\ ~s.switching /\ s.asg = c.asg /\ s.queue = c.queue /\ s.closing = c.closing
      /\ s.model = c.model
  <2>. HIDE DEF b
  <2>1. s = b \/ \E a \in Plans, w \in Plans : s = Other(b, a, w)
    BY DEF Conversations
  <2>2. ASSUME NEW a, NEW w, s = Other(b, a, w)
        PROVE  /\ DOMAIN s = Fields /\ s.turns = b.turns /\ s.gen = b.gen
               /\ s.running = b.running /\ s.switching = b.switching /\ s.asg = b.asg
               /\ s.streak = b.streak /\ s.queue = b.queue /\ s.closing = b.closing
               /\ s.model = b.model
    BY <1>3, <2>2 DEF Record, Fields, Other
  <2>. QED  BY <1>3, <2>1, <2>2 DEF Record
<1>5. ~NeedsFollowUp(s)
  BY <1>4 DEF NeedsFollowUp, HasAssignment, InLine, Root
<1>6. Follows(c, s, accepted, log) /\ Lined(s, accepted, log) /\ Once(accepted)
  BY <1>4, KeptFollows DEF InLine, Accounts, Follows
<1>7. Single(s) /\ ~s.running
  BY <1>2, <1>4 DEF InLine, Root, Single
<1>8. Follows(s, c', accepted, log) /\ Attended(c')
  BY <1>1, <1>4, <1>5, <1>6, <1>7, NextFollows
<1>. QED  BY <1>2, <1>6, <1>8, FollowsTwice, FollowsFiles

LEMMA UserFiles == ASSUME InLine, ~IsChild, ~MayLoseModel, UserStep PROVE Files
<1>1. CASE Cancel
  <2>1. /\ c'.turns = c.turns /\ c'.queue = c.queue /\ c'.asg.job = c.asg.job
        /\ c'.model = c.model /\ c'.closing = c.closing /\ c'.running = c.running
        /\ c'.switching = c.switching
    BY <1>1 DEF Cancel, InLine, Record, Fields, AssignmentFields
  <2>. QED  BY <1>1, <2>1, KeptFiles DEF Cancel, outVars
<1>2. CASE BeginSwitch
  <2>1. /\ c'.turns = c.turns /\ c'.queue = c.queue /\ c'.asg.job = c.asg.job
        /\ c'.model = c.model /\ c'.closing = c.closing /\ c'.running = c.running
        /\ c'.switching
    BY <1>2 DEF BeginSwitch, InLine, Record, Fields
  <2>. QED  BY <1>2, <2>1, KeptFiles DEF BeginSwitch, outVars
<1>3. ~Leave
  BY DEF Leave, OpenAssignment, HasAssignment, InLine, Root
<1>4. CASE Shutdown
  <2>1. ~OpenAssignment([c EXCEPT !.closing = TRUE])
    BY DEF OpenAssignment, HasAssignment, InLine, Root, Record, Fields
  <2>2. /\ c'.closing /\ c'.turns = c.turns /\ c'.queue = <<>> /\ c'.asg = c.asg
        /\ c'.model = c.model
    BY <1>4, <2>1 DEF Shutdown, StopAssignment, InLine, Record, Fields
  <2>. QED  BY <1>4, <2>2, DroppedFiles DEF Shutdown, outVars
<1>5. CASE Release
  BY <1>5, KeptFiles DEF Release
<1>6. ~ChangeModel
  BY DEF ChangeModel
<1>. QED  BY <1>1, <1>2, <1>3, <1>4, <1>5, <1>6, SubmitFiles, RecallFiles, PlanFiles, CompactFiles,
             EndSwitchFiles DEF UserStep

LEMMA BackgroundFiles == ASSUME InLine, Background PROVE Files
<1>1. UNCHANGED <<accepted, log, ended, recalled>>
  BY DEF Background, WatchEvent, Result, TimerFires, WakeForWatches, outVars
<1>2. ASSUME NEW s, Record(s), s.turns = c.turns, s.queue = c.queue, s.asg = c.asg,
             s.model = c.model, s.closing = c.closing, s.running = c.running,
             s.switching = c.switching, c' \in {s, Arm(s), ArmUnlessSwitching(s)}
      PROVE  Files
  <2>1. /\ c'.turns = c.turns /\ c'.queue = c.queue /\ c'.asg.job = c.asg.job
        /\ c'.model = c.model /\ c'.closing = c.closing /\ c'.running = c.running
        /\ c'.switching = c.switching
    BY <1>2 DEF Arm, ArmUnlessSwitching, Record, Fields
  <2>. QED  BY <1>1, <2>1, KeptFiles
<1>3. CASE WatchEvent
  <2>1. CASE c' = c
    BY <1>2, <2>1 DEF InLine
  <2>2. ASSUME NEW q, c' = ArmUnlessSwitching([c EXCEPT !.events = q])
        PROVE  Files
    <3>. DEFINE s == [c EXCEPT !.events = q]
    <3>1. /\ Record(s) /\ s.turns = c.turns /\ s.queue = c.queue /\ s.asg = c.asg
          /\ s.model = c.model /\ s.closing = c.closing /\ s.running = c.running
          /\ s.switching = c.switching
      BY DEF InLine, Record, Fields
    <3>. HIDE DEF s
    <3>. QED  BY <1>2, <2>2, <3>1 DEF s
  <2>. QED  BY <1>3, <2>1, <2>2 DEF WatchEvent
<1>4. CASE Result
  <2>. DEFINE s == [c EXCEPT !.inbox = @ + 1]
  <2>1. /\ Record(s) /\ s.turns = c.turns /\ s.queue = c.queue /\ s.asg = c.asg
        /\ s.model = c.model /\ s.closing = c.closing /\ s.running = c.running
        /\ s.switching = c.switching
    BY DEF InLine, Record, Fields
  <2>2. c' \in {Arm(s), ArmUnlessSwitching(s)}
    BY <1>4 DEF Result
  <2>. HIDE DEF s
  <2>. QED  BY <1>2, <2>1, <2>2
<1>5. CASE TimerFires
  <2>1. /\ Record(c') /\ c'.turns = c.turns /\ c'.queue = c.queue /\ c'.asg = c.asg
        /\ c'.model = c.model /\ c'.closing = c.closing /\ c'.running = c.running
        /\ c'.switching = c.switching
    BY <1>5 DEF TimerFires, InLine, Record, Fields
  <2>. QED  BY <1>1, <2>1, KeptFiles
<1>6. CASE WakeForWatches
  <2>. DEFINE s == [c EXCEPT !.wake = "off"]
              w == [s EXCEPT !.streak = @ + 1]
  <2>1. /\ Record(s) /\ s.turns = c.turns /\ s.gen = c.gen /\ s.running = c.running
        /\ s.switching = c.switching /\ s.asg = c.asg /\ s.queue = c.queue
        /\ s.closing = c.closing /\ s.model = c.model
    BY DEF InLine, Record, Fields, AssignmentFields
  <2>2. \/ c' = s
        \/ ~s.running /\ c' = StartPrompt(w, None, FALSE, TRUE)
    BY <1>6 DEF WakeForWatches
  <2>. HIDE DEF s
  <2>3. /\ Record(w) /\ w.turns = c.turns /\ w.gen = c.gen /\ w.running = s.running
        /\ w.switching = c.switching /\ w.asg = c.asg /\ w.queue = c.queue
        /\ w.closing = c.closing /\ w.model = c.model
    BY <2>1 DEF Record, Fields
  <2>. HIDE DEF w
  <2>4. Follows(c, w, accepted, log) /\ Single(w)
    BY <2>1, <2>3, KeptFollows DEF InLine, Accounts, Root, Single
  <2>5. CASE c' = s
    BY <1>2, <2>1, <2>5
  <2>6. CASE ~s.running /\ c' = StartPrompt(w, None, FALSE, TRUE)
    <3>1. Record(w) /\ Single(w) /\ Lined(w, accepted, log) /\ ~w.running
      BY <2>3, <2>4, <2>6 DEF Follows
    <3>2. Follows(w, c', accepted, log) /\ c'.queue = w.queue /\ c'.switching = w.switching
      BY <2>6, <3>1, SilentStart
    <3>3. Attended(c')
      BY <2>1, <2>3, <2>6, <3>2 DEF InLine, Attended, Follows
    <3>. QED  BY <1>1, <2>4, <3>2, <3>3, FollowsTwice, FollowsFiles
  <2>. QED  BY <2>2, <2>5, <2>6
<1>. QED  BY <1>3, <1>4, <1>5, <1>6 DEF Background

LEMMA RunnerFiles ==
  ASSUME InLine, ViewReady \/ \E j \in Jobs : RunnerStep(j) \/ CancelJob(j)
  PROVE  Files
<1>1. CASE ViewReady
  <2>1. PICK outcome : c' = [c EXCEPT !.view = outcome]
    BY <1>1 DEF ViewReady
  <2>2. /\ c'.turns = c.turns /\ c'.queue = c.queue /\ c'.asg.job = c.asg.job
        /\ c'.model = c.model /\ c'.closing = c.closing /\ c'.running = c.running
        /\ c'.switching = c.switching
    BY <2>1 DEF InLine, Record, Fields
  <2>. QED  BY <1>1, <2>2, KeptFiles DEF ViewReady, runnerRest
<1>2. ASSUME NEW j \in Jobs, RunnerStep(j) \/ CancelJob(j) PROVE FALSE
  <2>1. runner[j].pc = "none" /\ c.asg.job # j
    BY BoundsAssumption DEF InLine, Root, Jobs
  <2>. QED  BY <1>2, <2>1 DEF RunnerStep, Claim, BindFails, Attach, Begin, Done, ContextEnds, CancelJob
<1>. QED  BY <1>1, <1>2

LEMMA InLineInit == Init /\ ~IsChild => InLine
<1>. SUFFICES ASSUME Init, ~IsChild PROVE InLine
  OBVIOUS
<1>1. Record(c) /\ Root
  BY InitRecord, InitRoot
<1>2. /\ c.asg.job = 0 /\ c.model /\ c.queue = <<>> /\ ~c.closing
      /\ \A g \in Turns : c.turns[g].prompt = None /\ c.turns[g].inject = <<>>
      /\ accepted = <<>> /\ log = <<>> /\ ended = {} /\ recalled = {}
  BY DEF Init, NoTurn, NewAssignment
<1>3. /\ \A g \in Turns : Hand(c.turns[g]) = {} /\ Holds(c.turns[g], accepted)
  BY <1>2, Nobody DEF Hand, Holds
<1>4. Hands(c) = {} /\ Kept(c) = {}
  BY <1>2, <1>3, Nobody DEF Hands, Kept
<1>5. Once(accepted)
  BY <1>2, Nobody DEF Once
<1>6. Lined(c, accepted, log)
  BY <1>2, <1>3, <1>4, Nobody DEF Lined, Ahead
<1>. QED  BY <1>1, <1>2, <1>4, <1>5, <1>6, Nobody DEF InLine, Accounts, Attended

LEMMA InLineNext == ASSUME InLine, ~IsChild, ~MayLoseModel, [Next]_vars PROVE InLine'
<1>1. Record(c') /\ Root'
  BY NextGood DEF InLine, Good
<1>2. CASE Next
  <2>1. Files
    BY <1>2, UserFiles, BackgroundFiles, TurnStepFiles, RunnerFiles DEF Next
  <2>. QED  BY <1>1, <2>1 DEF Files
<1>3. CASE UNCHANGED vars
  <2>1. UNCHANGED <<c, accepted, log, ended, recalled>>
    BY <1>3 DEF vars
  <2>2. Files
    BY <2>1, KeptFiles
  <2>. QED  BY <1>1, <2>2 DEF Files
<1>. QED  BY <1>2, <1>3

\* Sorted sequences name each prompt once.
LEMMA OneIndex ==
  ASSUME NEW a, Once(a), NEW q \in Seq(Prompts), Sorted(a, q), NEW p
  PROVE  LET I == {i \in DOMAIN q : q[i] = p} IN
         IF p \in ToSet(q) THEN \E i : I = {i} ELSE I = {}
<1>. DEFINE I == {i \in DOMAIN q : q[i] = p}
<1>1. CASE p \notin ToSet(q)
  BY <1>1 DEF ToSet
<1>2. CASE p \in ToSet(q)
  <2>1. PICK i \in DOMAIN q : q[i] = p
    BY <1>2 DEF ToSet
  <2>2. ASSUME NEW k \in I PROVE k = i
    <3>1. ~(i < k) /\ ~(k < i)
      BY <2>1, BeforeApart DEF Sorted
    <3>2. i \in Int /\ k \in Int
      OBVIOUS
    <3>. QED  BY <3>1, <3>2
  <2>3. I = {i}
    BY <2>1, <2>2
  <2>. QED  BY <1>2, <2>3
<1>. QED  BY <1>1, <1>2

LEMMA OneTurn ==
  ASSUME InLine, NEW p
  PROVE  LET G == {g \in Turns : p \in Hand(c.turns[g])} IN
         IF p \in Hands(c) THEN \E g : G = {g} ELSE G = {}
<1>. DEFINE G == {g \in Turns : p \in Hand(c.turns[g])}
<1>1. CASE p \notin Hands(c)
  BY <1>1 DEF Hands
<1>2. CASE p \in Hands(c)
  <2>1. PICK g \in Turns : p \in Hand(c.turns[g])
    BY <1>2 DEF Hands
  <2>2. ASSUME NEW h \in Turns, p \in Hand(c.turns[h]) PROVE h = c.gen
    <3>1. Holds(c.turns[h], accepted)
      BY DEF InLine, Accounts, Lined
    <3>2. c.turns[h].pc # "off"
      BY <2>2, <3>1, EmptyHand
    <3>. QED  BY <3>2 DEF InLine, Root, Single
  <2>3. G = {c.gen}
    BY <2>1, <2>2
  <2>. QED  BY <1>2, <2>3
<1>. QED  BY <1>1, <1>2

\* Log, hands, queue, and what was given up or taken back have no prompt in common.
LEMMA Disjoint ==
  ASSUME InLine, ~c.closing, NEW p \in ToSet(accepted)
  PROVE  /\ p \in Prompts
         /\ p \in ToSet(log) => p \notin Hands(c) /\ p \notin ToSet(c.queue)
         /\ p \in Hands(c) => p \notin ToSet(c.queue)
         /\ p \in ended => p \notin recalled
         /\ p \in ended \cup recalled => p \notin ToSet(log) /\ p \notin Hands(c) /\ p \notin ToSet(c.queue)
         /\ p \in ToSet(log) \cup Hands(c) \cup ToSet(c.queue) \cup ended \cup recalled
<1>1. /\ Once(accepted)
      /\ Ahead(accepted, ToSet(log), Hands(c) \cup ToSet(c.queue))
      /\ Ahead(accepted, Hands(c), ToSet(c.queue))
      /\ ToSet(accepted) = ToSet(log) \cup (Hands(c) \cup ToSet(c.queue)) \cup ended \cup recalled
      /\ ended \cap recalled = {}
      /\ (ended \cup recalled) \cap (ToSet(log) \cup (Hands(c) \cup ToSet(c.queue))) = {}
  BY DEF InLine, Accounts, Lined, Kept
<1>2. p \in Prompts
  BY <1>1 DEF Once, ToSet
<1>3. ~Before(accepted, p, p)
  BY <1>1, BeforeApart
<1>4. p \in ToSet(log) => p \notin Hands(c) /\ p \notin ToSet(c.queue)
  BY <1>1, <1>3 DEF Ahead
<1>5. p \in Hands(c) => p \notin ToSet(c.queue)
  BY <1>1, <1>3 DEF Ahead
<1>6. p \in ended => p \notin recalled
  BY <1>1
<1>. QED  BY <1>1, <1>2, <1>4, <1>5, <1>6


(***************************************************************************)
(* Why a prompt may be given up: whatever is in ended, or will be when the *)
(* turn that holds it unwinds, has been excused.                           *)
(***************************************************************************)

Given == excuse.error \cup excuse.stop \cup excuse.failure

\* What the end of a turn gives up: the prompt of a turn that is cut or unwinds,
\* when its row was drawn already.
Lost(s) ==
  {s.turns[g].prompt : g \in {h \in Turns : ~s.turns[h].owed
                                              /\ (s.stopped \/ s.turns[h].pc = "unwinding")}} \ {None}

\* A turn holds its opening prompt until that is appended.
Posted(s) == \A g \in Turns : s.turns[g].prompt # None => s.turns[g].pc \in {"delay", "opening", "unwinding"}

\* A stopped assignment waits for its turn, or is over.
Halted(s) == OpenAssignment(s) /\ s.asg.stop => s.running

Excused ==
  /\ DOMAIN excuse = {"error", "stop", "failure"}
  /\ Halted(c)
  /\ c.closing \/ ended \cup Lost(c) \subseteq Given

\* No more is given up in one record than in the other.
Spares(s, t) ==
  /\ Record(t) /\ t.closing = s.closing
  /\ Lost(t) \subseteq Lost(s)
  /\ Halted(s) => Halted(t)

LEMMA SparesTwice ==
  ASSUME NEW s, NEW t, NEW u, Spares(s, t), Spares(t, u)
  PROVE  Spares(s, u)
BY DEF Spares

LEMMA SameSpares ==
  ASSUME NEW s, NEW t, Record(t), t.turns = s.turns, t.stopped => s.stopped,
         t.closing = s.closing, Halted(s) => Halted(t)
  PROVE  Spares(s, t)
BY DEF Spares, Lost

\* Only one turn holds a prompt, so a stop takes at most that one.
LEMMA StopLoses ==
  ASSUME NEW s, Single(s), Posted(s), NEW t, t.turns = s.turns
  PROVE  Lost(t) \subseteq Lost(s) \cup Unheard(s)
<1>. SUFFICES ASSUME NEW g \in Turns, s.turns[g].prompt # None, ~s.turns[g].owed
              PROVE  s.turns[g].prompt \in Unheard(s)
  BY DEF Lost
<1>1. g = s.gen
  BY DEF Single, Posted
<1>. QED  BY <1>1 DEF Unheard

LEMMA StartSpares ==
  ASSUME NEW s, Record(s), NEW p, NEW owed, NEW wake
  PROVE  Spares(s, StartPrompt(s, p, owed, wake))
<1>. DEFINE d == DrainWatch(s)
            g == CHOOSE g \in Turns \ {s.gen} : s.turns[g].pc = "off"
            new == [NoTurn EXCEPT !.pc = "delay", !.prompt = p, !.owed = owed, !.wake = wake,
                                  !.rides = ToSet(s.events), !.job = s.asg.job]
            u == [d EXCEPT !.running = TRUE, !.stopped = FALSE, !.blocked = FALSE,
                          !.resume = FALSE, !.gen = g,
                          !.turns[g] = new,
                          !.asg.turn = IF HasAssignment(s) THEN "running" ELSE @]
            ps == Owed(p, owed)
<1>1. Record(StartPrompt(s, p, owed, wake))
  BY StartPromptLemma
<1>2. /\ Record(d) /\ d.turns = s.turns /\ d.stopped = s.stopped /\ d.closing = s.closing
      /\ d.asg = s.asg /\ d.running = s.running
  BY DEF DrainWatch, Record, Fields
<1>3. new.pc = "delay"
  BY DEF NoTurn
<1>4. /\ u.turns = [s.turns EXCEPT ![g] = new] /\ ~u.stopped /\ u.closing = s.closing /\ u.running
  <2>. HIDE DEF g, new, d
  <2>. QED  BY <1>2 DEF Record, Fields
<1>5. \/ StartPrompt(s, p, owed, wake) \in {Requeue(s, ps), Requeue(d, ps)}
      \/ StartPrompt(s, p, owed, wake) = u
  BY DEF StartPrompt
<1>. HIDE DEF d, u, g, new, ps
<1>6. ASSUME NEW r \in {s, d}
      PROVE  /\ Requeue(r, ps).turns = s.turns /\ Requeue(r, ps).stopped = s.stopped
             /\ Requeue(r, ps).closing = s.closing /\ Requeue(r, ps).asg = s.asg
             /\ Requeue(r, ps).running = s.running
  BY <1>2 DEF Requeue, Record, Fields
<1>7. CASE StartPrompt(s, p, owed, wake) \in {Requeue(s, ps), Requeue(d, ps)}
  BY <1>1, <1>6, <1>7, SameSpares DEF Halted, OpenAssignment, HasAssignment
<1>8. CASE StartPrompt(s, p, owed, wake) = u
  <2>1. \A h \in Turns : u.turns[h] = s.turns[h] \/ u.turns[h] = new
    BY <1>4 DEF Record
  <2>2. Lost(u) \subseteq Lost(s)
    BY <1>3, <1>4, <2>1 DEF Lost
  <2>. QED  BY <1>1, <1>4, <1>8, <2>2 DEF Spares, Halted
<1>. QED  BY <1>5, <1>7, <1>8

LEMMA ResumeSpares ==
  ASSUME NEW s, Record(s)
  PROVE  Spares(s, MaybeResume(s))
<1>. DEFINE direct == s.resume /\ s.work
            r == [s EXCEPT !.resume = direct]
<1>1. /\ Record(r) /\ r.turns = s.turns /\ r.stopped = s.stopped /\ r.closing = s.closing
      /\ r.asg = s.asg /\ r.running = s.running
  BY DEF Record, Fields
<1>2. MaybeResume(s) \in {s, r, StartPrompt(r, None, FALSE, FALSE)}
  BY DEF MaybeResume
<1>. HIDE DEF r
<1>3. Spares(s, r) /\ Spares(s, s)
  BY <1>1, SameSpares DEF Halted, OpenAssignment, HasAssignment
<1>4. Spares(r, StartPrompt(r, None, FALSE, FALSE))
  BY <1>1, StartSpares
<1>5. Spares(s, StartPrompt(r, None, FALSE, FALSE))
  BY <1>3, <1>4, SparesTwice
<1>. QED  BY <1>2, <1>3, <1>5

LEMMA NextSpares ==
  ASSUME NEW s, Record(s), NEW stopped
  PROVE  Spares(s, StartNext(s, stopped))
<1>. DEFINE q == [s EXCEPT !.queue = Tail(@)]
            m == IF ~stopped \/ ~HasAssignment(s) THEN MaybeResume(s) ELSE s
            w == [m EXCEPT !.streak = @ + 1]
            first == StartPrompt(q, Head(s.queue), TRUE, FALSE)
            last == StartPrompt(w, None, FALSE, TRUE)
<1>1. /\ Record(q) /\ q.turns = s.turns /\ q.stopped = s.stopped /\ q.closing = s.closing
      /\ q.asg = s.asg /\ q.running = s.running
  BY DEF Record, Fields
<1>2. Spares(s, s)
  BY SameSpares
<1>3. Spares(s, m) /\ Record(m) /\ m.streak \in Nat
  BY <1>2, ResumeSpares, MaybeResumeLemma DEF Record
<1>4. StartNext(s, stopped) \in {s, m, first, last}
  BY DEF StartNext
<1>. HIDE DEF q, m
<1>5. /\ Record(w) /\ w.turns = m.turns /\ w.stopped = m.stopped /\ w.closing = m.closing
      /\ w.asg = m.asg /\ w.running = m.running
  BY <1>3 DEF Record, Fields
<1>. HIDE DEF w
<1>6. Spares(s, q) /\ Spares(m, w)
  BY <1>1, <1>5, SameSpares DEF Halted, OpenAssignment, HasAssignment
<1>7. Spares(q, first) /\ Spares(w, last)
  BY <1>1, <1>5, StartSpares
<1>. HIDE DEF first, last
<1>8. Spares(s, first) /\ Spares(s, last)
  BY <1>3, <1>6, <1>7, SparesTwice
<1>. QED  BY <1>2, <1>3, <1>4, <1>8

LEMMA FollowUpSpares ==
  ASSUME NEW s, Record(s), NEW p, FollowUp(s, p)
  PROVE  Spares(s, c')
<1>1. Record(c')
  BY FollowUpLemma
<1>2. CASE c' = [s EXCEPT !.asg = NewAssignment(NextJob)]
  <2>1. /\ c'.turns = s.turns /\ c'.stopped = s.stopped /\ c'.closing = s.closing /\ ~c'.asg.stop
    BY <1>2 DEF Record, Fields, NewAssignment
  <2>. QED  BY <1>1, <2>1, SameSpares DEF Halted
<1>3. CASE c' = Requeue(s, <<p>>)
  <2>1. /\ c'.turns = s.turns /\ c'.stopped = s.stopped /\ c'.closing = s.closing
        /\ c'.asg = s.asg /\ c'.running = s.running
    BY <1>3 DEF Requeue, Record, Fields
  <2>. QED  BY <1>1, <2>1, SameSpares DEF Halted, OpenAssignment, HasAssignment
<1>. QED  BY <1>2, <1>3 DEF FollowUp

\* A stop of the assignment takes what it strikes, and no more.
LEMMA StopStrikes ==
  ASSUME NEW s, Record(s), Single(s), Posted(s)
  PROVE  LET t == StopAssignment(s) IN
         /\ Record(t) /\ t.closing = s.closing /\ t.turns = s.turns
         /\ Lost(t) \cup Dropped(s, t) \subseteq Lost(s) \cup Struck(s)
         /\ Halted(s) => Halted(t)
<1>. DEFINE t == [s EXCEPT !.asg.stop = TRUE, !.queue = <<>>]
            u == [t EXCEPT !.stopped = TRUE, !.asg.turn = "interrupting"]
            v == [t EXCEPT !.asg.terminal = TRUE, !.asg.turn = "idle"]
<1>1. Record(StopAssignment(s))
  BY StopAssignmentLemma DEF Keeps
<1>2. CASE ~OpenAssignment(s)
  <2>1. StopAssignment(s) = s
    BY <1>2 DEF StopAssignment
  <2>. QED  BY <2>1 DEF Dropped
<1>3. CASE OpenAssignment(s)
  <2>1. /\ DOMAIN t = Fields /\ DOMAIN t.asg = AssignmentFields
        /\ t.turns = s.turns /\ t.stopped = s.stopped /\ t.closing = s.closing
        /\ t.running = s.running /\ t.asg.job = s.asg.job /\ t.asg.terminal = s.asg.terminal
    BY DEF Record, Fields, AssignmentFields
  <2>2. OpenAssignment(t)
    BY <1>3, <2>1 DEF OpenAssignment, HasAssignment
  <2>3. StopAssignment(s) = IF s.running THEN u ELSE v
    BY <1>3, <2>2 DEF StopAssignment, Complete
  <2>. HIDE DEF t
  <2>4. /\ u.turns = s.turns /\ u.stopped /\ u.closing = s.closing /\ u.running = s.running
        /\ v.turns = s.turns /\ v.stopped = s.stopped /\ v.closing = s.closing
        /\ v.asg.terminal
    BY <2>1 DEF Fields, AssignmentFields
  <2>. HIDE DEF u, v
  <2>5. StopAssignment(s).turns = s.turns
    BY <2>3, <2>4
  <2>6. Lost(StopAssignment(s)) \subseteq Lost(s) \cup Unheard(s)
    BY <2>5, StopLoses
  <2>7. Halted(StopAssignment(s))
    BY <2>3, <2>4 DEF Halted, OpenAssignment
  <2>. QED  BY <1>1, <1>3, <2>3, <2>4, <2>5, <2>6, <2>7 DEF Struck, Dropped
<1>. QED  BY <1>2, <1>3

\* What a reason covers.
LEMMA ExcuseGives ==
  ASSUME DOMAIN excuse = {"error", "stop", "failure"},
         NEW kind \in {"error", "stop", "failure"}, NEW ps, Excuse(kind, ps)
  PROVE  /\ DOMAIN excuse' = {"error", "stop", "failure"}
         /\ Given' = Given \cup ps
BY DEF Excuse, Given

\* What the steps below start from, and what they owe.
Excusing == Record(c) /\ Single(c) /\ Posted(c) /\ Excused /\ (IsChild \/ c.asg.job = 0)

LEMMA SparedExcused ==
  ASSUME Excusing, Spares(c, c'), UNCHANGED <<ended, excuse>>
  PROVE  Excused'
<1>1. Lost(c)' = Lost(c') /\ Halted(c)' = Halted(c')
  BY DEF Lost, Halted
<1>. QED  BY <1>1 DEF Excusing, Excused, Spares, Given

\* A step that gives prompts up, for a reason.
LEMMA GivenExcused ==
  ASSUME Excusing, Halted(c'), c.closing => c'.closing,
         NEW kind \in {"error", "stop", "failure"}, NEW ps, Excuse(kind, ps),
         c'.closing \/ ended' \cup Lost(c') \subseteq ended \cup Lost(c) \cup ps
  PROVE  Excused'
<1>1. Lost(c)' = Lost(c') /\ Halted(c)' = Halted(c')
  BY DEF Lost, Halted
<1>2. DOMAIN excuse' = {"error", "stop", "failure"} /\ Given' = Given \cup ps
  BY ExcuseGives DEF Excusing, Excused
<1>3. c'.closing \/ ended' \cup Lost(c') \subseteq Given'
  BY <1>2 DEF Excusing, Excused
<1>. QED  BY <1>1, <1>2, <1>3 DEF Excused

\* Nothing that matters here is touched.
LEMMA KeptExcused ==
  ASSUME Excusing, Record(c'), UNCHANGED <<ended, excuse>>, c'.turns = c.turns,
         c'.stopped => c.stopped, c'.closing = c.closing, c'.running = c.running,
         c'.asg.job = c.asg.job, c'.asg.stop = c.asg.stop, c'.asg.terminal = c.asg.terminal
  PROVE  Excused'
<1>1. Spares(c, c')
  BY SameSpares DEF Halted, OpenAssignment, HasAssignment
<1>. QED  BY <1>1, SparedExcused

LEMMA SubmitExcused == ASSUME Excusing, NEW p \in Prompts, Submit(p) PROVE Excused'
<1>. DEFINE s == [c EXCEPT !.streak = 0, !.suppressed = FALSE]
<1>1. /\ Record(s) /\ s.turns = c.turns /\ s.stopped = c.stopped /\ s.closing = c.closing
      /\ s.asg = c.asg /\ s.running = c.running /\ s.model = c.model /\ s.switching = c.switching
      /\ ~c.closing
  BY DEF Excusing, Record, Fields, Submit
<1>2. \/ FollowUp(s, p) /\ UNCHANGED <<ended, excuse>>
      \/ c' = [s EXCEPT !.queue = Append(@, p)] /\ UNCHANGED <<ended, excuse>>
      \/ /\ ~(IsChild /\ s.asg.terminal /\ ~s.switching) /\ ~s.switching /\ ~s.running
         /\ c' = StartPrompt(s, p, FALSE, FALSE)
         /\ ended' = IF c'.running THEN ended ELSE ended \cup {p}
         /\ Excuse("error", IF s.model THEN {} ELSE {p})
  BY DEF Submit
<1>. HIDE DEF s
<1>3. Spares(c, s)
  BY <1>1, SameSpares DEF Halted, OpenAssignment, HasAssignment
<1>4. CASE FollowUp(s, p) /\ UNCHANGED <<ended, excuse>>
  <2>1. Spares(s, c')
    BY <1>1, <1>4, FollowUpSpares
  <2>2. Spares(c, c')
    BY <1>3, <2>1, SparesTwice
  <2>. QED  BY <1>4, <2>2, SparedExcused
<1>5. CASE c' = [s EXCEPT !.queue = Append(@, p)] /\ UNCHANGED <<ended, excuse>>
  <2>1. /\ Record(c') /\ c'.turns = s.turns /\ c'.stopped = s.stopped /\ c'.closing = s.closing
        /\ c'.asg = s.asg /\ c'.running = s.running
    BY <1>1, <1>5 DEF Record, Fields
  <2>. QED  BY <1>1, <1>5, <2>1, KeptExcused
<1>6. CASE /\ ~(IsChild /\ s.asg.terminal /\ ~s.switching) /\ ~s.switching /\ ~s.running
           /\ c' = StartPrompt(s, p, FALSE, FALSE)
           /\ ended' = IF c'.running THEN ended ELSE ended \cup {p}
           /\ Excuse("error", IF s.model THEN {} ELSE {p})
  <2>1. Spares(s, c')
    BY <1>1, <1>6, StartSpares
  <2>2. Spares(c, c') /\ Halted(c')
    BY <1>3, <2>1, SparesTwice DEF Spares, Excusing, Excused
  <2>3. s.model => c'.running
    <3>1. ~(HasAssignment(s) /\ (s.asg.stop \/ s.asg.terminal))
      BY <1>1, <1>6 DEF Excusing, Excused, Halted, OpenAssignment, HasAssignment
    <3>2. /\ DOMAIN DrainWatch(s) = Fields
      BY <1>1 DEF DrainWatch, Record, Fields
    <3>. QED  BY <1>1, <1>6, <3>1, <3>2 DEF StartPrompt, Fields
  <2>4. ended' \subseteq ended \cup (IF s.model THEN {} ELSE {p})
    BY <1>6, <2>3
  <2>5. ended' \cup Lost(c') \subseteq ended \cup Lost(c) \cup (IF s.model THEN {} ELSE {p})
    BY <2>2, <2>4 DEF Spares
  <2>6. c.closing => c'.closing
    BY <1>1
  <2>. QED  BY <1>6, <2>2, <2>5, <2>6, GivenExcused
<1>. QED  BY <1>2, <1>4, <1>5, <1>6

LEMMA StopsExcused ==
  ASSUME Excusing, Cancel \/ Leave \/ Shutdown \/ \E approved \in BOOLEAN : SetPlanApproved(approved)
  PROVE  Excused'
<1>1. CASE Cancel
  <2>1. /\ c'.turns = c.turns /\ c'.closing = c.closing /\ c'.running = c.running
        /\ c'.asg.job = c.asg.job /\ c'.asg.stop = c.asg.stop /\ c'.asg.terminal = c.asg.terminal
    BY <1>1 DEF Cancel, Excusing, Record, Fields, AssignmentFields
  <2>2. Halted(c')
    BY <2>1 DEF Excusing, Excused, Halted, OpenAssignment, HasAssignment
  <2>3. ended' \cup Lost(c') \subseteq ended \cup Lost(c) \cup Unheard(c)
    BY <1>1, <2>1, StopLoses DEF Cancel, Excusing
  <2>4. Excuse("stop", Unheard(c))
    BY <1>1 DEF Cancel
  <2>. QED  BY <2>1, <2>2, <2>3, <2>4, GivenExcused
<1>2. CASE Leave
  <2>1. /\ c' = StopAssignment(c) /\ UNCHANGED ended /\ Excuse("stop", Struck(c))
    BY <1>2 DEF Leave
  <2>2. /\ c'.closing = c.closing /\ Halted(c') /\ Lost(c') \subseteq Lost(c) \cup Struck(c)
    BY <2>1, StopStrikes DEF Excusing, Excused
  <2>. QED  BY <2>1, <2>2, GivenExcused
<1>3. CASE Shutdown
  <2>. DEFINE b == [c EXCEPT !.closing = TRUE]
              t == [StopAssignment(b) EXCEPT !.queue = <<>>, !.wake = "off"]
  <2>1. /\ Record(b) /\ b.closing /\ b.turns = c.turns /\ b.gen = c.gen /\ b.running = c.running
        /\ b.switching = c.switching /\ b.asg = c.asg
    BY DEF Excusing, Record, Fields
  <2>2. Single(b) /\ Posted(b) /\ Halted(b)
    BY <2>1 DEF Excusing, Excused, Single, Posted, Halted, OpenAssignment, HasAssignment
  <2>3. c' = [t EXCEPT !.stopped = @ \/ t.running] /\ UNCHANGED excuse
    BY <1>3 DEF Shutdown
  <2>. HIDE DEF b
  <2>4. /\ Record(StopAssignment(b)) /\ StopAssignment(b).closing /\ Halted(StopAssignment(b))
    BY <2>1, <2>2, StopStrikes
  <2>5. /\ c'.closing /\ c'.asg = StopAssignment(b).asg /\ c'.running = StopAssignment(b).running
    BY <2>3, <2>4 DEF Record, Fields
  <2>6. Halted(c)' = Halted(c')
    BY DEF Halted
  <2>. QED  BY <2>3, <2>4, <2>5, <2>6
       DEF Excusing, Excused, Halted, OpenAssignment, HasAssignment
<1>4. ASSUME NEW approved \in BOOLEAN, SetPlanApproved(approved) PROVE Excused'
  <2>. DEFINE s == [c EXCEPT !.approved = approved]
              r == [s EXCEPT !.resume = @ \/ s.work]
              ps == IF approved THEN {} ELSE ToSet(c.queue) \cup Unheard(c)
  <2>1. /\ Record(s) /\ s.turns = c.turns /\ s.stopped = c.stopped /\ s.closing = c.closing
        /\ s.asg = c.asg /\ s.running = c.running
    BY DEF Excusing, Record, Fields
  <2>2. /\ c' = IF approved THEN MaybeResume(r)
                ELSE [s EXCEPT !.blocked = FALSE, !.resume = FALSE, !.stopped = TRUE, !.queue = <<>>]
        /\ ended' = IF approved THEN ended ELSE ended \cup ToSet(c.queue)
        /\ Excuse("stop", ps)
    BY <1>4 DEF SetPlanApproved
  <2>. HIDE DEF s, ps
  <2>3. /\ Record(r) /\ r.turns = c.turns /\ r.stopped = c.stopped /\ r.closing = c.closing
        /\ r.asg = c.asg /\ r.running = c.running
    BY <2>1 DEF Record, Fields
  <2>. HIDE DEF r
  <2>4. CASE approved
    <3>1. Spares(c, r)
      BY <2>3, SameSpares DEF Halted, OpenAssignment, HasAssignment
    <3>2. Spares(r, c')
      BY <2>2, <2>3, <2>4, ResumeSpares
    <3>3. Spares(c, c')
      BY <3>1, <3>2, SparesTwice
    <3>4. c'.closing \/ ended' \cup Lost(c') \subseteq ended \cup Lost(c) \cup ps
      BY <2>2, <2>4, <3>3 DEF Spares
    <3>. QED  BY <2>2, <3>3, <3>4, GivenExcused DEF Spares, Excusing, Excused
  <2>5. CASE ~approved
    <3>1. /\ c'.turns = c.turns /\ c'.closing = c.closing /\ c'.running = c.running /\ c'.asg = c.asg
      BY <2>1, <2>2, <2>5 DEF Record, Fields
    <3>2. Halted(c')
      BY <3>1 DEF Excusing, Excused, Halted, OpenAssignment, HasAssignment
    <3>3. Lost(c') \subseteq Lost(c) \cup Unheard(c)
      BY <3>1, StopLoses DEF Excusing
    <3>4. ended' \cup Lost(c') \subseteq ended \cup Lost(c) \cup ps
      BY <2>2, <2>5, <3>3 DEF ps
    <3>. QED  BY <2>2, <3>1, <3>2, <3>4, GivenExcused
  <2>. QED  BY <2>4, <2>5
<1>. QED  BY <1>1, <1>2, <1>3, <1>4

LEMMA UserExcused == ASSUME Excusing, Record(c'), UserStep PROVE Excused'
<1>1. CASE Recall
  <2>1. /\ c'.turns = c.turns /\ c'.stopped = c.stopped /\ c'.closing = c.closing
        /\ c'.running = c.running /\ c'.asg = c.asg /\ UNCHANGED <<ended, excuse>>
    BY <1>1 DEF Recall, Excusing, Record, Fields
  <2>. QED  BY <2>1, KeptExcused
<1>2. CASE BeginSwitch
  <2>1. /\ c'.turns = c.turns /\ c'.stopped = c.stopped /\ c'.closing = c.closing
        /\ c'.running = c.running /\ c'.asg = c.asg /\ UNCHANGED <<ended, excuse>>
    BY <1>2 DEF BeginSwitch, Excusing, Record, Fields, outVars
  <2>. QED  BY <2>1, KeptExcused
<1>3. CASE Release
  BY <1>3, KeptExcused DEF Release
<1>4. CASE ChangeModel
  <2>1. /\ c'.turns = c.turns /\ c'.stopped = c.stopped /\ c'.closing = c.closing
        /\ c'.running = c.running /\ c'.asg = c.asg /\ UNCHANGED <<ended, excuse>>
    BY <1>4 DEF ChangeModel, Excusing, Record, Fields, outVars
  <2>. QED  BY <2>1, KeptExcused
<1>5. CASE Compact
  <2>. DEFINE g == CHOOSE g \in Turns \ {c.gen} : c.turns[g].pc = "off"
              new == [NoTurn EXCEPT !.pc = "compacting"]
  <2>1. new.pc = "compacting"
    BY DEF NoTurn
  <2>2. /\ c' = [c EXCEPT !.running = TRUE, !.stopped = FALSE, !.gen = g, !.turns[g] = new]
        /\ UNCHANGED <<ended, excuse>>
    BY <1>5 DEF Compact, outVars
  <2>. HIDE DEF g, new
  <2>3. /\ c'.turns = [c.turns EXCEPT ![g] = new] /\ ~c'.stopped /\ c'.running
        /\ c'.closing = c.closing
    BY <2>2 DEF Excusing, Record, Fields
  <2>4. \A h \in Turns : c'.turns[h] = c.turns[h] \/ c'.turns[h] = new
    BY <2>3 DEF Excusing, Record
  <2>5. Lost(c') \subseteq Lost(c)
    BY <2>1, <2>3, <2>4 DEF Lost
  <2>6. Spares(c, c')
    BY <2>3, <2>5 DEF Spares, Halted
  <2>. QED  BY <2>2, <2>6, SparedExcused
<1>6. CASE EndSwitch
  <2>. DEFINE b == [c EXCEPT !.switching = FALSE, !.stopped = FALSE]
  <2>1. /\ Record(b) /\ b.turns = c.turns /\ ~b.stopped /\ b.closing = c.closing
        /\ b.running = c.running /\ b.asg = c.asg
    BY DEF Excusing, Record, Fields
  <2>2. PICK s \in Conversations(b) :
          IF NeedsFollowUp(s) THEN FollowUp([s EXCEPT !.queue = Tail(@)], Head(s.queue))
          ELSE c' = StartNext(s, c.stopped)
    BY <1>6 DEF EndSwitch
  <2>. HIDE DEF b
  <2>3. /\ Record(s) /\ s.turns = c.turns /\ ~s.stopped /\ s.closing = c.closing
        /\ s.running = c.running /\ s.asg = c.asg
    <3>1. s = b \/ \E a \in Plans, w \in Plans : s = Other(b, a, w)
      BY DEF Conversations
    <3>2. ASSUME NEW a, NEW w, s = Other(b, a, w)
          PROVE  /\ Record(s) /\ s.turns = b.turns /\ s.stopped = b.stopped
                 /\ s.closing = b.closing /\ s.running = b.running /\ s.asg = b.asg
      BY <2>1, <3>2 DEF Record, Fields, Other
    <3>. QED  BY <2>1, <3>1, <3>2
  <2>4. Spares(c, s)
    BY <2>3, SameSpares DEF Halted, OpenAssignment, HasAssignment
  <2>5. Spares(s, c')
    <3>. DEFINE q == [s EXCEPT !.queue = Tail(@)]
    <3>1. /\ Record(q) /\ q.turns = s.turns /\ q.stopped = s.stopped /\ q.closing = s.closing
          /\ q.running = s.running /\ q.asg = s.asg
      BY <2>3 DEF Record, Fields
    <3>2. FollowUp(q, Head(s.queue)) \/ c' = StartNext(s, c.stopped)
      BY <2>2
    <3>. HIDE DEF q
    <3>3. Spares(s, q)
      BY <3>1, SameSpares DEF Halted, OpenAssignment, HasAssignment
    <3>4. FollowUp(q, Head(s.queue)) => Spares(q, c')
      BY <3>1, FollowUpSpares
    <3>5. c' = StartNext(s, c.stopped) => Spares(s, c')
      BY <2>3, NextSpares
    <3>. QED  BY <3>2, <3>3, <3>4, <3>5, SparesTwice
  <2>6. Spares(c, c') /\ UNCHANGED <<ended, excuse>>
    BY <1>6, <2>4, <2>5, SparesTwice DEF EndSwitch, outVars
  <2>. QED  BY <2>6, SparedExcused
<1>. QED  BY <1>1, <1>2, <1>3, <1>4, <1>5, <1>6, SubmitExcused, StopsExcused DEF UserStep

LEMMA BackgroundExcused == ASSUME Excusing, Record(c'), Background PROVE Excused'
<1>1. UNCHANGED <<ended, excuse>>
  BY DEF Background, WatchEvent, Result, TimerFires, WakeForWatches, outVars
<1>2. ASSUME NEW s, Record(s), s.turns = c.turns, s.stopped = c.stopped, s.closing = c.closing,
             s.asg = c.asg, s.running = c.running, c' \in {s, Arm(s), ArmUnlessSwitching(s)}
      PROVE  Excused'
  <2>1. /\ c'.turns = c.turns /\ c'.stopped = c.stopped /\ c'.closing = c.closing
        /\ c'.asg = c.asg /\ c'.running = c.running
    BY <1>2 DEF Arm, ArmUnlessSwitching, Record, Fields
  <2>. QED  BY <1>1, <2>1, KeptExcused
<1>3. CASE WatchEvent
  <2>1. CASE c' = c
    BY <1>2, <2>1 DEF Excusing
  <2>2. ASSUME NEW q, c' = ArmUnlessSwitching([c EXCEPT !.events = q])
        PROVE  Excused'
    <3>. DEFINE s == [c EXCEPT !.events = q]
    <3>1. /\ Record(s) /\ s.turns = c.turns /\ s.stopped = c.stopped /\ s.closing = c.closing
          /\ s.asg = c.asg /\ s.running = c.running
      BY DEF Excusing, Record, Fields
    <3>. HIDE DEF s
    <3>. QED  BY <1>2, <2>2, <3>1 DEF s
  <2>. QED  BY <1>3, <2>1, <2>2 DEF WatchEvent
<1>4. CASE Result
  <2>. DEFINE s == [c EXCEPT !.inbox = @ + 1]
  <2>1. /\ Record(s) /\ s.turns = c.turns /\ s.stopped = c.stopped /\ s.closing = c.closing
        /\ s.asg = c.asg /\ s.running = c.running
    BY DEF Excusing, Record, Fields
  <2>2. c' \in {Arm(s), ArmUnlessSwitching(s)}
    BY <1>4 DEF Result
  <2>. HIDE DEF s
  <2>. QED  BY <1>2, <2>1, <2>2
<1>5. CASE TimerFires
  <2>1. /\ c'.turns = c.turns /\ c'.stopped = c.stopped /\ c'.closing = c.closing
        /\ c'.asg = c.asg /\ c'.running = c.running
    BY <1>5 DEF TimerFires, Excusing, Record, Fields
  <2>. QED  BY <1>1, <2>1, KeptExcused
<1>6. CASE WakeForWatches
  <2>. DEFINE s == [c EXCEPT !.wake = "off"]
              w == [s EXCEPT !.streak = @ + 1]
  <2>1. /\ Record(s) /\ s.turns = c.turns /\ s.stopped = c.stopped /\ s.closing = c.closing
        /\ s.asg = c.asg /\ s.running = c.running
    BY DEF Excusing, Record, Fields
  <2>2. c' \in {s, StartPrompt(w, None, FALSE, TRUE)}
    BY <1>6 DEF WakeForWatches
  <2>. HIDE DEF s
  <2>3. /\ Record(w) /\ w.turns = c.turns /\ w.stopped = c.stopped /\ w.closing = c.closing
        /\ w.asg = c.asg /\ w.running = c.running
    BY <2>1 DEF Record, Fields
  <2>. HIDE DEF w
  <2>4. Spares(c, s) /\ Spares(c, w)
    BY <2>1, <2>3, SameSpares DEF Halted, OpenAssignment, HasAssignment
  <2>5. Spares(w, StartPrompt(w, None, FALSE, TRUE))
    BY <2>3, StartSpares
  <2>6. Spares(c, StartPrompt(w, None, FALSE, TRUE))
    BY <2>4, <2>5, SparesTwice
  <2>. QED  BY <1>1, <2>2, <2>4, <2>6, SparedExcused
<1>. QED  BY <1>3, <1>4, <1>5, <1>6 DEF Background

\* A turn goes on; when it unwinds with its prompt, it was cut.
LEMMA TurnSpares ==
  ASSUME Excusing, Record(c'), NEW g \in Turns,
         NEW s, s.turns = c.turns, s.stopped = c.stopped, s.closing = c.closing,
         s.running = c.running, s.asg = c.asg, DOMAIN s = Fields,
         NEW t, c' = [s EXCEPT !.turns[g] = t],
         \/ t.prompt = None
         \/ /\ t.prompt = c.turns[g].prompt /\ t.owed = c.turns[g].owed
            /\ t.pc = "unwinding" => c.stopped
  PROVE  Spares(c, c')
<1>1. /\ c'.turns = [c.turns EXCEPT ![g] = t] /\ c'.stopped = c.stopped /\ c'.closing = c.closing
      /\ c'.running = c.running /\ c'.asg = c.asg
  BY DEF Fields
<1>2. c'.turns[g] = t /\ \A h \in Turns \ {g} : c'.turns[h] = c.turns[h]
  BY <1>1 DEF Excusing, Record
<1>3. Lost(c') \subseteq Lost(c)
  <2>. SUFFICES ASSUME NEW h \in Turns, ~c'.turns[h].owed, c'.turns[h].prompt # None,
                       c'.stopped \/ c'.turns[h].pc = "unwinding"
                PROVE  c'.turns[h].prompt \in Lost(c)
    BY DEF Lost
  <2>1. CASE h # g
    BY <1>1, <1>2, <2>1 DEF Lost
  <2>2. CASE h = g
    BY <1>1, <1>2, <2>2 DEF Lost
  <2>. QED  BY <2>1, <2>2
<1>. QED  BY <1>1, <1>3 DEF Spares, Halted, OpenAssignment, HasAssignment

LEMMA GoesExcused ==
  ASSUME Excusing, Record(c'), NEW g \in Turns, c.turns[g].pc # "off", NEW pc, Goes(g, pc),
         UNCHANGED <<ended, excuse>>,
         c.turns[g].prompt = None \/ (pc = "unwinding" => ~Alive(g))
  PROVE  Excused'
<1>. DEFINE t == [c.turns[g] EXCEPT !.pc = pc]
<1>1. /\ t.pc = pc /\ t.prompt = c.turns[g].prompt /\ t.owed = c.turns[g].owed
      /\ c' = [c EXCEPT !.turns[g] = t]
  BY DEF Goes, Excusing, Record, TurnFields
<1>2. ~Alive(g) => c.stopped
  BY DEF Alive, Excusing, Single
<1>3. DOMAIN c = Fields
  BY DEF Excusing, Record
<1>. HIDE DEF t
<1>4. Spares(c, c')
  BY <1>1, <1>2, <1>3, TurnSpares
<1>. QED  BY <1>4, SparedExcused

LEMMA FailsExcused ==
  ASSUME Excusing, Record(c'), NEW g \in Turns, c.turns[g].pc # "off", Fails(g)
  PROVE  Excused'
<1>. DEFINE t == [c.turns[g] EXCEPT !.pc = "unwinding", !.prompt = None, !.rides = {},
                                    !.inject = <<>>]
            answered == (ToSet(c.turns[g].inject) \cup {c.turns[g].prompt}) \ {None}
<1>1. CASE ~Alive(g)
  <2>1. Goes(g, "unwinding") /\ UNCHANGED ended /\ Excuse("error", {})
    BY <1>1 DEF Fails, Goes
  <2>2. DOMAIN excuse' = {"error", "stop", "failure"} /\ Given' = Given
    BY <2>1, ExcuseGives DEF Excusing, Excused
  <2>. DEFINE u == [c.turns[g] EXCEPT !.pc = "unwinding"]
  <2>3. /\ u.pc = "unwinding" /\ u.prompt = c.turns[g].prompt /\ u.owed = c.turns[g].owed
        /\ c' = [c EXCEPT !.turns[g] = u] /\ DOMAIN c = Fields
    BY <2>1 DEF Goes, Excusing, Record, TurnFields
  <2>4. c.stopped
    BY <1>1 DEF Alive, Excusing, Single
  <2>. HIDE DEF u
  <2>5. Spares(c, c')
    BY <2>3, <2>4, TurnSpares
  <2>. QED  BY <2>1, <2>5, GivenExcused DEF Spares, Excusing, Excused
<1>2. CASE Alive(g)
  <2>1. /\ c' = [c EXCEPT !.turns[g] = t] /\ ended' = ended \cup answered
        /\ Excuse("error", answered)
    BY <1>2 DEF Fails
  <2>2. t.prompt = None /\ DOMAIN c = Fields
    BY DEF Excusing, Record, TurnFields
  <2>. HIDE DEF t, answered
  <2>3. Spares(c, c')
    BY <2>1, <2>2, TurnSpares
  <2>. QED  BY <2>1, <2>3, GivenExcused DEF Spares, Excusing, Excused
<1>. QED  BY <1>1, <1>2

LEMMA FinishingExcused == ASSUME Excusing, Record(c'), NEW g \in Turns, Finishing(g) PROVE Excused'
<1>. DEFINE s == [c EXCEPT !.turns[g] = NoTurn]
            t == [s EXCEPT !.running = FALSE, !.stopped = FALSE]
            n == StartNext(t, c.stopped)
<1>1. g = c.gen /\ UNCHANGED <<ended, excuse>> /\ c.turns[g].pc = "finishing"
  BY DEF Finishing, Excusing, Single
<1>2. /\ Record(t) /\ t.turns = [c.turns EXCEPT ![g] = NoTurn] /\ ~t.running /\ ~t.stopped
      /\ t.closing = c.closing /\ t.asg = c.asg
  BY NoTurnLemma DEF Excusing, Record, Fields
<1>3. Lost(t) \subseteq Lost(c)
  <2>1. NoTurn.prompt = None
    BY DEF NoTurn
  <2>2. \A h \in Turns : t.turns[h] = c.turns[h] \/ t.turns[h] = NoTurn
    BY <1>2 DEF Excusing, Record
  <2>. QED  BY <1>2, <2>1, <2>2 DEF Lost
<1>4. \/ /\ NeedsFollowUp(t) /\ FollowUp([t EXCEPT !.queue = Tail(@)], Head(t.queue))
      \/ /\ ~NeedsFollowUp(t)
         /\ c' = IF Started(t, c.stopped) \/ ~OpenAssignment(n) THEN n
                 ELSE IF c.stopped /\ ~n.asg.stop /\ ~n.closing
                   THEN [n EXCEPT !.asg.turn = "interrupted"]
                   ELSE Complete(n)
  BY <1>1 DEF Finishing
<1>. HIDE DEF s, t
<1>5. Lost(c') \subseteq Lost(c) /\ c'.closing = c.closing /\ Halted(c')
  <2>1. CASE NeedsFollowUp(t)
    <3>. DEFINE q == [t EXCEPT !.queue = Tail(@)]
    <3>1. /\ Record(q) /\ q.turns = t.turns /\ q.stopped = t.stopped /\ q.closing = t.closing
          /\ q.asg = t.asg /\ q.running = t.running
      BY <1>2 DEF Record, Fields
    <3>2. FollowUp(q, Head(t.queue))
      BY <1>4, <2>1
    <3>. HIDE DEF q
    <3>3. Spares(q, c')
      BY <3>1, <3>2, FollowUpSpares
    <3>4. Halted(q)
      BY <2>1, <3>1 DEF Halted, OpenAssignment, NeedsFollowUp
    <3>5. Lost(q) = Lost(t)
      BY <3>1 DEF Lost
    <3>. QED  BY <1>2, <1>3, <3>1, <3>3, <3>4, <3>5 DEF Spares
  <2>2. CASE ~NeedsFollowUp(t) /\ OpenAssignment(t) /\ t.asg.stop
    <3>1. n = t /\ ~Started(t, c.stopped)
      BY <2>2 DEF n, StartNext, Started, Admissible, OpenAssignment
    <3>. HIDE DEF n
    <3>2. c' = Complete(t)
      BY <1>4, <2>2, <3>1
    <3>3. /\ c'.turns = t.turns /\ c'.stopped = t.stopped /\ c'.closing = t.closing
          /\ c'.asg.terminal
      BY <1>2, <2>2, <3>2 DEF Complete, Record, Fields, AssignmentFields
    <3>4. Lost(c') = Lost(t)
      BY <3>3 DEF Lost
    <3>. QED  BY <1>2, <1>3, <3>3, <3>4 DEF Halted, OpenAssignment
  <2>3. CASE ~NeedsFollowUp(t) /\ ~(OpenAssignment(t) /\ t.asg.stop)
    <3>1. Spares(t, n) /\ Halted(t)
      BY <1>2, <2>3, NextSpares DEF Halted
    <3>. HIDE DEF n
    <3>2. \/ c' = n
          \/ /\ ~n.asg.stop /\ c' = [n EXCEPT !.asg.turn = "interrupted"]
          \/ OpenAssignment(n) /\ c' = Complete(n)
      BY <1>4, <2>3
    <3>3. /\ c'.turns = n.turns /\ c'.stopped = n.stopped /\ c'.closing = n.closing
          /\ Halted(n) => Halted(c')
      <4>1. Record(n)
        BY <3>1 DEF Spares
      <4>2. CASE c' = n
        BY <4>2
      <4>3. CASE ~n.asg.stop /\ c' = [n EXCEPT !.asg.turn = "interrupted"]
        BY <4>1, <4>3 DEF Halted, Record, Fields, AssignmentFields
      <4>4. CASE OpenAssignment(n) /\ c' = Complete(n)
        <5>1. /\ c'.turns = n.turns /\ c'.stopped = n.stopped /\ c'.closing = n.closing
              /\ c'.asg.terminal
          BY <4>1, <4>4 DEF Complete, Record, Fields, AssignmentFields
        <5>. QED  BY <5>1 DEF Halted, OpenAssignment
      <4>. QED  BY <3>2, <4>2, <4>3, <4>4
    <3>4. Lost(c') = Lost(n)
      BY <3>3 DEF Lost
    <3>. QED  BY <1>2, <1>3, <3>1, <3>3, <3>4 DEF Spares
  <2>. QED  BY <2>1, <2>2, <2>3
<1>6. Spares(c, c')
  BY <1>5 DEF Spares
<1>. QED  BY <1>1, <1>6, SparedExcused

LEMMA TurnStepExcused == ASSUME Excusing, Record(c'), NEW g \in Turns, TurnStep(g) PROVE Excused'
<1>1. CASE Delay(g)
  BY <1>1, GoesExcused DEF Delay, turnRest
<1>2. CASE Compacting(g)
  <2>1. c.turns[g].prompt = None
    BY <1>2 DEF Compacting, Excusing, Posted
  <2>. QED  BY <1>2, <2>1, GoesExcused DEF Compacting, turnRest
<1>3. CASE Opening(g)
  <2>. DEFINE t == [c.turns[g] EXCEPT !.pc = "inbox", !.prompt = None, !.rides = {}]
  <2>1. \/ c' = [c EXCEPT !.turns[g] = t] /\ UNCHANGED <<ended, excuse>>
        \/ Fails(g)
    BY <1>3 DEF Opening, turnRest
  <2>2. t.prompt = None /\ DOMAIN c = Fields
    BY DEF Excusing, Record, TurnFields
  <2>. HIDE DEF t
  <2>. QED  BY <1>3, <2>1, <2>2, FailsExcused, TurnSpares, SparedExcused DEF Opening
<1>4. CASE Inbox(g)
  <2>. DEFINE t == [c.turns[g] EXCEPT !.pc = "inference"]
              u == [c.turns[g] EXCEPT !.pc = "unwinding", !.prompt = None]
              r == [c EXCEPT !.inbox = 0]
              s == [c EXCEPT !.suppressed = TRUE]
  <2>1. UNCHANGED <<ended, excuse>> /\ c.turns[g].pc = "inbox"
    BY <1>4 DEF Inbox, turnRest
  <2>2. c.turns[g].prompt = None
    BY <2>1 DEF Excusing, Posted
  <2>3. t.prompt = None /\ u.prompt = None
    BY <2>2 DEF Excusing, Record, TurnFields
  <2>4. \/ Goes(g, "unwinding")
        \/ c' = [r EXCEPT !.turns[g] = t]
        \/ c' = [s EXCEPT !.turns[g] = u]
    BY <1>4 DEF Inbox, Excusing, Record, Fields
  <2>5. \A x \in {r, s} : /\ x.turns = c.turns /\ x.stopped = c.stopped /\ x.closing = c.closing
                          /\ x.running = c.running /\ x.asg = c.asg /\ DOMAIN x = Fields
    BY DEF Excusing, Record, Fields
  <2>. HIDE DEF t, u, r, s
  <2>6. CASE Goes(g, "unwinding")
    BY <2>1, <2>2, <2>6, GoesExcused
  <2>7. CASE c' = [r EXCEPT !.turns[g] = t]
    BY <2>1, <2>3, <2>5, <2>7, TurnSpares, SparedExcused
  <2>8. CASE c' = [s EXCEPT !.turns[g] = u]
    BY <2>1, <2>3, <2>5, <2>8, TurnSpares, SparedExcused
  <2>. QED  BY <2>4, <2>6, <2>7, <2>8
<1>5. CASE Inference(g)
  <2>1. c.turns[g].pc = "inference" /\ c.turns[g].prompt = None
    BY <1>5 DEF Inference, Excusing, Posted
  <2>2. CASE Fails(g)
    BY <2>1, <2>2, FailsExcused
  <2>3. CASE (\E pc \in {"unwinding", "boundary"} : Goes(g, pc)) /\ UNCHANGED <<ended, excuse>>
    BY <2>1, <2>3, GoesExcused
  <2>. DEFINE t == [c.turns[g] EXCEPT !.pc = "boundary"]
  <2>4. t.prompt = None
    BY <2>1 DEF Excusing, Record, TurnFields
  <2>5. ASSUME NEW work \in BOOLEAN,
               c' = [c EXCEPT !.turns[g].pc = "boundary", !.blocked = FALSE, !.resume = FALSE,
                              !.work = work],
               UNCHANGED <<ended, excuse>>
        PROVE  Excused'
    <3>. DEFINE s == [c EXCEPT !.blocked = FALSE, !.resume = FALSE, !.work = work]
    <3>1. /\ s.turns = c.turns /\ s.stopped = c.stopped /\ s.closing = c.closing
          /\ s.running = c.running /\ s.asg = c.asg /\ DOMAIN s = Fields
      BY DEF Excusing, Record, Fields
    <3>2. c' = [s EXCEPT !.turns[g] = t]
      BY <2>5 DEF Excusing, Record, Fields
    <3>3. UNCHANGED <<ended, excuse>>
      BY <2>5
    <3>. HIDE DEF s, t
    <3>4. Spares(c, c')
      BY <2>4, <3>1, <3>2, TurnSpares
    <3>. QED  BY <3>3, <3>4, SparedExcused
  <2>6. ASSUME c' = [c EXCEPT !.turns[g].pc = "boundary", !.blocked = TRUE],
               UNCHANGED <<ended, excuse>>
        PROVE  Excused'
    <3>. DEFINE s == [c EXCEPT !.blocked = TRUE]
    <3>1. /\ s.turns = c.turns /\ s.stopped = c.stopped /\ s.closing = c.closing
          /\ s.running = c.running /\ s.asg = c.asg /\ DOMAIN s = Fields
      BY DEF Excusing, Record, Fields
    <3>2. c' = [s EXCEPT !.turns[g] = t]
      BY <2>6 DEF Excusing, Record, Fields
    <3>3. UNCHANGED <<ended, excuse>>
      BY <2>6
    <3>. HIDE DEF s, t
    <3>4. Spares(c, c')
      BY <2>4, <3>1, <3>2, TurnSpares
    <3>. QED  BY <3>3, <3>4, SparedExcused
  <2>. QED  BY <1>5, <2>2, <2>3, <2>5, <2>6 DEF Inference, turnRest
<1>6. CASE Boundary(g)
  <2>. DEFINE s == [DrainWatch(c) EXCEPT !.queue = <<>>]
              t == [c.turns[g] EXCEPT !.pc = "feeding", !.inject = c.queue, !.rides = ToSet(c.events)]
  <2>1. /\ c.turns[g].pc = "boundary" /\ c.turns[g].prompt = None /\ UNCHANGED <<ended, excuse>>
    BY <1>6 DEF Boundary, turnRest, Excusing, Posted
  <2>2. /\ s.turns = c.turns /\ s.stopped = c.stopped /\ s.closing = c.closing
        /\ s.running = c.running /\ s.asg = c.asg /\ DOMAIN s = Fields /\ t.prompt = None
    BY <2>1 DEF DrainWatch, Excusing, Record, Fields, TurnFields
  <2>3. \/ c' = [s EXCEPT !.turns[g] = t]
        \/ Goes(g, "inbox")
    <3>1. DrainWatch(c).turns[g] = c.turns[g]
      BY DEF DrainWatch, Excusing, Record, Fields
    <3>. QED  BY <1>6, <3>1, <2>2 DEF Boundary, Goes, DrainWatch, Excusing, Record, Fields
  <2>. HIDE DEF s, t
  <2>4. CASE c' = [s EXCEPT !.turns[g] = t]
    BY <2>1, <2>2, <2>4, TurnSpares, SparedExcused
  <2>5. CASE Goes(g, "inbox")
    BY <2>1, <2>5, GoesExcused
  <2>. QED  BY <2>3, <2>4, <2>5
<1>7. CASE Feeding(g)
  <2>. DEFINE t == [c.turns[g] EXCEPT !.inject = Tail(@)]
              u == [c.turns[g] EXCEPT !.pc = "inbox", !.rides = {}]
  <2>1. c.turns[g].pc = "feeding" /\ c.turns[g].prompt = None /\ DOMAIN c = Fields
    BY <1>7 DEF Feeding, Excusing, Posted, Record
  <2>2. t.prompt = None /\ u.prompt = None
    BY <2>1 DEF Excusing, Record, TurnFields
  <2>3. \/ c' \in {[c EXCEPT !.turns[g] = t], [c EXCEPT !.turns[g] = u]} /\ UNCHANGED <<ended, excuse>>
        \/ Fails(g)
    BY <1>7 DEF Feeding, turnRest
  <2>. HIDE DEF t, u
  <2>. QED  BY <2>1, <2>2, <2>3, TurnSpares, SparedExcused, FailsExcused
<1>8. CASE Unwinding(g)
  <2>. DEFINE s == Requeue(c, Held(c.turns[g]))
              t == [NoTurn EXCEPT !.pc = "finishing", !.job = c.turns[g].job, !.wake = c.turns[g].wake]
  <2>1. /\ c.turns[g].pc = "unwinding" /\ c' = [s EXCEPT !.turns[g] = t] /\ UNCHANGED excuse
        /\ ended' = (ended \cup (IF c.closing THEN ToSet(Held(c.turns[g])) ELSE {})
                       \cup (IF c.turns[g].owed THEN {} ELSE {c.turns[g].prompt})) \ {None}
    BY <1>8 DEF Unwinding, turnRest
  <2>2. /\ s.turns = c.turns /\ s.stopped = c.stopped /\ s.closing = c.closing
        /\ s.running = c.running /\ s.asg = c.asg /\ DOMAIN s = Fields
    BY DEF Requeue, Excusing, Record, Fields
  <2>3. t.prompt = None
    BY DEF NoTurn
  <2>. HIDE DEF s, t
  <2>4. Spares(c, c')
    BY <2>1, <2>2, <2>3, TurnSpares
  <2>5. c.closing \/ ended' \subseteq ended \cup Lost(c)
    BY <2>1 DEF Lost
  <2>6. Lost(c)' = Lost(c') /\ Halted(c)' = Halted(c')
    BY DEF Lost, Halted
  <2>7. DOMAIN excuse' = {"error", "stop", "failure"} /\ Given' = Given
    BY <2>1 DEF Excusing, Excused, Given
  <2>. QED  BY <2>4, <2>5, <2>6, <2>7 DEF Excusing, Excused, Spares
<1>. QED  BY <1>1, <1>2, <1>3, <1>4, <1>5, <1>6, <1>7, <1>8, FinishingExcused DEF TurnStep

LEMMA RunnerExcused ==
  ASSUME Excusing, Record(c'), ViewReady \/ \E j \in Jobs : RunnerStep(j) \/ CancelJob(j)
  PROVE  Excused'
<1>1. CASE ViewReady
  <2>1. PICK outcome : c' = [c EXCEPT !.view = outcome]
    BY <1>1 DEF ViewReady
  <2>2. /\ c'.turns = c.turns /\ c'.stopped = c.stopped /\ c'.closing = c.closing
        /\ c'.running = c.running /\ c'.asg = c.asg
    BY <2>1 DEF Excusing, Record, Fields
  <2>. QED  BY <1>1, <2>2, KeptExcused DEF ViewReady
<1>2. ASSUME NEW j \in Jobs, Claim(j) PROVE Excused'
  <2>1. /\ UNCHANGED <<ended, excuse>>
        /\ \/ c' = c
           \/ c' = [c EXCEPT !.asg.claimed = TRUE]
           \/ c' = [c EXCEPT !.asg = [NewAssignment(j) EXCEPT !.claimed = TRUE]]
    BY <1>2 DEF Claim
  <2>2. CASE c' = c
    BY <2>1, <2>2, KeptExcused
  <2>3. CASE c' = [c EXCEPT !.asg.claimed = TRUE]
    <3>1. /\ c'.turns = c.turns /\ c'.stopped = c.stopped /\ c'.closing = c.closing
          /\ c'.running = c.running /\ c'.asg.job = c.asg.job /\ c'.asg.stop = c.asg.stop
          /\ c'.asg.terminal = c.asg.terminal
      BY <2>3 DEF Excusing, Record, Fields, AssignmentFields
    <3>. QED  BY <2>1, <3>1, KeptExcused
  <2>4. CASE c' = [c EXCEPT !.asg = [NewAssignment(j) EXCEPT !.claimed = TRUE]]
    <3>1. /\ c'.turns = c.turns /\ c'.stopped = c.stopped /\ c'.closing = c.closing
          /\ ~c'.asg.stop
      BY <2>4 DEF Excusing, Record, Fields, NewAssignment
    <3>2. Spares(c, c')
      BY <3>1, SameSpares DEF Halted
    <3>. QED  BY <2>1, <3>2, SparedExcused
  <2>. QED  BY <2>1, <2>2, <2>3, <2>4
<1>3. ASSUME NEW s, Record(s), s.turns = c.turns, s.gen = c.gen, s.running = c.running,
             s.switching = c.switching, s.stopped = c.stopped, s.closing = c.closing, s.asg = c.asg
      PROVE  /\ Spares(c, s) /\ Single(s) /\ Posted(s) /\ Halted(s) /\ Lost(s) = Lost(c)
  <2>1. Spares(c, s)
    BY <1>3, SameSpares DEF Halted, OpenAssignment, HasAssignment
  <2>. QED  BY <1>3, <2>1 DEF Excusing, Excused, Single, Posted, Spares, Lost
<1>4. ASSUME NEW s, Record(s), s.turns = c.turns, s.gen = c.gen, s.running = c.running,
             s.switching = c.switching, s.stopped = c.stopped, s.closing = c.closing, s.asg = c.asg,
             NEW ps, c' = Requeue(StopAssignment(s), ps),
             ended' = ended \cup Dropped(s, StopAssignment(s)),
             NEW kind \in {"error", "stop", "failure"}, Excuse(kind, Struck(s))
      PROVE  Excused'
  <2>. DEFINE t == StopAssignment(s)
  <2>1. Single(s) /\ Posted(s) /\ Halted(s) /\ Lost(s) = Lost(c)
    BY <1>3, <1>4
  <2>2. /\ Record(t) /\ t.closing = s.closing /\ Halted(t)
        /\ Lost(t) \cup Dropped(s, t) \subseteq Lost(s) \cup Struck(s)
    BY <1>4, <2>1, StopStrikes
  <2>. HIDE DEF t
  <2>3. /\ c'.turns = t.turns /\ c'.stopped = t.stopped /\ c'.closing = t.closing
        /\ c'.asg = t.asg /\ c'.running = t.running
    BY <1>4, <2>2 DEF t, Requeue, Record, Fields
  <2>4. Lost(c') = Lost(t) /\ Halted(c')
    BY <2>2, <2>3 DEF Lost, Halted, OpenAssignment, HasAssignment
  <2>5. ended' \cup Lost(c') \subseteq ended \cup Lost(c) \cup Struck(s)
    BY <1>4, <2>1, <2>2, <2>4 DEF t
  <2>6. c.closing => c'.closing
    BY <1>4, <2>2, <2>3
  <2>. HIDE <1>3
  <2>. QED  BY <1>4, <2>4, <2>5, <2>6, GivenExcused
<1>5. ASSUME NEW j \in Jobs, BindFails(j) PROVE Excused'
  <2>1. CASE Over(c, j)
    BY <1>5, <2>1, KeptExcused DEF BindFails
  <2>2. CASE ~Over(c, j)
    <3>1. /\ c' = Requeue(StopAssignment(c), <<runner[j].prompt>>)
          /\ ended' = ended \cup Dropped(c, StopAssignment(c)) /\ Excuse("failure", Struck(c))
      BY <1>5, <2>2 DEF BindFails
    <3>2. Record(c)
      BY DEF Excusing
    <3>. QED  BY <1>4, <3>1, <3>2
  <2>. QED  BY <2>1, <2>2
<1>6. ASSUME c' = StopAssignment(c), ended' = ended \cup Dropped(c, c'),
             NEW kind \in {"error", "stop", "failure"}, Excuse(kind, Struck(c))
      PROVE  Excused'
  <2>1. /\ c'.closing = c.closing /\ Halted(c')
        /\ Lost(c') \cup Dropped(c, c') \subseteq Lost(c) \cup Struck(c)
    BY <1>6, StopStrikes DEF Excusing, Excused
  <2>. QED  BY <1>6, <2>1, GivenExcused
<1>7. ASSUME NEW j \in Jobs, Attach(j) PROVE Excused'
  <2>1. CASE UNCHANGED <<c, ended, excuse>>
    BY <2>1, KeptExcused
  <2>2. CASE /\ c' = IF c.view = "failed" THEN StopJob(c, j) ELSE c
             /\ ended' = ended \cup Dropped(c, c')
             /\ Excuse("failure", IF c.view = "failed" /\ ~Over(c, j) THEN Struck(c) ELSE {})
    <3>1. CASE c.view = "failed" /\ ~Over(c, j)
      BY <1>6, <2>2, <3>1 DEF StopJob, Over
    <3>2. CASE ~(c.view = "failed" /\ ~Over(c, j))
      <4>1. c' = c
        BY <2>2, <3>2 DEF StopJob, Over, StopAssignment, OpenAssignment
      <4>2. /\ ended' = ended /\ Excuse("failure", {})
        BY <2>2, <3>2, <4>1 DEF Dropped
      <4>3. ended' \cup Lost(c') \subseteq ended \cup Lost(c) \cup {}
        BY <4>1, <4>2
      <4>4. Halted(c')
        BY <4>1 DEF Excusing, Excused
      <4>. QED  BY <4>1, <4>2, <4>3, <4>4, GivenExcused
    <3>. QED  BY <3>1, <3>2
  <2>. QED  BY <1>7, <2>1, <2>2 DEF Attach
<1>8. ASSUME NEW j \in Jobs, Begin(j) PROVE Excused'
  <2>. DEFINE s == [c EXCEPT !.attached = FALSE]
              p == runner[j].prompt
              q == [s EXCEPT !.queue = Tail(@)]
  <2>1. /\ Record(s) /\ s.turns = c.turns /\ s.gen = c.gen /\ s.running = c.running
        /\ s.switching = c.switching /\ s.stopped = c.stopped /\ s.closing = c.closing
        /\ s.asg = c.asg
    BY DEF Excusing, Record, Fields
  <2>2. \/ /\ c' = Requeue(StopAssignment(s), Owed(p, TRUE))
           /\ ended' = ended \cup Dropped(s, StopAssignment(s))
           /\ \E kind \in {"stop", "failure"} : Excuse(kind, Struck(s))
        \/ /\ c' \in {s, StartPrompt(s, p, TRUE, FALSE), StartPrompt(q, Head(s.queue), TRUE, FALSE)}
           /\ UNCHANGED <<ended, excuse>>
    BY <1>8 DEF Begin
  <2>. HIDE DEF s, p
  <2>3. CASE /\ c' = Requeue(StopAssignment(s), Owed(p, TRUE))
             /\ ended' = ended \cup Dropped(s, StopAssignment(s))
             /\ \E kind \in {"stop", "failure"} : Excuse(kind, Struck(s))
    BY <1>4, <2>1, <2>3
  <2>4. CASE /\ c' \in {s, StartPrompt(s, p, TRUE, FALSE), StartPrompt(q, Head(s.queue), TRUE, FALSE)}
             /\ UNCHANGED <<ended, excuse>>
    <3>1. /\ Record(q) /\ q.turns = s.turns /\ q.gen = s.gen /\ q.running = s.running
          /\ q.switching = s.switching /\ q.stopped = s.stopped /\ q.closing = s.closing
          /\ q.asg = s.asg
      BY <2>1 DEF Record, Fields
    <3>. HIDE DEF q
    <3>2. Spares(c, s) /\ Spares(c, q)
      BY <1>3, <2>1, <3>1
    <3>3. /\ Spares(s, StartPrompt(s, p, TRUE, FALSE))
          /\ Spares(q, StartPrompt(q, Head(s.queue), TRUE, FALSE))
      BY <2>1, <3>1, StartSpares
    <3>4. Spares(c, StartPrompt(s, p, TRUE, FALSE)) /\ Spares(c, StartPrompt(q, Head(s.queue), TRUE, FALSE))
      <4>1. Spares(c, StartPrompt(s, p, TRUE, FALSE))
        BY <3>2, <3>3, SparesTwice
      <4>2. Spares(c, StartPrompt(q, Head(s.queue), TRUE, FALSE))
        BY <3>2, <3>3, SparesTwice
      <4>. QED  BY <4>1, <4>2
    <3>5. \/ c' = s
          \/ c' = StartPrompt(s, p, TRUE, FALSE)
          \/ c' = StartPrompt(q, Head(s.queue), TRUE, FALSE)
      BY <2>4
    <3>6. Spares(c, c')
      BY <3>2, <3>4, <3>5
    <3>. QED  BY <2>4, <3>6, SparedExcused
  <2>. QED  BY <2>2, <2>3, <2>4
<1>9. ASSUME NEW j \in Jobs, Done(j) \/ CancelJob(j) PROVE Excused'
  BY <1>9, KeptExcused DEF Done, CancelJob
<1>10. ASSUME NEW j \in Jobs, ContextEnds(j) PROVE Excused'
  BY <1>6, <1>10 DEF ContextEnds
<1>. QED  BY <1>1, <1>2, <1>5, <1>7, <1>8, <1>9, <1>10 DEF RunnerStep

LEMMA ExcusedInit == Init => Excused
<1>. SUFFICES ASSUME Init PROVE Excused
  OBVIOUS
<1>1. /\ \A g \in Turns : c.turns[g].prompt = None
      /\ ended = {} /\ excuse = [error |-> {}, stop |-> {}, failure |-> {}] /\ ~c.asg.stop
  BY DEF Init, NoTurn, NewAssignment
<1>2. Lost(c) = {}
  BY <1>1 DEF Lost
<1>. QED  BY <1>1, <1>2 DEF Excused, Halted

LEMMA ExcusedNext == ASSUME Excusing, [Next]_vars PROVE Excused'
<1>1. Record(c')
  BY NextGood DEF Excusing, Good
<1>2. CASE Next
  BY <1>1, <1>2, UserExcused, BackgroundExcused, TurnStepExcused, RunnerExcused DEF Next
<1>3. CASE UNCHANGED vars
  BY <1>1, <1>3, KeptExcused DEF vars
<1>. QED  BY <1>2, <1>3

LEMMA InLineAccounts == InLine /\ Excused => PromptsAccounted
<1>. SUFFICES ASSUME InLine, ~c.closing, NEW p \in ToSet(accepted)
              PROVE  Cardinality(Places(p)) = 1
  BY DEF PromptsAccounted, Excused, Given
<1>. DEFINE Q == {i \in DOMAIN c.queue : c.queue[i] = p}
            G == {g \in Turns : p \in Hand(c.turns[g])}
            L == {i \in DOMAIN log : log[i] = p}
            E == IF p \in ended THEN {<<"ended", 0>>} ELSE {}
            R == IF p \in recalled THEN {<<"recalled", 0>>} ELSE {}
<1>1. Places(p) = {<<"queue", i>> : i \in Q} \cup {<<"turn", g>> : g \in G}
                    \cup {<<"log", i>> : i \in L} \cup E \cup R
  <2>1. {j \in Jobs : runner[j].prompt = p /\ runner[j].pc \in {"starting", "attaching", "beginning"}} = {}
    BY DEF InLine, Root
  <2>2. p # None
    BY Disjoint, NoneAssumption
  <2>3. {g \in Turns : p \in ToSet(c.turns[g].inject) \cup {c.turns[g].prompt}} = G
    BY <2>2 DEF Hand
  <2>. QED  BY <2>1, <2>3 DEF Places
<1>2. IF p \in ToSet(c.queue) THEN \E i : Q = {i} ELSE Q = {}
  BY OneIndex DEF InLine, Accounts, Lined
<1>3. IF p \in Hands(c) THEN \E g : G = {g} ELSE G = {}
  BY OneTurn
<1>4. IF p \in ToSet(log) THEN \E i : L = {i} ELSE L = {}
  BY OneIndex DEF InLine, Accounts
<1>5. /\ p \in ToSet(log) => p \notin Hands(c) /\ p \notin ToSet(c.queue)
      /\ p \in Hands(c) => p \notin ToSet(c.queue)
      /\ p \in ended => p \notin recalled
      /\ p \in ended \cup recalled => p \notin ToSet(log) /\ p \notin Hands(c) /\ p \notin ToSet(c.queue)
      /\ p \in ToSet(log) \cup Hands(c) \cup ToSet(c.queue) \cup ended \cup recalled
  BY Disjoint
<1>. HIDE DEF Q, G, L
<1>6. \E x : Places(p) = {x}
  <2>1. CASE p \in ToSet(log)
    <3>1. PICK i : L = {i}
      BY <1>4, <2>1
    <3>2. Q = {} /\ G = {} /\ E = {} /\ R = {}
      BY <1>2, <1>3, <1>5, <2>1
    <3>3. Places(p) = {<<"log", i>>}
      BY <1>1, <3>1, <3>2
    <3>. QED  BY <3>3
  <2>2. CASE p \in Hands(c)
    <3>1. PICK g : G = {g}
      BY <1>3, <2>2
    <3>2. Q = {} /\ L = {} /\ E = {} /\ R = {}
      BY <1>2, <1>4, <1>5, <2>2
    <3>3. Places(p) = {<<"turn", g>>}
      BY <1>1, <3>1, <3>2
    <3>. QED  BY <3>3
  <2>3. CASE p \in ToSet(c.queue)
    <3>1. PICK i : Q = {i}
      BY <1>2, <2>3
    <3>2. G = {} /\ L = {} /\ E = {} /\ R = {}
      BY <1>3, <1>4, <1>5, <2>3
    <3>3. Places(p) = {<<"queue", i>>}
      BY <1>1, <3>1, <3>2
    <3>. QED  BY <3>3
  <2>4. CASE p \in ended \cup recalled
    <3>1. Q = {} /\ G = {} /\ L = {}
      BY <1>2, <1>3, <1>4, <1>5, <2>4
    <3>2. \/ E = {<<"ended", 0>>} /\ R = {}
          \/ E = {} /\ R = {<<"recalled", 0>>}
      BY <1>5, <2>4
    <3>3. Places(p) = E \cup R
      BY <1>1, <3>1
    <3>. QED  BY <3>2, <3>3
  <2>. QED  BY <1>5, <2>1, <2>2, <2>3, <2>4
<1>. QED  BY <1>6, FS_Singleton

LEMMA InLineFifo == InLine => Fifo
BY DEF InLine, Accounts, Sorted, Before, Fifo

LEMMA InLineExcusing == InLine /\ Excused => Excusing
BY DEF Excusing, InLine, Root, Accounts, Lined, Holds, Posted

\* Prompts the user sends while a model is configured reach the session in that
\* order, each of them once.  Esc, /compact, a revoked plan, a failing request, a
\* switch of the conversation or Close may cut anything short: a prompt is in the
\* queue, in one turn, in the session, taken back, or given up, and while the
\* session is open it is given up only when an error row answers it, when Esc
\* cuts the turn that holds it after its row was drawn and before it is appended
\* (requeueLocked), or when the plan it waits under loses its approval.
\* A model that disappears may let a later prompt overtake (TurnsModel.cfg).
THEOREM PromptsStayInOrder == ~IsChild /\ ~MayLoseModel => (Spec => []PromptsInOrder)
<1>. SUFFICES ASSUME ~IsChild, ~MayLoseModel PROVE Spec => []PromptsInOrder
  OBVIOUS
<1>1. Init => InLine /\ Excused
  BY InLineInit, ExcusedInit
<1>2. InLine /\ Excused /\ [Next]_vars => InLine' /\ Excused'
  BY InLineNext, InLineExcusing, ExcusedNext
<1>3. InLine /\ Excused => PromptsInOrder
  BY InLineAccounts, InLineFifo DEF PromptsInOrder
<1>. QED  BY <1>1, <1>2, <1>3, PTL DEF Spec

(***************************************************************************)
(* Prompts of a child.  Their order is not promised there, so what is      *)
(* asked of the sequences is that they name a prompt once.                 *)
(***************************************************************************)

LEMMA OnceSorted ==
  ASSUME NEW a, Once(a), NEW q \in Seq(Prompts)
  PROVE  Sorted(a, a) /\ (Sorted(a, q) => Once(q))
<1>1. Sorted(a, a)
  BY DEF Sorted, Before
<1>2. ASSUME Sorted(a, q), NEW i \in DOMAIN q, NEW k \in DOMAIN q, q[i] = q[k]
      PROVE  i = k
  <2>1. ~(i < k) /\ ~(k < i)
    BY <1>2, BeforeApart DEF Sorted
  <2>2. i \in Int /\ k \in Int
    OBVIOUS
  <2>. QED  BY <2>1, <2>2
<1>. QED  BY <1>1, <1>2 DEF Once

LEMMA OnceEmpty == Once(<<>>) /\ ToSet(<<>>) = {}
BY DEF Once, ToSet

LEMMA OnceFirst ==
  ASSUME NEW q, Once(q), q # <<>>
  PROVE  /\ Head(q) \in Prompts /\ Once(Tail(q))
         /\ ToSet(q) = {Head(q)} \cup ToSet(Tail(q)) /\ Head(q) \notin ToSet(Tail(q))
<1>1. q \in Seq(Prompts) /\ Sorted(q, q)
  BY OnceSorted DEF Once
<1>2. /\ Head(q) \in Prompts /\ Tail(q) \in Seq(Prompts)
      /\ ToSet(q) = {Head(q)} \cup ToSet(Tail(q))
      /\ Sorted(q, Tail(q)) /\ Ahead(q, {Head(q)}, ToSet(Tail(q)))
  BY <1>1, First
<1>3. Once(Tail(q))
  BY <1>2, OnceSorted
<1>4. Head(q) \notin ToSet(Tail(q))
  BY <1>2, BeforeApart DEF Ahead
<1>. QED  BY <1>2, <1>3, <1>4

LEMMA OnceFinal ==
  ASSUME NEW q, Once(q), q # <<>>
  PROVE  /\ Last(q) \in Prompts /\ Once(Front(q))
         /\ ToSet(q) = ToSet(Front(q)) \cup {Last(q)} /\ Last(q) \notin ToSet(Front(q))
<1>1. q \in Seq(Prompts) /\ Sorted(q, q)
  BY OnceSorted DEF Once
<1>2. /\ Last(q) \in Prompts /\ Front(q) \in Seq(Prompts)
      /\ ToSet(q) = ToSet(Front(q)) \cup {Last(q)}
      /\ Sorted(q, Front(q)) /\ Ahead(q, ToSet(Front(q)), {Last(q)})
  BY <1>1, Final
<1>3. Once(Front(q))
  BY <1>2, OnceSorted
<1>4. Last(q) \notin ToSet(Front(q))
  BY <1>2, BeforeApart DEF Ahead
<1>. QED  BY <1>2, <1>3, <1>4

LEMMA OnceAppended ==
  ASSUME NEW q, Once(q), NEW p \in Prompts, p \notin ToSet(q)
  PROVE  Once(Append(q, p)) /\ ToSet(Append(q, p)) = ToSet(q) \cup {p}
BY Accepting

LEMMA OnceJoined ==
  ASSUME NEW q, Once(q), NEW r, Once(r), ToSet(q) \cap ToSet(r) = {}
  PROVE  Once(q \o r) /\ ToSet(q \o r) = ToSet(q) \cup ToSet(r)
<1>. DEFINE b == q \o r
<1>1. b \in Seq(Prompts) /\ Len(b) = Len(q) + Len(r)
  BY DEF Once
<1>2. \A i \in 1..Len(q) : b[i] = q[i]
  BY DEF Once
<1>3. \A i \in 1..Len(r) : b[Len(q) + i] = r[i]
  BY DEF Once
<1>4. /\ DOMAIN b = 1..Len(b) /\ DOMAIN q = 1..Len(q) /\ DOMAIN r = 1..Len(r)
      /\ Len(q) \in Nat /\ Len(r) \in Nat
  BY <1>1 DEF Once
<1>. HIDE DEF b
<1>5. \A i \in DOMAIN b : \/ i \in DOMAIN q /\ b[i] = q[i]
                          \/ i - Len(q) \in DOMAIN r /\ b[i] = r[i - Len(q)] /\ i \notin DOMAIN q
  <2>. SUFFICES ASSUME NEW i \in DOMAIN b, i \notin DOMAIN q
                PROVE  i - Len(q) \in DOMAIN r /\ b[i] = r[i - Len(q)]
    BY <1>2, <1>4
  <2>1. i - Len(q) \in 1..Len(r) /\ i = Len(q) + (i - Len(q))
    BY <1>1, <1>4
  <2>. QED  BY <1>3, <1>4, <2>1
<1>6. ToSet(b) = ToSet(q) \cup ToSet(r)
  <2>1. ToSet(b) \subseteq ToSet(q) \cup ToSet(r)
    BY <1>5 DEF ToSet
  <2>2. ToSet(q) \subseteq ToSet(b)
    BY <1>1, <1>2, <1>4 DEF ToSet
  <2>3. ToSet(r) \subseteq ToSet(b)
    <3>1. \A i \in DOMAIN r : Len(q) + i \in DOMAIN b /\ b[Len(q) + i] = r[i]
      BY <1>1, <1>3, <1>4
    <3>. QED  BY <3>1, Zenon DEF ToSet
  <2>. QED  BY <2>1, <2>2, <2>3
<1>7. ASSUME NEW i \in DOMAIN b, NEW k \in DOMAIN b, b[i] = b[k]
      PROVE  i = k
  <2>1. CASE i \in DOMAIN q /\ k \in DOMAIN q
    BY <1>2, <1>4, <1>7, <2>1 DEF Once
  <2>2. CASE i \notin DOMAIN q /\ k \notin DOMAIN q
    <3>1. i - Len(q) = k - Len(q)
      BY <1>5, <1>7, <2>2 DEF Once
    <3>2. i \in Int /\ k \in Int /\ Len(q) \in Int
      BY <1>1, <1>4
    <3>. QED  BY <3>1, <3>2
  <2>3. CASE ~(i \in DOMAIN q <=> k \in DOMAIN q)
    <3>1. \/ b[i] \in ToSet(q) /\ b[k] \in ToSet(r)
          \/ b[i] \in ToSet(r) /\ b[k] \in ToSet(q)
      BY <1>5, <2>3 DEF ToSet
    <3>. QED  BY <1>7, <3>1
  <2>. QED  BY <2>1, <2>2, <2>3
<1>. QED  BY <1>1, <1>6, <1>7 DEF b, Once

LEMMA OnceOne ==
  ASSUME NEW p \in Prompts
  PROVE  Once(<<p>>) /\ ToSet(<<p>>) = {p}
BY DEF Once, ToSet

\* A turn holds its opening prompt until that is appended, or what it drained.
Clean(t) ==
  /\ t.prompt \in Prompts \cup {None} /\ Once(t.inject)
  /\ t.prompt # None => t.pc \in {"delay", "opening", "unwinding"} /\ t.inject = <<>>
  /\ t.inject # <<>> => t.pc \in {"feeding", "unwinding"}

\* The record names a prompt once.
Neat(s) ==
  /\ Once(s.queue)
  /\ \A g \in Turns : Clean(s.turns[g])
  /\ Hands(s) \cap ToSet(s.queue) = {}

\* Fields of the controller that no turn and no stop touches.
Sees(s, t) == t.closing = s.closing /\ t.attached = s.attached /\ t.view = s.view

LEMMA CleanHand ==
  ASSUME NEW t, Clean(t), t.pc \notin {"delay", "opening", "unwinding", "feeding"}
  PROVE  Hand(t) = {}
<1>1. t.prompt = None /\ t.inject = <<>>
  BY DEF Clean
<1>. QED  BY <1>1, OnceEmpty DEF Hand

LEMMA CleanHands ==
  ASSUME NEW s, Single(s), Neat(s)
  PROVE  /\ ~s.running => Hands(s) = {}
         /\ \A g \in Turns : s.turns[g].pc # "off" => Hands(s) = Hand(s.turns[g])
<1>1. \A h \in Turns : s.turns[h].pc = "off" => Hand(s.turns[h]) = {}
  BY CleanHand DEF Neat
<1>2. ~s.running => Hands(s) = {}
  BY <1>1 DEF Single, Hands
<1>3. ASSUME NEW g \in Turns, s.turns[g].pc # "off"
      PROVE  Hands(s) = Hand(s.turns[g])
  <2>1. \A h \in Turns \ {g} : Hand(s.turns[h]) = {}
    BY <1>1, <1>3 DEF Single
  <2>. QED  BY <2>1 DEF Hands
<1>. QED  BY <1>2, <1>3

LEMMA NeatKept ==
  ASSUME NEW s, NEW t, t.turns = s.turns, t.queue = s.queue
  PROVE  (Neat(s) => Neat(t)) /\ Kept(t) = Kept(s) /\ Hands(t) = Hands(s)
BY DEF Neat, Kept, Hands

\* What is put back in front of the queue.
LEMMA RequeuePlaces ==
  ASSUME NEW s, Record(s), Neat(s), NEW ps, Once(ps), ToSet(ps) \cap Kept(s) = {}
  PROVE  LET t == Requeue(s, ps) IN
         /\ Neat(t) /\ t.turns = s.turns /\ t.running = s.running /\ t.asg = s.asg /\ Sees(s, t)
         /\ ToSet(t.queue) = IF s.closing THEN ToSet(s.queue) ELSE ToSet(ps) \cup ToSet(s.queue)
         /\ Kept(t) = IF s.closing THEN Kept(s) ELSE Kept(s) \cup ToSet(ps)
<1>1. CASE s.closing
  BY <1>1 DEF Requeue, Sees
<1>2. CASE ~s.closing
  <2>. DEFINE t == [s EXCEPT !.queue = ps \o @]
  <2>1. /\ t.turns = s.turns /\ t.running = s.running /\ t.asg = s.asg
        /\ Sees(s, t) /\ t.queue = ps \o s.queue
    BY DEF Record, Fields, Sees
  <2>2. Requeue(s, ps) = t
    BY <1>2 DEF Requeue
  <2>. HIDE DEF t
  <2>3. Once(t.queue) /\ ToSet(t.queue) = ToSet(ps) \cup ToSet(s.queue)
    BY <2>1, OnceJoined DEF Neat, Kept
  <2>4. Hands(t) = Hands(s)
    BY <2>1 DEF Hands
  <2>5. Neat(t) /\ Kept(t) = Kept(s) \cup ToSet(ps)
    BY <2>1, <2>3, <2>4 DEF Neat, Kept
  <2>. QED  BY <1>2, <2>1, <2>2, <2>3, <2>5
<1>. QED  BY <1>1, <1>2

\* A stop drops the queue of an open assignment, and nothing else.
LEMMA StopPlaces ==
  ASSUME NEW s, Record(s), Neat(s)
  PROVE  LET t == StopAssignment(s) IN
         /\ Neat(t) /\ t.turns = s.turns /\ t.running = s.running /\ Sees(s, t)
         /\ t.asg.job = s.asg.job
         /\ t.queue \in {s.queue, <<>>}
         /\ OpenAssignment(s) => t.queue = <<>>
         /\ OpenAssignment(s) /\ ~s.running => t.asg.terminal /\ t.asg.turn = "idle"
<1>. DEFINE r == [s EXCEPT !.asg.stop = TRUE, !.queue = <<>>]
            u == [r EXCEPT !.stopped = TRUE, !.asg.turn = "interrupting"]
            v == [r EXCEPT !.asg.terminal = TRUE, !.asg.turn = "idle"]
<1>1. /\ Record(r) /\ r.turns = s.turns /\ r.running = s.running /\ Sees(s, r)
      /\ r.asg.job = s.asg.job /\ r.asg.terminal = s.asg.terminal /\ r.queue = <<>>
  BY DEF Record, Fields, AssignmentFields, Sees
<1>2. OpenAssignment(r) <=> OpenAssignment(s)
  <2>. HIDE DEF r
  <2>. QED  BY <1>1 DEF OpenAssignment, HasAssignment
<1>3. \/ StopAssignment(s) = s /\ ~OpenAssignment(s)
      \/ StopAssignment(s) = u /\ s.running
      \/ StopAssignment(s) = v /\ ~s.running
  BY <1>2 DEF StopAssignment, Complete
<1>4. /\ u.turns = s.turns /\ u.running = s.running /\ Sees(s, u)
      /\ u.asg.job = s.asg.job /\ u.queue = <<>>
      /\ v.turns = s.turns /\ v.running = s.running /\ Sees(s, v)
      /\ v.asg.job = s.asg.job /\ v.queue = <<>> /\ v.asg.terminal /\ v.asg.turn = "idle"
  <2>. HIDE DEF r
  <2>. QED  BY <1>1 DEF Record, Fields, AssignmentFields, Sees
<1>. HIDE DEF u, v
<1>5. \A t : t.turns = s.turns /\ t.queue = <<>> => Neat(t)
  BY OnceEmpty DEF Neat, Hands
<1>. QED  BY <1>3, <1>4, <1>5 DEF Sees

LEMMA DroppedPlaces ==
  ASSUME NEW s, Neat(s), NEW t, t.turns = s.turns, t.queue \in {s.queue, <<>>}
  PROVE  Kept(t) \cup Dropped(s, t) = Kept(s) /\ Kept(t) \cap Dropped(s, t) = {}
<1>1. Hands(t) = Hands(s)
  BY DEF Hands
<1>. QED  BY <1>1, OnceEmpty DEF Dropped, Kept, Neat

LEMMA OwedPlaces ==
  ASSUME NEW p \in Prompts \cup {None}
  PROVE  /\ Once(Owed(p, TRUE)) /\ ToSet(Owed(p, TRUE)) = {p} \ {None}
         /\ Once(Owed(p, FALSE)) /\ ToSet(Owed(p, FALSE)) = {}
BY OnceOne, OnceEmpty DEF Owed

\* A start takes its prompt in hand or, if that is still owed, puts it back.
LEMMA StartPlaces ==
  ASSUME NEW s, Record(s), Lone(s), ~s.running, Neat(s),
         NEW p \in Prompts \cup {None}, p \notin ToSet(s.queue), NEW owed, NEW wake
  PROVE  LET t == StartPrompt(s, p, owed, wake) IN
         /\ Neat(t) /\ Sees(s, t)
         /\ Kept(t) = IF t.running THEN Kept(s) \cup ({p} \ {None})
                      ELSE IF s.closing THEN Kept(s)
                      ELSE Kept(s) \cup ToSet(Owed(p, owed))
<1>. DEFINE d == DrainWatch(s)
            o == Owed(p, owed)
            g == CHOOSE g \in Turns \ {s.gen} : s.turns[g].pc = "off"
            new == [NoTurn EXCEPT !.pc = "delay", !.prompt = p, !.owed = owed, !.wake = wake,
                                  !.rides = ToSet(s.events), !.job = s.asg.job]
            u == [d EXCEPT !.running = TRUE, !.stopped = FALSE, !.blocked = FALSE,
                          !.resume = FALSE, !.gen = g,
                          !.turns[g] = new,
                          !.asg.turn = IF HasAssignment(s) THEN "running" ELSE @]
<1>1. /\ Record(d) /\ d.turns = s.turns /\ d.queue = s.queue /\ d.running = s.running /\ Sees(s, d)
  BY DrainLemma DEF Keeps, Record, Fields, DrainWatch, Sees
<1>2. new.prompt = p /\ new.inject = <<>> /\ new.pc = "delay"
  BY DEF NoTurn
<1>3. \A h \in Turns : s.turns[h].pc = "off"
  BY DEF Lone, Working, Single
<1>4. g \in Turns
  BY <1>3 DEF Turns
<1>5. Once(o) /\ ToSet(o) \subseteq {p}
  BY OnceOne, OnceEmpty DEF Owed
<1>6. \/ StartPrompt(s, p, owed, wake) \in {Requeue(s, o), Requeue(d, o)}
      \/ StartPrompt(s, p, owed, wake) = u
  BY DEF StartPrompt
<1>. HIDE DEF g, new, d, o
<1>7. Hands(s) = {}
  BY CleanHands DEF Lone, Working
<1>8. ASSUME NEW r \in {s, d}
      PROVE  LET t == Requeue(r, o) IN
             /\ Neat(t) /\ Sees(s, t) /\ ~t.running
             /\ Kept(t) = IF s.closing THEN Kept(s) ELSE Kept(s) \cup ToSet(o)
  <2>1. /\ Record(r) /\ Neat(r) /\ Kept(r) = Kept(s) /\ Sees(s, r) /\ ~r.running
        /\ r.queue = s.queue
    BY <1>1, NeatKept DEF Sees
  <2>2. ToSet(o) \cap Kept(r) = {}
    BY <1>5, <1>7, <2>1 DEF Kept
  <2>. DEFINE t == Requeue(r, o)
  <2>3. /\ Neat(t) /\ t.running = r.running /\ Sees(r, t)
        /\ Kept(t) = IF r.closing THEN Kept(r) ELSE Kept(r) \cup ToSet(o)
    BY <1>5, <2>1, <2>2, RequeuePlaces
  <2>. HIDE DEF t
  <2>. QED  BY <2>1, <2>3 DEF Sees, t
<1>9. /\ u.turns = [s.turns EXCEPT ![g] = new] /\ u.queue = s.queue /\ u.running
       /\ Sees(s, u)
  BY <1>1 DEF Record, Fields, AssignmentFields, Sees
<1>. HIDE DEF u
<1>10. Hand(new) = {p} \ {None} /\ Clean(new)
  BY <1>2, OnceEmpty DEF Hand, Clean
<1>11. Hands(u) = {p} \ {None}
  <2>1. \A h \in Turns \ {g} : u.turns[h] = s.turns[h] /\ Hand(s.turns[h]) = {}
    <3>1. \A h \in Turns : Hand(s.turns[h]) = {}
      BY <1>7 DEF Hands
    <3>. QED  BY <1>9, <3>1 DEF Record
  <2>2. u.turns[g] = new
    BY <1>4, <1>9 DEF Record
  <2>. QED  BY <1>4, <1>10, <2>1, <2>2 DEF Hands
<1>12. Neat(u) /\ Kept(u) = Kept(s) \cup ({p} \ {None})
  <2>1. \A h \in Turns : Clean(u.turns[h])
    BY <1>9, <1>10 DEF Neat, Record
  <2>. QED  BY <1>7, <1>9, <1>11, <2>1 DEF Neat, Kept
<1>13. CASE StartPrompt(s, p, owed, wake) = u
  BY <1>9, <1>12, <1>13
<1>14. CASE StartPrompt(s, p, owed, wake) \in {Requeue(s, o), Requeue(d, o)}
  BY <1>8, <1>14 DEF o
<1>. QED  BY <1>6, <1>13, <1>14

\* Whoever ends a turn or a switch loses nobody; without a queue it starts nothing.
LEMMA NextPlaces ==
  ASSUME NEW s, Record(s), Lone(s), ~s.running, Neat(s), NEW stopped
  PROVE  LET t == StartNext(s, stopped) IN
         /\ Neat(t) /\ Sees(s, t) /\ Kept(t) = Kept(s)
         /\ s.queue = <<>> => t.asg = s.asg /\ t.running = s.running /\ t.queue = s.queue
                              /\ t.switching = s.switching
<1>. DEFINE q == [s EXCEPT !.queue = Tail(@)]
            r == [s EXCEPT !.resume = s.resume /\ s.work]
            m == IF ~stopped \/ ~HasAssignment(s) THEN MaybeResume(s) ELSE s
<1>1. m \in {s, r}
  BY DEF MaybeResume, Working, Lone
<1>2. /\ r.turns = s.turns /\ r.queue = s.queue /\ r.events = s.events /\ r.inbox = s.inbox
      /\ r.asg = s.asg /\ r.running = s.running /\ r.switching = s.switching /\ Sees(s, r)
  BY DEF Record, Fields, Sees
<1>3. Neat(r) /\ Kept(r) = Kept(s)
  <2>. HIDE DEF r
  <2>. QED  BY <1>2, NeatKept
<1>4. ~Waiting(m)
  <2>. HIDE DEF r, m
  <2>. QED  BY <1>1, <1>2 DEF Waiting, Working, Lone
<1>5. \/ StartNext(s, stopped) \in {s, m}
      \/ /\ StartNext(s, stopped) = StartPrompt(q, Head(s.queue), TRUE, FALSE)
         /\ s.queue # <<>> /\ ~s.closing
  BY <1>4 DEF StartNext, Admissible
<1>. HIDE DEF r, m
<1>6. CASE StartNext(s, stopped) \in {s, m}
  BY <1>1, <1>2, <1>3, <1>6 DEF Sees
<1>7. CASE /\ StartNext(s, stopped) = StartPrompt(q, Head(s.queue), TRUE, FALSE)
           /\ s.queue # <<>> /\ ~s.closing
  <2>. DEFINE h == Head(s.queue)
              t == StartPrompt(q, h, TRUE, FALSE)
  <2>1. /\ h \in Prompts /\ Once(Tail(s.queue))
        /\ ToSet(s.queue) = {h} \cup ToSet(Tail(s.queue)) /\ h \notin ToSet(Tail(s.queue))
    BY <1>7, OnceFirst DEF Neat
  <2>2. /\ Record(q) /\ Beside(s, q) /\ q.turns = s.turns /\ q.queue = Tail(s.queue)
        /\ q.running = s.running /\ Sees(s, q)
    BY DEF Beside, Keeps, Record, Fields, AssignmentFields, Sees
  <2>3. StartNext(s, stopped) = t
    BY <1>7
  <2>. HIDE DEF q, h
  <2>4. Lone(q) /\ Hands(q) = Hands(s)
    BY <2>2, BesideLone DEF Hands
  <2>5. Neat(q) /\ Kept(s) = Kept(q) \cup {h}
    BY <2>1, <2>2, <2>4 DEF Neat, Kept
  <2>6. ~q.running /\ ~q.closing /\ h \notin ToSet(q.queue)
    BY <1>7, <2>1, <2>2 DEF Sees
  <2>7. /\ Neat(t) /\ Sees(q, t)
        /\ Kept(t) = IF t.running THEN Kept(q) \cup ({h} \ {None})
                     ELSE IF q.closing THEN Kept(q)
                     ELSE Kept(q) \cup ToSet(Owed(h, TRUE))
    <3>1. /\ h \in Prompts /\ Record(q) /\ Lone(q) /\ Neat(q)
          /\ ~q.running /\ h \notin ToSet(q.queue)
      BY <2>1, <2>2, <2>4, <2>5, <2>6
    <3>. QED  BY <3>1, StartPlaces
  <2>. HIDE DEF t
  <2>8. Kept(t) = Kept(s)
    BY <2>1, <2>5, <2>6, <2>7, OwedPlaces, NoneAssumption
  <2>. QED  BY <1>7, <2>2, <2>3, <2>7, <2>8 DEF Sees
<1>. QED  BY <1>5, <1>6, <1>7

\* A runner that has not begun holds the prompt it was given.
Poised(j) == runner[j].pc \in {"starting", "attaching", "beginning"}
Pending(j) == IF Poised(j) THEN {runner[j].prompt} \ {None} ELSE {}
Pendings == UNION {Pending(j) : j \in Jobs}

\* The user's first assignment comes with no prompt, a follow-up with one.
Named == \A j \in Jobs : Poised(j) => IF j = 1 THEN runner[j].prompt = None
                                                ELSE runner[j].prompt \in Prompts

\* The places of a prompt have no prompt in common.
Separate(k, l, p, e, r) ==
  /\ k \cap (l \cup p \cup e \cup r) = {} /\ l \cap (p \cup e \cup r) = {}
  /\ p \cap (e \cup r) = {} /\ e \cap r = {}

\* Neither Esc nor a cancelled job has struck, and the session is open.
Quiet == used.cancels = 0 /\ cancelled = {} /\ ~c.closing

Placed ==
  /\ Once(accepted) /\ Once(log) /\ Neat(c) /\ Named /\ used.cancels \in Nat
  /\ \A i, j \in Jobs : i # j => Pending(i) \cap Pending(j) = {}
  /\ Separate(Kept(c), ToSet(log), Pendings, ended, recalled)
  /\ Kept(c) \cup ToSet(log) \cup Pendings \cup ended \cup recalled \subseteq ToSet(accepted)
  /\ Quiet => ToSet(accepted) \subseteq Kept(c) \cup ToSet(log) \cup Pendings \cup ended \cup recalled

\* Until a runner has begun, its assignment is the controller's and nobody stops
\* it or starts a turn for it; only a View that failed ends it, and then nothing
\* waits and nothing will be accepted.
Poise ==
  /\ \A j \in Jobs : Poised(j) =>
       /\ c.asg.job = j /\ ~c.running /\ c.asg.turn = "idle"
       /\ runner[j].pc = "starting" => ~c.asg.claimed
       /\ runner[j].pc = "attaching" => c.attached
       /\ c.asg.terminal \/ c.switching =>
            /\ c.attached /\ runner[j].pc = "beginning"
            /\ c.asg.terminal /\ c.view = "failed" /\ c.queue = <<>>
  /\ c.attached => Poised(1)

Seated == Record(c) /\ Child /\ Placed /\ (Quiet => Poise)

\* What a step owes to Seated, once it is known that it is a child's.
Seats == Record(c') => Placed' /\ (Quiet' => Poise')

\* No step takes back a cancel or reopens a session.
Louder ==
  /\ used'.cancels \in Nat
  /\ Quiet' => Quiet

LEMMA SamePending ==
  ASSUME UNCHANGED runner
  PROVE  /\ Pendings' = Pendings /\ (Named => Named')
         /\ \A j \in Jobs : Pending(j)' = Pending(j) /\ (Poised(j)' <=> Poised(j))
BY DEF Pendings, Pending, Poised, Named

\* Prompts move between the controller, the session and the user.
LEMMA Regrouped ==
  ASSUME Placed, Louder, UNCHANGED <<runner, accepted, recalled>>, Neat(c'), Once(log'),
         LET old == Kept(c) \cup ToSet(log) \cup ended
             new == Kept(c') \cup ToSet(log') \cup ended'
         IN  new \subseteq old /\ (Quiet' => old \subseteq new),
         Kept(c') \cap (ToSet(log') \cup ended') = {}, ToSet(log') \cap ended' = {}
  PROVE  Placed'
<1>1. /\ Pendings' = Pendings /\ \A j \in Jobs : Pending(j)' = Pending(j)
      /\ Named => Named'
  BY SamePending
<1>2. Separate(Kept(c'), ToSet(log'), Pendings', ended', recalled')
  <2>. HIDE DEF Pendings
  <2>. QED  BY <1>1 DEF Placed, Separate
<1>3. Kept(c') \cup ToSet(log') \cup Pendings' \cup ended' \cup recalled' \subseteq ToSet(accepted')
  BY <1>1 DEF Placed
<1>4. Quiet' => ToSet(accepted') \subseteq Kept(c') \cup ToSet(log') \cup Pendings' \cup ended' \cup recalled'
  BY <1>1 DEF Placed, Louder
<1>. QED  BY <1>1, <1>2, <1>3, <1>4 DEF Placed, Louder

LEMMA Unmoved ==
  ASSUME Placed, Louder, UNCHANGED <<runner, accepted, log, ended, recalled>>,
         c'.turns = c.turns, c'.queue = c.queue
  PROVE  Placed'
<1>1. (Neat(c) => Neat(c')) /\ Kept(c') = Kept(c)
  BY NeatKept
<1>. QED  BY <1>1, Regrouped DEF Placed, Separate

\* A runner moves on and may give its prompt to the controller.
LEMMA RunnerRegrouped ==
  ASSUME Placed, Child, Louder, NEW j \in Jobs, NEW pc, Poised(j)' => Poised(j),
         runner' = [runner EXCEPT ![j].pc = pc],
         UNCHANGED <<accepted, log, recalled>>, Neat(c'),
         LET old == Kept(c) \cup Pending(j) \cup ended
             new == Kept(c') \cup Pending(j)' \cup ended'
         IN  new \subseteq old /\ (Quiet' => old \subseteq new),
         Kept(c') \cap (Pending(j)' \cup ended') = {}, Pending(j)' \cap ended' = {}
  PROVE  Placed'
<1>1. \A i \in Jobs \ {j} : Pending(i)' = Pending(i)
  BY DEF Child, Runners, Pending, Poised
<1>2. Pending(j)' \subseteq Pending(j)
  BY DEF Child, Runners, Pending, Poised
<1>0. Named'
  BY DEF Child, Runners, Placed, Named, Poised
<1>. DEFINE rest == UNION {Pending(i) : i \in Jobs \ {j}}
            P == Pending(j)
            Q == Pending(j)'
<1>3. Pendings = P \cup rest /\ Pendings' = Q \cup rest
  BY <1>1 DEF Pendings
<1>4. P \cap rest = {} /\ Q \subseteq P
  BY <1>2 DEF Placed
<1>5. \A i, k \in Jobs : i # k => Pending(i)' \cap Pending(k)' = {}
  BY <1>1, <1>2 DEF Placed
<1>. HIDE DEF rest, P, Q
<1>6. Separate(Kept(c'), ToSet(log'), Pendings', ended', recalled')
  BY <1>3, <1>4 DEF Placed, Separate, P, Q
<1>7. Kept(c') \cup ToSet(log') \cup Pendings' \cup ended' \cup recalled' \subseteq ToSet(accepted')
  BY <1>3, <1>4 DEF Placed, P, Q
<1>8. Quiet' => ToSet(accepted') \subseteq Kept(c') \cup ToSet(log') \cup Pendings' \cup ended' \cup recalled'
  BY <1>3, <1>4 DEF Placed, Louder, P, Q
<1>. QED  BY <1>0, <1>5, <1>6, <1>7, <1>8 DEF Placed, Louder

\* Where the prompts are while a turn runs.
LEMMA TurnHolds ==
  ASSUME Seated, NEW g \in Turns, c.turns[g].pc # "off"
  PROVE  LET b == c.turns[g] IN
         /\ Clean(b) /\ Hands(c) = Hand(b) /\ Once(c.queue) /\ Once(log)
         /\ Hand(b) \cap ToSet(c.queue) = {}
         /\ (Hand(b) \cup ToSet(c.queue)) \cap (ToSet(log) \cup ended) = {}
         /\ ToSet(log) \cap ended = {}
         /\ Hand(b) \subseteq Prompts /\ None \notin ended
<1>1. Single(c) /\ Neat(c) /\ Placed
  BY DEF Seated, Placed, Child, Lone, Working
<1>2. Clean(c.turns[g]) /\ Hands(c) = Hand(c.turns[g]) /\ Once(c.queue) /\ Once(log)
  BY <1>1, CleanHands DEF Neat, Placed
<1>3. /\ Hand(c.turns[g]) \cap ToSet(c.queue) = {}
      /\ (Hand(c.turns[g]) \cup ToSet(c.queue)) \cap (ToSet(log) \cup ended) = {}
      /\ ToSet(log) \cap ended = {}
  BY <1>1, <1>2 DEF Neat, Placed, Kept, Separate
<1>4. ToSet(accepted) \subseteq Prompts
  BY <1>1 DEF Placed, Once, ToSet
<1>5. Hand(c.turns[g]) \subseteq Prompts /\ None \notin ended
  BY <1>1, <1>2, <1>4, NoneAssumption DEF Placed, Kept
<1>. QED  BY <1>2, <1>3, <1>5

\* While a turn runs no runner is about to begin.
LEMMA BusyPoise ==
  ASSUME Seated, Louder, c.running, UNCHANGED runner, c'.attached = c.attached
  PROVE  Quiet' => Poise'
<1>. SUFFICES ASSUME Quiet' PROVE Poise'
  OBVIOUS
<1>1. Poise
  BY DEF Seated, Louder
<1>2. \A j \in Jobs : ~Poised(j)
  BY <1>1 DEF Poise
<1>3. 1 \in Jobs
  <2>1. c.asg.job \in 1..MaxJobs /\ MaxJobs \in Nat
    BY BoundsAssumption DEF Seated, Child, Lone, Working, Jobs
  <2>. QED  BY <2>1 DEF Jobs
<1>4. ~c.attached
  BY <1>1, <1>2, <1>3 DEF Poise
<1>. QED  BY <1>2, <1>4, SamePending DEF Poise

\* Most steps neither count for a bound nor cancel a job.
LEMMA CalmLouder ==
  ASSUME Seated, UNCHANGED <<used, cancelled>>, c.closing => c'.closing
  PROVE  Louder
BY DEF Seated, Placed, Louder, Quiet

\* A turn gives part of what it holds to the session, to the user or to the queue.
LEMMA TurnPlaced ==
  ASSUME Seated, NEW g \in Turns, c.turns[g].pc # "off",
         UNCHANGED <<runner, accepted, recalled, used, cancelled>>,
         NEW s, Keeps(c, s), Sees(c, s), NEW t, Clean(t), t.pc # "off",
         c' = [s EXCEPT !.turns[g] = t],
         Once(s.queue), Once(log'), Hand(t) \cap ToSet(s.queue) = {},
         LET old == ToSet(log) \cup Hand(c.turns[g]) \cup ToSet(c.queue) \cup ended
             new == ToSet(log') \cup Hand(t) \cup ToSet(s.queue) \cup ended'
         IN  new \subseteq old /\ (Quiet' => old \subseteq new),
         (Hand(t) \cup ToSet(s.queue)) \cap (ToSet(log') \cup ended') = {},
         ToSet(log') \cap ended' = {}
  PROVE  Seats
<1>1. /\ c'.turns = [c.turns EXCEPT ![g] = t] /\ c'.gen = c.gen /\ c'.running = c.running
      /\ c'.switching = c.switching /\ c'.queue = s.queue /\ c'.closing = c.closing
      /\ c'.attached = c.attached
  BY DEF Keeps, Record, Fields, Sees
<1>2. Hands(c) = Hand(c.turns[g]) /\ Single(c) /\ Neat(c) /\ Record(c)
  BY TurnHolds DEF Seated, Placed, Child, Lone, Working
<1>3. c'.turns[g] = t /\ \A h \in Turns \ {g} : c'.turns[h] = c.turns[h]
  BY <1>1, <1>2 DEF Record
<1>4. Single(c')
  BY <1>1, <1>2, <1>3 DEF Single
<1>5. \A h \in Turns : Clean(c'.turns[h])
  BY <1>2, <1>3 DEF Neat
<1>6. Hands(c') = Hand(t)
  <2>1. \A h \in Turns \ {g} : Hand(c'.turns[h]) = {}
    BY <1>2, <1>3, <1>5, CleanHand DEF Single
  <2>. QED  BY <1>3, <2>1 DEF Hands
<1>7. Neat(c')
  BY <1>1, <1>5, <1>6 DEF Neat
<1>8. Louder
  BY <1>1, CalmLouder
<1>9. Placed'
  <2>. DEFINE old == Kept(c) \cup ToSet(log) \cup ended
              new == Kept(c') \cup ToSet(log') \cup ended'
  <2>1. old = ToSet(log) \cup Hand(c.turns[g]) \cup ToSet(c.queue) \cup ended
    BY <1>2 DEF Kept
  <2>2. new = ToSet(log') \cup Hand(t) \cup ToSet(s.queue) \cup ended'
    BY <1>1, <1>6 DEF Kept
  <2>. HIDE DEF old, new
  <2>3. new \subseteq old /\ (Quiet' => old \subseteq new)
    BY <2>1, <2>2
  <2>4. Kept(c') \cap (ToSet(log') \cup ended') = {}
    BY <1>1, <1>6 DEF Kept
  <2>. USE DEF old, new
  <2>. QED  BY <1>7, <1>8, <2>3, <2>4, Regrouped DEF Seated
<1>10. c.running
  BY <1>2 DEF Single
<1>11. Quiet' => Poise'
  BY <1>1, <1>8, <1>10, BusyPoise
<1>. QED  BY <1>9, <1>11 DEF Seats

\* A turn goes on with what it holds.
LEMMA HandPlaced ==
  ASSUME Seated, NEW g \in Turns, c.turns[g].pc # "off",
         UNCHANGED <<runner, accepted, log, ended, recalled, used, cancelled>>,
         NEW s, Keeps(c, s), Sees(c, s), s.queue = c.queue,
         NEW t, t.pc # "off", t.prompt = c.turns[g].prompt, t.inject = c.turns[g].inject,
         t.prompt # None => t.pc \in {"delay", "opening", "unwinding"},
         t.inject # <<>> => t.pc \in {"feeding", "unwinding"},
         c' = [s EXCEPT !.turns[g] = t]
  PROVE  Seats
<1>1. /\ Clean(c.turns[g]) /\ Once(c.queue) /\ Once(log)
      /\ Hand(c.turns[g]) \cap ToSet(c.queue) = {}
      /\ (Hand(c.turns[g]) \cup ToSet(c.queue)) \cap (ToSet(log) \cup ended) = {}
      /\ ToSet(log) \cap ended = {}
  BY TurnHolds
<1>2. Clean(t) /\ Hand(t) = Hand(c.turns[g])
  BY <1>1 DEF Clean, Hand
<1>. QED  BY <1>1, <1>2, TurnPlaced

LEMMA GoesPlaced ==
  ASSUME Seated, NEW g \in Turns, c.turns[g].pc # "off",
         UNCHANGED <<runner, accepted, log, ended, recalled, used, cancelled>>,
         NEW pc, pc # "off", Goes(g, pc),
         \/ pc = "unwinding"
         \/ c.turns[g].pc = "delay" /\ pc = "opening"
         \/ c.turns[g].pc \notin {"delay", "opening", "unwinding", "feeding"}
  PROVE  Seats
<1>. DEFINE t == [c.turns[g] EXCEPT !.pc = pc]
<1>1. /\ t.pc = pc /\ t.prompt = c.turns[g].prompt /\ t.inject = c.turns[g].inject
      /\ Keeps(c, c) /\ Sees(c, c)
  BY DEF Seated, Record, Keeps, TurnFields, Sees
<1>2. c' = [c EXCEPT !.turns[g] = t]
  BY DEF Goes
<1>3. Clean(c.turns[g])
  BY TurnHolds
<1>. HIDE DEF t
<1>4. /\ t.prompt # None => t.pc \in {"delay", "opening", "unwinding"}
      /\ t.inject # <<>> => t.pc \in {"feeding", "unwinding"}
  BY <1>1, <1>3 DEF Clean
<1>. QED  BY <1>1, <1>2, <1>4, HandPlaced

\* The error row answers what a living turn holds.
LEMMA FailsPlaced ==
  ASSUME Seated, NEW g \in Turns, c.turns[g].pc # "off", Fails(g)
  PROVE  Seats
<1>. DEFINE t == [c.turns[g] EXCEPT !.pc = "unwinding", !.prompt = None, !.rides = {},
                                    !.inject = <<>>]
<1>1. t.pc = "unwinding" /\ t.prompt = None /\ t.inject = <<>> /\ Keeps(c, c) /\ Sees(c, c)
  BY DEF Seated, Record, Keeps, TurnFields, Sees
<1>2. UNCHANGED <<runner, accepted, log, recalled, used, cancelled>>
  BY DEF Fails
<1>3. CASE ~Alive(g)
  <2>1. Goes(g, "unwinding") /\ UNCHANGED ended
    BY <1>3 DEF Fails, Goes
  <2>. QED  BY <1>2, <2>1, GoesPlaced
<1>4. CASE Alive(g)
  <2>1. c' = [c EXCEPT !.turns[g] = t]
    BY <1>4 DEF Fails
  <2>. HIDE DEF t
  <2>2. Hand(t) = {} /\ Clean(t)
    BY <1>1, OnceEmpty DEF Hand, Clean
  <2>3. /\ Clean(c.turns[g]) /\ Once(c.queue) /\ Once(log)
        /\ Hand(c.turns[g]) \cap ToSet(c.queue) = {}
        /\ (Hand(c.turns[g]) \cup ToSet(c.queue)) \cap (ToSet(log) \cup ended) = {}
        /\ ToSet(log) \cap ended = {}
        /\ Hand(c.turns[g]) \subseteq Prompts /\ None \notin ended
    BY TurnHolds
  <2>4. ended' = ended \cup Hand(c.turns[g])
    <3>1. ended' = ended \cup (Hand(c.turns[g]) \ {None})
      BY <1>4 DEF Fails, Hand
    <3>. QED  BY <2>3, <3>1, NoneAssumption
  <2>. QED  BY <1>1, <1>2, <2>1, <2>2, <2>3, <2>4, TurnPlaced
<1>. QED  BY <1>3, <1>4

LEMMA OpeningPlaced == ASSUME Seated, NEW g \in Turns, Opening(g) PROVE Seats
<1>. DEFINE t == [c.turns[g] EXCEPT !.pc = "inbox", !.prompt = None, !.rides = {}]
            p == c.turns[g].prompt
<1>1. CASE Fails(g)
  BY <1>1, FailsPlaced DEF Opening
<1>2. CASE /\ c' = [c EXCEPT !.turns[g] = t]
           /\ log' = IF c.turns[g].prompt = None THEN log ELSE Append(log, c.turns[g].prompt)
           /\ UNCHANGED <<ended, turnRest>>
  <2>1. /\ t.pc = "inbox" /\ t.prompt = None /\ t.inject = c.turns[g].inject
        /\ Keeps(c, c) /\ Sees(c, c)
    BY DEF Seated, Record, Keeps, TurnFields, Sees
  <2>2. c.turns[g].pc = "opening" /\ UNCHANGED <<runner, accepted, recalled, ended, used, cancelled>>
    BY <1>2 DEF Opening, turnRest
  <2>3. /\ Clean(c.turns[g]) /\ Once(c.queue) /\ Once(log)
        /\ Hand(c.turns[g]) \cap ToSet(c.queue) = {}
        /\ (Hand(c.turns[g]) \cup ToSet(c.queue)) \cap (ToSet(log) \cup ended) = {}
        /\ ToSet(log) \cap ended = {}
    BY <2>2, TurnHolds
  <2>4. c.turns[g].inject = <<>> /\ Hand(c.turns[g]) = {p} \ {None} /\ p \in Prompts \cup {None}
    BY <2>2, <2>3, OnceEmpty DEF Clean, Hand
  <2>. HIDE DEF t
  <2>5. Hand(t) = {} /\ Clean(t)
    BY <2>1, <2>4, OnceEmpty DEF Hand, Clean
  <2>6. Once(log') /\ ToSet(log') = ToSet(log) \cup ({p} \ {None})
    BY <1>2, <2>3, <2>4, OnceAppended
  <2>. HIDE DEF p
  <2>. QED  BY <1>2, <2>1, <2>2, <2>3, <2>4, <2>5, <2>6, TurnPlaced
<1>. QED  BY <1>1, <1>2 DEF Opening

LEMMA InboxPlaced == ASSUME Seated, NEW g \in Turns, Inbox(g) PROVE Seats
<1>1. c.turns[g].pc = "inbox" /\ UNCHANGED <<runner, accepted, log, ended, recalled, used, cancelled>>
  BY DEF Inbox, turnRest
<1>2. CASE Goes(g, "unwinding")
  BY <1>1, <1>2, GoesPlaced
<1>3. Clean(c.turns[g])
  BY <1>1, TurnHolds
<1>4. c.turns[g].prompt = None /\ c.turns[g].inject = <<>>
  BY <1>1, <1>3 DEF Clean
<1>5. CASE c' = [c EXCEPT !.turns[g].pc = "inference", !.inbox = 0]
  <2>. DEFINE s == [c EXCEPT !.inbox = 0]
              t == [c.turns[g] EXCEPT !.pc = "inference"]
  <2>1. /\ Keeps(c, s) /\ Sees(c, s) /\ s.queue = c.queue
        /\ t.pc = "inference" /\ t.prompt = c.turns[g].prompt /\ t.inject = c.turns[g].inject
    BY DEF Keeps, Sees, Seated, Record, Fields, AssignmentFields, TurnFields
  <2>2. c' = [s EXCEPT !.turns[g] = t]
    BY <1>5 DEF Seated, Record, Fields
  <2>. HIDE DEF s, t
  <2>. QED  BY <1>1, <1>4, <2>1, <2>2, HandPlaced
<1>6. c.inbox = 0
  BY DEF Seated, Child, Lone, Working
<1>. QED  BY <1>2, <1>5, <1>6 DEF Inbox

LEMMA InferencePlaced == ASSUME Seated, ~HasPlan, NEW g \in Turns, Inference(g) PROVE Seats
<1>1. c.turns[g].pc = "inference"
  BY DEF Inference
<1>2. CASE Fails(g)
  BY <1>1, <1>2, FailsPlaced
<1>3. CASE /\ \E pc \in {"unwinding", "boundary"} : Goes(g, pc)
           /\ UNCHANGED <<log, rode, ended, turnRest>>
  BY <1>1, <1>3, GoesPlaced DEF turnRest
<1>. QED  BY <1>2, <1>3 DEF Inference

\* What waits moves into the hand of the turn as it is.
LEMMA BoundaryPlaced == ASSUME Seated, NEW g \in Turns, Boundary(g) PROVE Seats
<1>1. c.turns[g].pc = "boundary" /\ UNCHANGED <<runner, accepted, log, ended, recalled, used, cancelled>>
  BY DEF Boundary, turnRest
<1>2. CASE c' = [c EXCEPT !.turns[g].pc = "inbox"]
  BY <1>1, <1>2, GoesPlaced DEF Goes
<1>. DEFINE d == DrainWatch(c)
            s == [d EXCEPT !.queue = <<>>]
            t == [c.turns[g] EXCEPT !.pc = "feeding", !.inject = c.queue, !.rides = ToSet(c.events)]
<1>3. CASE c' = [d EXCEPT !.queue = <<>>,
                   !.turns[g] = [@ EXCEPT !.pc = "feeding", !.inject = c.queue,
                                          !.rides = ToSet(c.events)]]
  <2>1. /\ Clean(c.turns[g]) /\ Once(c.queue) /\ Once(log)
        /\ ToSet(c.queue) \cap (ToSet(log) \cup ended) = {}
        /\ ToSet(log) \cap ended = {}
    BY <1>1, TurnHolds
  <2>2. c.turns[g].prompt = None /\ Hand(c.turns[g]) = {}
    BY <1>1, <2>1, CleanHand DEF Clean
  <2>3. Keeps(c, d) /\ Sees(c, d)
    BY DrainLemma DEF Seated, DrainWatch, Record, Fields, Sees
  <2>4. t.pc = "feeding" /\ t.prompt = c.turns[g].prompt /\ t.inject = c.queue
    BY DEF Seated, Record, TurnFields
  <2>. HIDE DEF d
  <2>5. Keeps(c, s) /\ Sees(c, s) /\ s.queue = <<>>
    BY <2>3 DEF Keeps, Record, Fields, AssignmentFields, Sees
  <2>6. c' = [s EXCEPT !.turns[g] = t]
    BY <1>3, <2>3 DEF Keeps, Record, Fields
  <2>. HIDE DEF s, t
  <2>7. Hand(t) = ToSet(c.queue) /\ Clean(t)
    BY <2>1, <2>2, <2>4 DEF Hand, Clean
  <2>8. Once(s.queue) /\ ToSet(s.queue) = {}
    BY <2>5, OnceEmpty
  <2>. QED  BY <1>1, <2>1, <2>2, <2>4, <2>5, <2>6, <2>7, <2>8, TurnPlaced
<1>. QED  BY <1>2, <1>3 DEF Boundary

LEMMA FeedingPlaced == ASSUME Seated, NEW g \in Turns, Feeding(g) PROVE Seats
<1>. DEFINE t == [c.turns[g] EXCEPT !.inject = Tail(@)]
            u == [c.turns[g] EXCEPT !.pc = "inbox", !.rides = {}]
            q == c.turns[g].inject
<1>1. c.turns[g].pc = "feeding" /\ Keeps(c, c) /\ Sees(c, c)
  BY DEF Feeding, Seated, Keeps, Sees
<1>2. /\ Clean(c.turns[g]) /\ Once(c.queue) /\ Once(log)
      /\ Hand(c.turns[g]) \cap ToSet(c.queue) = {}
      /\ (Hand(c.turns[g]) \cup ToSet(c.queue)) \cap (ToSet(log) \cup ended) = {}
      /\ ToSet(log) \cap ended = {}
  BY <1>1, TurnHolds
<1>3. c.turns[g].prompt = None
  BY <1>1, <1>2 DEF Clean
<1>4. CASE Fails(g)
  BY <1>1, <1>4, FailsPlaced
<1>5. CASE q = <<>> /\ c' = [c EXCEPT !.turns[g] = u]
           /\ UNCHANGED <<runner, log, ended, accepted, recalled, used, cancelled>>
  <2>1. u.pc = "inbox" /\ u.prompt = c.turns[g].prompt /\ u.inject = q
    BY DEF Seated, Record, TurnFields
  <2>. HIDE DEF u
  <2>. QED  BY <1>1, <1>3, <1>5, <2>1, HandPlaced
<1>6. CASE /\ q # <<>> /\ c' = [c EXCEPT !.turns[g] = t] /\ log' = Append(log, Head(q))
           /\ UNCHANGED <<runner, ended, accepted, recalled, used, cancelled>>
  <2>. DEFINE h == Head(q)
  <2>1. t.pc = "feeding" /\ t.prompt = None /\ t.inject = Tail(q)
    BY <1>1, <1>3 DEF Seated, Record, TurnFields
  <2>2. /\ h \in Prompts /\ Once(Tail(q)) /\ ToSet(q) = {h} \cup ToSet(Tail(q))
        /\ h \notin ToSet(Tail(q))
    BY <1>2, <1>6, OnceFirst DEF Clean
  <2>3. Hand(c.turns[g]) = ToSet(q)
    BY <1>3 DEF Hand
  <2>. HIDE DEF t, q, h
  <2>4. Hand(t) = ToSet(Tail(q)) /\ Clean(t)
    BY <2>1, <2>2 DEF Hand, Clean
  <2>5. h \notin ToSet(log)
    BY <1>2, <2>2, <2>3
  <2>6. Once(log') /\ ToSet(log') = ToSet(log) \cup {h}
    BY <1>2, <1>6, <2>2, <2>5, OnceAppended DEF h
  <2>7. LET old == ToSet(log) \cup Hand(c.turns[g]) \cup ToSet(c.queue) \cup ended
            new == ToSet(log') \cup Hand(t) \cup ToSet(c.queue) \cup ended'
        IN  new \subseteq old /\ old \subseteq new
    BY <1>6, <2>2, <2>3, <2>4, <2>6
  <2>8. /\ (Hand(t) \cup ToSet(c.queue)) \cap (ToSet(log') \cup ended') = {}
        /\ ToSet(log') \cap ended' = {} /\ Hand(t) \cap ToSet(c.queue) = {}
    BY <1>2, <1>6, <2>2, <2>3, <2>4, <2>6
  <2>9. c.turns[g].pc # "off" /\ t.pc # "off"
    BY <1>1, <2>1
  <2>. QED  BY <1>1, <1>2, <1>6, <2>4, <2>6, <2>7, <2>8, <2>9, TurnPlaced
<1>. QED  BY <1>4, <1>5, <1>6 DEF Feeding, turnRest

LEMMA UnwindingPlaced == ASSUME Seated, NEW g \in Turns, Unwinding(g) PROVE Seats
<1>. DEFINE b == c.turns[g]
            h == Held(b)
            s == Requeue(c, h)
            t == [NoTurn EXCEPT !.pc = "finishing", !.job = b.job, !.wake = b.wake]
<1>1. /\ b.pc = "unwinding" /\ c' = [s EXCEPT !.turns[g] = t]
      /\ UNCHANGED <<runner, accepted, log, recalled, used, cancelled>>
      /\ ended' = (ended \cup (IF c.closing THEN ToSet(h) ELSE {})
                         \cup (IF b.owed THEN {} ELSE {b.prompt})) \ {None}
  BY DEF Unwinding, turnRest
<1>2. t.pc = "finishing" /\ t.prompt = None /\ t.inject = <<>>
  BY DEF NoTurn
<1>3. Keeps(c, s) /\ Sees(c, s)
  BY RequeueLemma DEF Seated, Requeue, Record, Fields, Sees
<1>4. s.queue = IF c.closing THEN c.queue ELSE h \o c.queue
  BY DEF Seated, Requeue, Record, Fields
<1>5. /\ Clean(b) /\ Once(c.queue) /\ Once(log)
      /\ Hand(b) \cap ToSet(c.queue) = {}
      /\ (Hand(b) \cup ToSet(c.queue)) \cap (ToSet(log) \cup ended) = {}
      /\ ToSet(log) \cap ended = {}
      /\ Hand(b) \subseteq Prompts /\ None \notin ended
  BY <1>1, TurnHolds
<1>6. /\ Once(h) /\ ToSet(h) \subseteq Hand(b)
      /\ Hand(b) \ ToSet(h) = (IF b.owed THEN {} ELSE {b.prompt}) \ {None}
  <2>1. CASE b.prompt = None
    <3>1. h = b.inject
      BY <1>5, <2>1 DEF Held, Owed, Clean, Once
    <3>. HIDE DEF h, b
    <3>. QED  BY <1>5, <2>1, <3>1 DEF Clean, Hand
  <2>2. CASE b.prompt # None /\ b.owed
    <3>1. b.inject = <<>> /\ b.prompt \in Prompts
      BY <1>5, <2>2 DEF Clean
    <3>2. h = <<b.prompt>>
      BY <2>2, <3>1 DEF Held, Owed
    <3>. HIDE DEF h, b
    <3>. QED  BY <2>2, <3>1, <3>2, OnceOne, OnceEmpty DEF Hand
  <2>3. CASE b.prompt # None /\ ~b.owed
    <3>1. b.inject = <<>> /\ b.prompt \in Prompts
      BY <1>5, <2>3 DEF Clean
    <3>2. h = <<>>
      BY <2>3, <3>1 DEF Held, Owed
    <3>. HIDE DEF h, b
    <3>. QED  BY <2>3, <3>1, <3>2, OnceEmpty DEF Hand
  <2>. QED  BY <2>1, <2>2, <2>3
<1>. HIDE DEF h, b, s, t
<1>7. Hand(t) = {} /\ Clean(t)
  BY <1>2, OnceEmpty DEF Hand, Clean
<1>8. /\ Once(s.queue)
      /\ ToSet(s.queue) = ToSet(c.queue) \cup (IF c.closing THEN {} ELSE ToSet(h))
  <2>1. CASE c.closing
    BY <1>4, <1>5, <2>1
  <2>2. CASE ~c.closing
    <3>1. ToSet(h) \cap ToSet(c.queue) = {}
      BY <1>5, <1>6
    <3>. QED  BY <1>4, <1>5, <1>6, <2>2, <3>1, OnceJoined
  <2>. QED  BY <2>1, <2>2
<1>9. ended' = ended \cup (IF c.closing THEN ToSet(h) ELSE {}) \cup (Hand(b) \ ToSet(h))
  <2>1. None \notin ToSet(h)
    BY <1>5, <1>6, NoneAssumption
  <2>. QED  BY <1>1, <1>5, <1>6, <2>1
<1>10. LET old == ToSet(log) \cup Hand(b) \cup ToSet(c.queue) \cup ended
           new == ToSet(log') \cup Hand(t) \cup ToSet(s.queue) \cup ended'
       IN  new \subseteq old /\ old \subseteq new
  BY <1>1, <1>6, <1>7, <1>8, <1>9
<1>11. /\ (Hand(t) \cup ToSet(s.queue)) \cap (ToSet(log') \cup ended') = {}
       /\ ToSet(log') \cap ended' = {} /\ Hand(t) \cap ToSet(s.queue) = {}
  BY <1>1, <1>5, <1>6, <1>7, <1>8, <1>9
<1>12. c.turns[g].pc # "off" /\ t.pc # "off" /\ Once(log')
  BY <1>1, <1>2, <1>5 DEF b
<1>. QED  BY <1>1, <1>3, <1>7, <1>8, <1>10, <1>11, <1>12, TurnPlaced DEF b

\* Nobody but the controller's own sequences is touched.
LEMMA Moved ==
  ASSUME Seated, Louder, UNCHANGED <<runner, accepted, log, ended, recalled>>,
         Neat(c'), Kept(c') = Kept(c)
  PROVE  Placed'
BY Regrouped DEF Seated, Placed, Separate

LEMMA FinishingPlaced == ASSUME Seated, NEW g \in Turns, Finishing(g) PROVE Seats
<1>. DEFINE s == [c EXCEPT !.turns[g] = NoTurn]
            t == [s EXCEPT !.running = FALSE, !.stopped = FALSE]
            n == StartNext(t, c.stopped)
            i == [n EXCEPT !.asg.turn = "interrupted"]
<1>1. /\ c.turns[g].pc = "finishing"
      /\ UNCHANGED <<accepted, log, ended, recalled, used, cancelled>>
  BY DEF Finishing
<1>2. Record(c) /\ Child /\ Neat(c) /\ Single(c)
  BY DEF Seated, Placed, Child, Lone, Working
<1>3. g = c.gen /\ c.running /\ ~c.asg.terminal /\ c.asg.claimed
  BY <1>1 DEF Seated, Child, Lone, Working, Single
<1>4. /\ Record(s) /\ s.turns = [c.turns EXCEPT ![g] = NoTurn] /\ s.gen = c.gen
      /\ s.asg = c.asg /\ s.queue = c.queue /\ s.switching = c.switching
      /\ s.events = c.events /\ s.inbox = c.inbox /\ s.approved = c.approved /\ Sees(c, s)
  BY <1>2, NoTurnLemma DEF Record, Fields, AssignmentFields, Sees
<1>5. /\ Record(t) /\ t.turns = s.turns /\ t.gen = s.gen /\ t.asg = s.asg /\ ~t.running
      /\ t.queue = s.queue /\ t.switching = s.switching
      /\ t.events = s.events /\ t.inbox = s.inbox /\ t.approved = s.approved /\ Sees(s, t)
  <2>. HIDE DEF s
  <2>. QED  BY <1>4 DEF Record, Fields, AssignmentFields, Sees
<1>. HIDE DEF s, t
<1>6. NoTurn.prompt = None /\ NoTurn.inject = <<>> /\ NoTurn.pc = "off"
  BY DEF NoTurn
<1>7. Lone(t)
  BY <1>2, <1>3, <1>4, <1>5, <1>6 DEF Child, Lone, Working, Single, Record
<1>8. Neat(t) /\ Kept(t) = Kept(c)
  <2>1. Hand(NoTurn) = {} /\ Clean(NoTurn)
    BY <1>6, OnceEmpty DEF Hand, Clean
  <2>2. \A h \in Turns : Clean(t.turns[h])
    BY <1>2, <1>4, <1>5, <2>1 DEF Neat, Record
  <2>3. Hand(c.turns[g]) = {}
    BY <1>1, <1>2, CleanHand DEF Neat
  <2>4. \A h \in Turns : Hand(t.turns[h]) = Hand(c.turns[h])
    BY <1>2, <1>4, <1>5, <2>1, <2>3 DEF Record
  <2>5. Hands(t) = Hands(c)
    BY <2>4 DEF Hands
  <2>. QED  BY <1>2, <1>4, <1>5, <2>2, <2>5 DEF Neat, Kept
<1>9. Neat(n) /\ Sees(t, n) /\ Kept(n) = Kept(t) /\ Record(n)
  BY <1>5, <1>7, <1>8, NextPlaces, StartNextLemma
<1>10. ~NeedsFollowUp(t)
  BY <1>3, <1>4, <1>5 DEF NeedsFollowUp
<1>11. c' \in {n, i, Complete(n)} /\ UNCHANGED runner
  <2>. HIDE DEF n, i
  <2>. QED  BY <1>3, <1>10 DEF Finishing, s, t, n, i
<1>12. c'.turns = n.turns /\ c'.queue = n.queue /\ Sees(n, c')
  <2>. HIDE DEF n
  <2>1. i.turns = n.turns /\ i.queue = n.queue /\ Sees(n, i)
    BY <1>9 DEF Record, Fields, Sees
  <2>2. LET m == Complete(n) IN m.turns = n.turns /\ m.queue = n.queue /\ Sees(n, m)
    BY <1>9 DEF Record, Fields, Sees, Complete
  <2>. HIDE DEF i
  <2>. QED  BY <1>11, <2>1, <2>2 DEF Sees
<1>. HIDE DEF n, i
<1>13. Neat(c') /\ Kept(c') = Kept(c) /\ Sees(c, c')
  BY <1>4, <1>5, <1>8, <1>9, <1>12, NeatKept DEF Sees
<1>14. Louder
  BY <1>1, <1>13, CalmLouder DEF Sees
<1>15. Placed'
  BY <1>1, <1>11, <1>13, <1>14, Moved
<1>16. Quiet' => Poise'
  BY <1>3, <1>11, <1>13, <1>14, BusyPoise DEF Sees
<1>. QED  BY <1>15, <1>16 DEF Seats

LEMMA TurnStepPlaced == ASSUME Seated, ~HasPlan, NEW g \in Turns, TurnStep(g) PROVE Seats
<1>1. CASE Delay(g)
  <2>1. \E pc \in {"opening", "unwinding"} : Goes(g, pc)
    BY <1>1 DEF Delay
  <2>. QED  BY <1>1, <2>1, GoesPlaced DEF Delay, turnRest
<1>2. CASE Compacting(g)
  BY <1>2, GoesPlaced DEF Compacting, turnRest
<1>. QED  BY <1>1, <1>2, OpeningPlaced, InboxPlaced, InferencePlaced, BoundaryPlaced,
          FeedingPlaced, UnwindingPlaced, FinishingPlaced DEF TurnStep

\* Nothing that the places of the prompts or the runners depend on changes.
LEMMA StillPlaced ==
  ASSUME Seated, UNCHANGED <<runner, cancelled, accepted, log, ended, recalled>>,
         used'.cancels = used.cancels, c'.turns = c.turns, c'.queue = c.queue, c'.asg = c.asg,
         c'.running = c.running, c'.switching = c.switching, Sees(c, c')
  PROVE  Seats
<1>1. Louder
  BY DEF Seated, Placed, Louder, Quiet, Sees
<1>2. Placed'
  BY <1>1, Unmoved DEF Seated
<1>3. Quiet' => Poise'
  <2>1. \A j : runner'[j] = runner[j] /\ (Poised(j)' <=> Poised(j))
    BY DEF Poised
  <2>. QED  BY <1>1, <2>1 DEF Seated, Louder, Poise, Sees
<1>. QED  BY <1>2, <1>3 DEF Seats

\* What shows that nobody is about to begin.
Begun == /\ \A j \in Jobs : ~Poised(j)
         /\ ~c.attached

LEMMA AllBegun ==
  ASSUME Seated, Quiet,
         \/ c.running \/ c.asg.turn # "idle"
         \/ (c.asg.terminal \/ c.switching) /\ (c.view # "failed" \/ c.queue # <<>>)
         \/ c.asg.claimed /\ ~c.attached /\ \A j \in Jobs : runner[j].pc # "beginning"
  PROVE  Begun
<1>1. \A j \in Jobs : ~Poised(j)
  BY DEF Seated, Poise, Poised
<1>2. 1 \in Jobs
  <2>1. c.asg.job \in 1..MaxJobs /\ MaxJobs \in Nat
    BY BoundsAssumption DEF Seated, Child, Lone, Working, Jobs
  <2>. QED  BY <2>1 DEF Jobs
<1>. QED  BY <1>1, <1>2 DEF Seated, Poise, Begun

LEMMA BegunPoise ==
  ASSUME Louder, Quiet => Begun, UNCHANGED runner, c'.attached = c.attached
  PROVE  Quiet' => Poise'
BY SamePending DEF Louder, Begun, Poise

\* The manager takes the prompt with a new assignment, or it waits again.
LEMMA FollowUpPlaced ==
  ASSUME Seated, Louder, Quiet => Begun, UNCHANGED <<log, ended, recalled>>,
         NEW s, Record(s), Neat(s), Sees(c, s), ~s.closing, ~s.running, ~s.switching,
         NEW p \in Prompts, FollowUp(s, p), Once(accepted'),
         LET all == Kept(s) \cup ToSet(log) \cup Pendings \cup ended \cup recalled
         IN  /\ p \notin all /\ all \cup {p} \subseteq ToSet(accepted')
             /\ Quiet' => ToSet(accepted') \subseteq all \cup {p},
         Kept(s) \subseteq Kept(c)
  PROVE  Seats
<1>1. /\ Named /\ Once(log) /\ Separate(Kept(s), ToSet(log), Pendings, ended, recalled)
      /\ \A i, j \in Jobs : i # j => Pending(i) \cap Pending(j) = {}
  BY DEF Seated, Placed, Separate
<1>2. CASE c' = Requeue(s, <<p>>) /\ UNCHANGED runner
  <2>1. /\ Neat(c') /\ Sees(s, c') /\ Kept(c') = Kept(s) \cup {p}
    <3>. DEFINE q == <<p>>
    <3>1. Once(q) /\ ToSet(q) = {p} /\ c' = Requeue(s, q)
      BY <1>2, OnceOne
    <3>. HIDE DEF q
    <3>2. Record(s) /\ Neat(s) /\ ToSet(q) \cap Kept(s) = {}
      BY <3>1
    <3>. DEFINE t == Requeue(s, q)
    <3>3. /\ Neat(t) /\ Sees(s, t)
          /\ Kept(t) = IF s.closing THEN Kept(s) ELSE Kept(s) \cup ToSet(q)
      BY <3>1, <3>2, RequeuePlaces
    <3>. HIDE DEF t
    <3>4. c' = t
      BY <3>1 DEF t
    <3>. QED  BY <3>1, <3>3, <3>4
  <2>2. /\ Pendings' = Pendings /\ \A j \in Jobs : Pending(j)' = Pending(j)
        /\ Named => Named'
    BY <1>2, SamePending
  <2>. HIDE DEF Pendings
  <2>3. Separate(Kept(c'), ToSet(log'), Pendings', ended', recalled')
    BY <1>1, <2>1, <2>2 DEF Separate
  <2>4. Placed'
    BY <1>1, <2>1, <2>2, <2>3 DEF Placed, Louder
  <2>5. c'.attached = c.attached
    BY <2>1 DEF Sees
  <2>. QED  BY <1>2, <2>4, <2>5, BegunPoise DEF Seats
<1>3. CASE /\ c' = [s EXCEPT !.asg = NewAssignment(NextJob)]
           /\ runner' = [runner EXCEPT ![NextJob] = [pc |-> "starting", prompt |-> p]]
  <2>. PICK n \in Jobs : n = NextJob
    BY DEF FollowUp
  <2>1. p # None
    BY NoneAssumption
  <2>2. n \notin Admitted /\ n # 1
    <3>1. PICK k \in Nat : Admitted = 1..k
      BY DEF Seated, Child, Runners
    <3>2. Cardinality(1..k) = k
      BY FS_Interval
    <3>3. c.asg.job \in Admitted
      BY DEF Seated, Child, Runners, Lone, Working, Admitted
    <3>. QED  BY <3>1, <3>2, <3>3 DEF NextJob
  <2>3. ~Poised(n) /\ DOMAIN runner = Jobs
    BY <2>1, <2>2 DEF Admitted, Poised, Seated, Child, Runners
  <2>4. /\ c'.turns = s.turns /\ c'.queue = s.queue /\ c'.running = s.running
        /\ c'.switching = s.switching /\ Sees(s, c') /\ c'.asg = NewAssignment(n)
    BY <1>3 DEF Record, Fields, Sees
  <2>5. runner' = [runner EXCEPT ![n] = [pc |-> "starting", prompt |-> p]]
    BY <1>3
  <2>6. /\ runner'[n].pc = "starting" /\ runner'[n].prompt = p
        /\ \A i \in Jobs \ {n} : runner'[i] = runner[i]
    BY <2>1, <2>3, <2>5
  <2>7. /\ Pending(n)' = {p} /\ Pending(n) = {}
        /\ \A i \in Jobs \ {n} : Pending(i)' = Pending(i) /\ (Poised(i)' <=> Poised(i))
    BY <2>1, <2>3, <2>6 DEF Pending, Poised
  <2>8. Pendings' = Pendings \cup {p} /\ Named'
    <3>1. Named'
      BY <1>1, <2>2, <2>6, <2>7 DEF Named
    <3>. QED  BY <2>1, <2>7, <3>1 DEF Pendings
  <2>9. \A i, j \in Jobs : i # j => Pending(i)' \cap Pending(j)' = {}
    <3>1. \A i \in Jobs : p \notin Pending(i)
      BY DEF Pendings
    <3>. QED  BY <1>1, <2>7, <3>1
  <2>10. Neat(c') /\ Kept(c') = Kept(s)
    BY <2>4, NeatKept
  <2>11. Separate(Kept(c'), ToSet(log'), Pendings', ended', recalled')
    <3>. HIDE DEF Pendings
    <3>. QED  BY <1>1, <2>8, <2>10 DEF Separate
  <2>12. Placed'
    <3>. HIDE DEF Pendings
    <3>. QED  BY <1>1, <2>8, <2>9, <2>10, <2>11 DEF Placed, Louder
  <2>13. ASSUME Quiet' PROVE Poise'
    <3>1. Begun
      BY <2>13 DEF Louder
    <3>2. /\ \A j \in Jobs : Poised(j)' => j = n
          /\ ~c'.attached
      BY <2>4, <2>7, <3>1 DEF Begun, Sees
    <3>3. /\ c'.asg.job = n /\ ~c'.running /\ c'.asg.turn = "idle" /\ ~c'.asg.claimed
          /\ ~c'.asg.terminal /\ ~c'.switching
      BY <2>4 DEF NewAssignment
    <3>. QED  BY <2>6, <3>2, <3>3 DEF Poise
  <2>. QED  BY <2>12, <2>13 DEF Seats
<1>. QED  BY <1>2, <1>3 DEF FollowUp

LEMMA SubmitPlaced ==
  ASSUME Seated, IsChild, NEW p \in Prompts, Submit(p)
  PROVE  Seats
<1>. DEFINE s == [c EXCEPT !.streak = 0, !.suppressed = FALSE]
            reserved == OpenAssignment(s) /\ (~s.asg.claimed \/ s.attached \/ s.asg.turn = "idle")
            all == Kept(c) \cup ToSet(log) \cup Pendings \cup ended \cup recalled
<1>1. /\ Record(s) /\ Sees(c, s) /\ s.asg = c.asg /\ s.switching = c.switching
      /\ s.running = c.running /\ s.turns = c.turns /\ s.queue = c.queue /\ s.gen = c.gen
      /\ s.events = c.events /\ s.inbox = c.inbox /\ s.approved = c.approved
  BY DEF Seated, Record, Fields, AssignmentFields, Sees
<1>2. /\ p \notin ToSet(accepted) /\ ~c.closing /\ c.view # "failed"
      /\ accepted' = Append(accepted, p)
      /\ UNCHANGED <<log, recalled, used, cancelled>>
      /\ \/ IsChild /\ s.asg.terminal /\ ~s.switching /\ FollowUp(s, p) /\ UNCHANGED ended
         \/ /\ ~(IsChild /\ s.asg.terminal /\ ~s.switching)
            /\ IF s.switching \/ s.running \/ reserved
                 THEN c' = [s EXCEPT !.queue = Append(@, p)] /\ UNCHANGED ended
                 ELSE /\ c' = StartPrompt(s, p, FALSE, FALSE)
                      /\ ended' = IF c'.running THEN ended ELSE ended \cup {p}
            /\ UNCHANGED runner
  BY DEF Submit, outVars
<1>3. reserved <=> OpenAssignment(c) /\ (~c.asg.claimed \/ c.attached \/ c.asg.turn = "idle")
  <2>. HIDE DEF s
  <2>. QED  BY <1>1 DEF reserved, OpenAssignment, HasAssignment, Sees
<1>. HIDE DEF s, reserved, all
<1>4. /\ Neat(s) /\ Kept(s) = Kept(c) /\ Lone(c) /\ Lone(s) /\ Record(c)
      /\ Once(accepted) /\ Once(log) /\ Neat(c)
  BY <1>1, NeatKept DEF Seated, Placed, Child, Lone, Working, Single, Sees
<1>5. Once(accepted') /\ ToSet(accepted') = ToSet(accepted) \cup {p}
  BY <1>2, <1>4, OnceAppended
<1>6. /\ p \notin all /\ all \cup {p} \subseteq ToSet(accepted')
      /\ Quiet => ToSet(accepted') \subseteq all \cup {p}
  BY <1>2, <1>5 DEF Seated, Placed, all
<1>7. /\ Named /\ Separate(Kept(c), ToSet(log), Pendings, ended, recalled)
      /\ \A i, j \in Jobs : i # j => Pending(i) \cap Pending(j) = {}
  BY DEF Seated, Placed
<1>8. CASE s.asg.terminal /\ ~s.switching /\ FollowUp(s, p) /\ UNCHANGED ended
  <2>1. Louder
    <3>1. Requeue(s, <<p>>).closing = s.closing
      BY <1>1 DEF Requeue, Record, Fields
    <3>2. [s EXCEPT !.asg = NewAssignment(NextJob)].closing = s.closing
      BY <1>1 DEF Record, Fields
    <3>. QED  BY <1>2, <1>8, <3>1, <3>2, CalmLouder DEF FollowUp, Sees
  <2>2. Quiet => Begun
    BY <1>1, <1>2, <1>8, AllBegun
  <2>3. ~s.closing /\ ~s.running /\ ~s.switching
    BY <1>1, <1>2, <1>4, <1>8 DEF Sees, Lone, Working
  <2>4. Quiet' => ToSet(accepted') \subseteq all \cup {p}
    BY <1>6, <2>1 DEF Louder
  <2>. QED  BY <1>1, <1>2, <1>4, <1>5, <1>6, <1>8, <2>1, <2>2, <2>3, <2>4, FollowUpPlaced DEF all
<1>9. CASE UNCHANGED <<runner, ended>> /\ c' = [s EXCEPT !.queue = Append(@, p)]
  <2>1. /\ c'.turns = c.turns /\ c'.queue = Append(c.queue, p) /\ c'.asg = c.asg
        /\ c'.running = c.running /\ c'.switching = c.switching /\ Sees(c, c')
    BY <1>1, <1>9 DEF Record, Fields, Sees
  <2>2. Louder
    BY <1>2, <2>1, CalmLouder DEF Sees
  <2>3. Once(c'.queue) /\ ToSet(c'.queue) = ToSet(c.queue) \cup {p}
    BY <1>4, <1>6, <2>1, OnceAppended DEF Neat, all, Kept
  <2>4. Hands(c') = Hands(c)
    BY <2>1 DEF Hands
  <2>5. Neat(c') /\ Kept(c') = Kept(c) \cup {p}
    BY <1>4, <1>6, <2>1, <2>3, <2>4 DEF Neat, Kept, all
  <2>6. Pendings' = Pendings /\ Named' /\ \A j \in Jobs : Pending(j)' = Pending(j)
    BY <1>7, <1>9, SamePending
  <2>7. Placed'
    <3>. HIDE DEF Pendings
    <3>1. Separate(Kept(c'), ToSet(log'), Pendings', ended', recalled')
      <4>1. p \notin all /\ UNCHANGED <<log, recalled, ended>>
        BY <1>2, <1>6, <1>9
      <4>2. Kept(c') = Kept(c) \cup {p} /\ Pendings' = Pendings
        BY <2>5, <2>6
      <4>. QED  BY <1>7, <4>1, <4>2 DEF Separate, all
    <3>2. /\ all' \subseteq ToSet(accepted')
          /\ Quiet' => ToSet(accepted') \subseteq all'
      BY <1>2, <1>6, <1>9, <2>2, <2>5, <2>6 DEF Louder, all
    <3>. QED  BY <1>2, <1>4, <1>5, <1>7, <2>2, <2>5, <2>6, <3>1, <3>2 DEF Placed, Louder, all
  <2>8. ASSUME Quiet' PROVE Poise'
    <3>1. Poise
      BY <2>2, <2>8 DEF Louder, Seated
    <3>2. \A j : runner'[j] = runner[j] /\ (Poised(j)' <=> Poised(j))
      BY <1>9 DEF Poised
    <3>. QED  BY <1>2, <2>1, <3>1, <3>2 DEF Poise, Sees
  <2>. QED  BY <2>7, <2>8 DEF Seats
<1>10. CASE /\ UNCHANGED runner /\ c' = StartPrompt(s, p, FALSE, FALSE)
            /\ ended' = IF c'.running THEN ended ELSE ended \cup {p}
            /\ ~s.running /\ ~s.switching /\ ~s.asg.terminal /\ ~reserved
  <2>1. p \notin ToSet(s.queue)
    BY <1>1, <1>6 DEF all, Kept
  <2>2. /\ Neat(c') /\ Sees(s, c')
        /\ Kept(c') = IF c'.running THEN Kept(s) \cup ({p} \ {None})
                      ELSE IF s.closing THEN Kept(s)
                      ELSE Kept(s) \cup ToSet(Owed(p, FALSE))
    BY <1>1, <1>4, <1>10, <2>1, StartPlaces
  <2>3. Kept(c') = IF c'.running THEN Kept(c) \cup {p} ELSE Kept(c)
    BY <1>4, <2>2, OwedPlaces, NoneAssumption
  <2>4. Louder
    BY <1>1, <1>2, <2>2, CalmLouder DEF Sees
  <2>5. Pendings' = Pendings /\ Named' /\ \A j \in Jobs : Pending(j)' = Pending(j)
    BY <1>7, <1>10, SamePending
  <2>6. Placed'
    <3>. HIDE DEF Pendings
    <3>1. Separate(Kept(c'), ToSet(log'), Pendings', ended', recalled')
      <4>1. /\ p \notin all /\ UNCHANGED <<log, recalled>>
            /\ ended' = IF c'.running THEN ended ELSE ended \cup {p}
        BY <1>2, <1>6, <1>10
      <4>2. Pendings' = Pendings
        BY <2>5
      <4>3. CASE c'.running
        BY <1>7, <2>3, <4>1, <4>2, <4>3 DEF Separate, all
      <4>4. CASE ~c'.running
        BY <1>7, <2>3, <4>1, <4>2, <4>4 DEF Separate, all
      <4>. QED  BY <4>3, <4>4
    <3>2. /\ all' \subseteq ToSet(accepted')
          /\ Quiet' => ToSet(accepted') \subseteq all'
      BY <1>2, <1>6, <1>10, <2>3, <2>4, <2>5 DEF Louder, all
    <3>. QED  BY <1>2, <1>4, <1>5, <1>7, <2>2, <2>4, <2>5, <3>1, <3>2 DEF Placed, Louder, all
  <2>7. Quiet => Begun
    <3>1. OpenAssignment(c)
      BY <1>1, <1>4, <1>10 DEF OpenAssignment, HasAssignment, Lone, Working, Jobs
    <3>2. c.asg.turn # "idle"
      BY <1>3, <1>10, <3>1
    <3>. QED  BY <3>2, AllBegun
  <2>. QED  BY <1>1, <1>10, <2>2, <2>4, <2>6, <2>7, BegunPoise DEF Seats, Sees
<1>11. \/ s.asg.terminal /\ ~s.switching /\ FollowUp(s, p) /\ UNCHANGED ended
       \/ UNCHANGED <<runner, ended>> /\ c' = [s EXCEPT !.queue = Append(@, p)]
       \/ /\ UNCHANGED runner /\ c' = StartPrompt(s, p, FALSE, FALSE)
          /\ ended' = IF c'.running THEN ended ELSE ended \cup {p}
          /\ ~s.running /\ ~s.switching /\ ~s.asg.terminal /\ ~reserved
  BY <1>2
<1>. QED  BY <1>8, <1>9, <1>10, <1>11

LEMMA RecallPlaced == ASSUME Seated, Recall PROVE Seats
<1>. DEFINE q == c.queue
            p == Last(q)
<1>1. /\ q # <<>> /\ c' = [c EXCEPT !.queue = Front(q)]
      /\ recalled' = recalled \cup {p}
      /\ UNCHANGED <<runner, cancelled, accepted, log, ended, used>>
  BY DEF Recall
<1>2. /\ c'.turns = c.turns /\ c'.queue = Front(q) /\ c'.asg = c.asg
      /\ c'.running = c.running /\ c'.switching = c.switching /\ Sees(c, c')
  BY <1>1 DEF Seated, Record, Fields, Sees
<1>3. /\ Named /\ Neat(c) /\ Once(q) /\ Separate(Kept(c), ToSet(log), Pendings, ended, recalled)
      /\ \A i, j \in Jobs : i # j => Pending(i) \cap Pending(j) = {}
  BY DEF Seated, Placed, Neat
<1>4. /\ Once(Front(q)) /\ ToSet(q) = ToSet(Front(q)) \cup {p} /\ p \notin ToSet(Front(q))
  BY <1>1, <1>3, OnceFinal
<1>5. Louder
  BY <1>1, <1>2, CalmLouder DEF Sees
<1>. HIDE DEF p
<1>6. Hands(c') = Hands(c) /\ Hands(c) \cap ToSet(c.queue) = {}
  BY <1>2, <1>3 DEF Hands, Neat
<1>7. Neat(c') /\ Kept(c) = Kept(c') \cup {p} /\ p \notin Kept(c')
  BY <1>2, <1>3, <1>4, <1>6 DEF Neat, Kept
<1>8. Pendings' = Pendings /\ Named' /\ \A j \in Jobs : Pending(j)' = Pending(j)
  BY <1>1, <1>3, SamePending
<1>9. Placed'
  <2>. HIDE DEF Pendings, q
  <2>1. Separate(Kept(c'), ToSet(log'), Pendings', ended', recalled')
    BY <1>1, <1>3, <1>7, <1>8 DEF Separate
  <2>. DEFINE all == Kept(c) \cup ToSet(log) \cup Pendings \cup ended \cup recalled
              new == Kept(c') \cup ToSet(log') \cup Pendings' \cup ended' \cup recalled'
  <2>2. new = all
    BY <1>1, <1>7, <1>8
  <2>3. all \subseteq ToSet(accepted) /\ (Quiet => ToSet(accepted) \subseteq all)
    BY DEF Seated, Placed
  <2>4. Once(accepted') /\ Once(log')
    BY <1>1 DEF Seated, Placed
  <2>. HIDE DEF all
  <2>5. new \subseteq ToSet(accepted') /\ (Quiet' => ToSet(accepted') \subseteq new)
    BY <1>1, <1>5, <2>2, <2>3 DEF Louder
  <2>. QED  BY <1>3, <1>5, <1>7, <1>8, <2>1, <2>4, <2>5 DEF Placed, Louder
<1>10. ASSUME Quiet' PROVE Poise'
  <2>1. Poise
    BY <1>5, <1>10 DEF Louder, Seated
  <2>2. \A j : runner'[j] = runner[j] /\ (Poised(j)' <=> Poised(j))
    BY <1>1 DEF Poised
  <2>. QED  BY <1>1, <1>2, <2>1, <2>2 DEF Poise, Sees
<1>. QED  BY <1>9, <1>10 DEF Seats

LEMMA CancelPlaced == ASSUME Seated, Cancel PROVE Seats
<1>1. PICK turn : c' = [c EXCEPT !.suppressed = TRUE, !.wake = "off",
                                 !.stopped = @ \/ c.running \/ c.switching, !.asg.turn = turn]
  BY DEF Cancel
<1>2. /\ used' = [used EXCEPT !.cancels = @ + 1]
      /\ UNCHANGED <<runner, accepted, log, ended, recalled>>
  BY DEF Cancel, outVars
<1>3. c'.turns = c.turns /\ c'.queue = c.queue
  BY <1>1 DEF Seated, Record, Fields
<1>4. used.cancels \in Nat /\ used'.cancels = used.cancels + 1
  BY <1>2 DEF Seated, Placed, Child, Unspent
<1>5. ~Quiet' /\ Louder
  BY <1>4 DEF Quiet, Louder
<1>6. Placed'
  BY <1>2, <1>3, <1>5, Unmoved DEF Seated
<1>. QED  BY <1>5, <1>6 DEF Seats

LEMMA BeginSwitchPlaced == ASSUME Seated, BeginSwitch PROVE Seats
<1>1. /\ c' = [c EXCEPT !.switching = TRUE] /\ used' = [used EXCEPT !.switches = @ + 1]
      /\ ~OpenAssignment(c)
      /\ UNCHANGED <<runner, cancelled, accepted, log, ended, recalled>>
  BY DEF BeginSwitch, outVars
<1>2. /\ c'.turns = c.turns /\ c'.queue = c.queue /\ c'.asg = c.asg
      /\ c'.running = c.running /\ Sees(c, c')
  BY <1>1 DEF Seated, Record, Fields, Sees
<1>3. c.asg.terminal /\ used'.cancels = used.cancels
  BY <1>1 DEF OpenAssignment, HasAssignment, Seated, Child, Lone, Working, Jobs, Unspent
<1>4. Louder
  BY <1>1, <1>2, <1>3 DEF Seated, Placed, Louder, Quiet, Sees
<1>5. Placed'
  BY <1>1, <1>2, <1>4, Unmoved DEF Seated
<1>6. ASSUME Quiet' PROVE Poise'
  <2>1. Poise
    BY <1>4, <1>6 DEF Louder, Seated
  <2>2. \A j : runner'[j] = runner[j] /\ (Poised(j)' <=> Poised(j))
    BY <1>1 DEF Poised
  <2>. QED  BY <1>2, <1>3, <2>1, <2>2 DEF Poise, Sees
<1>. QED  BY <1>5, <1>6 DEF Seats

\* The queue waits for the end of a switch; the first of it may need an assignment.
LEMMA EndSwitchPlaced == ASSUME Seated, ~HasPlan, EndSwitch PROVE Seats
<1>. DEFINE b == [c EXCEPT !.switching = FALSE, !.stopped = FALSE]
<1>1. PICK s \in Conversations(b) :
        \/ /\ NeedsFollowUp(s)
           /\ FollowUp([s EXCEPT !.queue = Tail(@)], Head(s.queue))
        \/ c' = StartNext(s, c.stopped) /\ UNCHANGED runner
  BY DEF EndSwitch
<1>2. /\ Record(b) /\ b.turns = c.turns /\ b.gen = c.gen /\ b.running = c.running
      /\ ~b.switching /\ b.asg = c.asg /\ b.queue = c.queue
      /\ b.events = c.events /\ b.inbox = c.inbox /\ b.approved = c.approved /\ Sees(c, b)
  BY DEF Seated, Record, Fields, AssignmentFields, Sees
<1>3. /\ Record(s) /\ s.turns = c.turns /\ s.gen = c.gen /\ s.running = c.running
      /\ ~s.switching /\ s.asg = c.asg /\ s.queue = c.queue
      /\ s.events = c.events /\ s.inbox = 0 /\ ~s.approved /\ Sees(c, s)
  <2>. HIDE DEF b
  <2>1. s = b \/ \E a \in Plans, w \in Plans : s = Other(b, a, w)
    BY DEF Conversations
  <2>2. ASSUME NEW a \in Plans, NEW w, s = Other(b, a, w)
        PROVE  /\ DOMAIN s = Fields /\ s.turns = b.turns /\ s.gen = b.gen
               /\ s.running = b.running /\ s.switching = b.switching /\ s.asg = b.asg
               /\ s.queue = b.queue /\ s.events = b.events
               /\ s.streak = b.streak /\ s.inbox = 0 /\ ~s.approved /\ Sees(b, s)
    <3>1. ~a
      BY DEF Plans
    <3>. QED  BY <1>2, <2>2, <3>1 DEF Record, Fields, Other, Sees
  <2>. QED  BY <1>2, <2>1, <2>2 DEF Record, Seated, Child, Lone, Working, Sees
<1>4. Lone(s) /\ ~s.running /\ c.switching /\ (c.asg.terminal \/ c.asg.claimed)
  BY <1>3 DEF Seated, Child, Lone, Working, Single, EndSwitch, Sees
<1>5. Neat(s) /\ Kept(s) = Kept(c)
  BY <1>3, NeatKept DEF Seated, Placed
<1>6. UNCHANGED <<used, cancelled, accepted, log, ended, recalled>>
  BY DEF EndSwitch, outVars
<1>7. CASE /\ NeedsFollowUp(s)
           /\ FollowUp([s EXCEPT !.queue = Tail(@)], Head(s.queue))
  <2>. DEFINE q == [s EXCEPT !.queue = Tail(@)]
              h == Head(s.queue)
              all == Kept(q) \cup ToSet(log) \cup Pendings \cup ended \cup recalled
  <2>1. s.asg.terminal /\ ~s.switching /\ ~s.closing /\ s.queue # <<>>
    BY <1>7 DEF NeedsFollowUp, Admissible
  <2>2. /\ Record(q) /\ q.turns = s.turns /\ q.queue = Tail(s.queue) /\ q.running = s.running
        /\ q.switching = s.switching /\ Sees(s, q)
    BY <1>3 DEF Record, Fields, AssignmentFields, Sees
  <2>3. FollowUp(q, h)
    BY <1>7
  <2>4. /\ h \in Prompts /\ Once(Tail(s.queue))
        /\ ToSet(s.queue) = {h} \cup ToSet(Tail(s.queue)) /\ h \notin ToSet(Tail(s.queue))
    BY <1>5, <2>1, OnceFirst DEF Neat
  <2>. HIDE DEF q, h
  <2>5. Hands(q) = Hands(s) /\ Hands(s) \cap ToSet(s.queue) = {}
    BY <1>5, <2>2 DEF Hands, Neat
  <2>6. Neat(q) /\ Kept(c) = Kept(q) \cup {h} /\ h \notin Kept(q)
    BY <1>5, <2>2, <2>4, <2>5 DEF Neat, Kept
  <2>7. Louder
    <3>1. Requeue(q, <<h>>).closing = q.closing
      BY <2>2 DEF Requeue, Record, Fields
    <3>2. [q EXCEPT !.asg = NewAssignment(NextJob)].closing = q.closing
      BY <2>2 DEF Record, Fields
    <3>. QED  BY <1>3, <1>6, <2>2, <2>3, <3>1, <3>2, CalmLouder DEF FollowUp, Sees
  <2>8. Quiet => Begun
    BY <1>3, <1>4, <2>1, AllBegun
  <2>9. h \notin all
    <3>1. Separate(Kept(c), ToSet(log), Pendings, ended, recalled)
      BY DEF Seated, Placed
    <3>. HIDE DEF Pendings
    <3>. QED  BY <2>6, <3>1 DEF Separate
  <2>10. /\ all \cup {h} \subseteq ToSet(accepted)
         /\ Quiet => ToSet(accepted) \subseteq all \cup {h}
    BY <2>6 DEF Seated, Placed
  <2>11. /\ Sees(c, q) /\ ~q.closing /\ ~q.running /\ ~q.switching
         /\ Once(accepted') /\ Kept(q) \subseteq Kept(c)
    BY <1>3, <1>4, <1>6, <2>1, <2>2, <2>6 DEF Sees, Seated, Placed
  <2>12. /\ h \notin all /\ all \cup {h} \subseteq ToSet(accepted')
         /\ Quiet' => ToSet(accepted') \subseteq all \cup {h}
    BY <1>6, <2>7, <2>9, <2>10 DEF Louder
  <2>. QED  BY <1>6, <2>2, <2>3, <2>4, <2>6, <2>7, <2>8, <2>11, <2>12, FollowUpPlaced
<1>8. CASE c' = StartNext(s, c.stopped) /\ UNCHANGED runner
  <2>1. /\ Neat(c') /\ Sees(s, c') /\ Kept(c') = Kept(s)
        /\ s.queue = <<>> => c'.asg = s.asg /\ c'.running = s.running /\ c'.queue = s.queue
                             /\ c'.switching = s.switching
    BY <1>3, <1>4, <1>5, <1>8, NextPlaces
  <2>2. Sees(c, c')
    BY <1>3, <2>1 DEF Sees
  <2>3. Louder
    BY <1>6, <2>2, CalmLouder DEF Sees
  <2>4. Placed'
    BY <1>5, <1>6, <1>8, <2>1, <2>3, Moved
  <2>5. ASSUME Quiet' PROVE Poise'
    <3>1. Poise /\ Quiet
      BY <2>3, <2>5 DEF Louder, Seated
    <3>2. CASE Begun
      BY <1>8, <2>2, <2>3, <2>5, <3>2, BegunPoise DEF Sees
    <3>3. CASE ~Begun
      <4>1. c.queue = <<>>
        BY <1>4, <3>1, <3>3, AllBegun
      <4>2. /\ c'.asg = c.asg /\ c'.running = c.running /\ c'.queue = c.queue
            /\ ~c'.switching
        BY <1>3, <2>1, <4>1
      <4>3. \A j : runner'[j] = runner[j] /\ (Poised(j)' <=> Poised(j))
        BY <1>8 DEF Poised
      <4>. QED  BY <2>2, <3>1, <4>2, <4>3 DEF Poise, Sees
    <3>. QED  BY <3>2, <3>3
  <2>. QED  BY <2>4, <2>5 DEF Seats
<1>. QED  BY <1>1, <1>7, <1>8

LEMMA LeavePlaced == ASSUME Seated, Leave PROVE Seats
<1>1. /\ c' = StopAssignment(c) /\ c.queue = <<>> /\ c.asg.turn # "idle"
      /\ UNCHANGED <<runner, cancelled, accepted, log, ended, recalled, used>>
  BY DEF Leave, outVars
<1>2. Record(c) /\ Neat(c)
  BY DEF Seated, Placed
<1>3. Neat(c') /\ c'.turns = c.turns /\ c'.queue = c.queue /\ Sees(c, c')
  BY <1>1, <1>2, StopPlaces
<1>4. Louder
  BY <1>1, <1>3, CalmLouder DEF Sees
<1>5. Placed'
  BY <1>1, <1>3, <1>4, Unmoved DEF Seated
<1>6. Quiet => Begun
  BY <1>1, AllBegun
<1>. QED  BY <1>1, <1>3, <1>4, <1>5, <1>6, BegunPoise DEF Seats, Sees

\* What a stop drops is given up in front of the user.
LEMMA StoppedPlaced ==
  ASSUME Seated, Louder, UNCHANGED <<runner, accepted, log, recalled>>,
         c'.turns = c.turns, c'.queue \in {c.queue, <<>>}, ended' = ended \cup Dropped(c, c')
  PROVE  Placed'
<1>1. Neat(c) /\ Once(log)
  BY DEF Seated, Placed
<1>2. Hands(c') = Hands(c) /\ ToSet(<<>>) = {}
  BY OnceEmpty DEF Hands
<1>3. Neat(c')
  BY <1>1, <1>2, OnceEmpty DEF Neat
<1>4. Kept(c') \cup ended' = Kept(c) \cup ended
  BY <1>2 DEF Kept, Dropped
<1>5. Kept(c) \cap ended = {} /\ (Kept(c) \cup ended) \cap ToSet(log) = {}
  BY DEF Seated, Placed, Separate
<1>6. Hands(c) \cap ToSet(c.queue) = {}
  BY <1>1 DEF Neat
<1>7. Kept(c') \cap ended' = {}
  BY <1>2, <1>5, <1>6 DEF Kept, Dropped
<1>8. Kept(c') \cap (ToSet(log') \cup ended') = {} /\ ToSet(log') \cap ended' = {}
  BY <1>4, <1>5, <1>7
<1>. QED  BY <1>1, <1>3, <1>4, <1>8, Regrouped DEF Seated

LEMMA ShutdownPlaced == ASSUME Seated, Shutdown PROVE Seats
<1>. DEFINE s == [c EXCEPT !.closing = TRUE]
            r == StopAssignment(s)
            q == [r EXCEPT !.queue = <<>>, !.wake = "off"]
<1>1. /\ c' = [q EXCEPT !.stopped = @ \/ q.running]
      /\ ended' = ended \cup ToSet(c.queue)
      /\ UNCHANGED <<runner, cancelled, accepted, log, recalled, used>>
  BY DEF Shutdown, outVars
<1>2. /\ Record(s) /\ s.turns = c.turns /\ s.queue = c.queue /\ s.closing = TRUE
  BY DEF Seated, Record, Fields, AssignmentFields
<1>. HIDE DEF s
<1>3. Neat(s)
  BY <1>2, NeatKept DEF Seated, Placed
<1>4. r.turns = s.turns /\ Sees(s, r) /\ Record(r)
  BY <1>2, <1>3, StopPlaces, StopAssignmentLemma DEF Keeps
<1>. HIDE DEF r
<1>5. c'.turns = c.turns /\ c'.queue = <<>> /\ c'.closing
  <2>1. /\ DOMAIN q = Fields /\ q.turns = c.turns /\ q.queue = <<>> /\ q.closing
    BY <1>2, <1>4 DEF Record, Fields, Sees
  <2>. HIDE DEF q
  <2>. QED  BY <1>1, <2>1 DEF Fields
<1>6. ~Quiet' /\ Louder
  BY <1>1, <1>5 DEF Quiet, Louder, Seated, Placed
<1>7. ended' = ended \cup Dropped(c, c')
  BY <1>1, <1>5, OnceEmpty DEF Dropped
<1>8. Placed'
  BY <1>1, <1>5, <1>6, <1>7, StoppedPlaced
<1>. QED  BY <1>6, <1>8 DEF Seats

LEMMA RestPlaced ==
  ASSUME Seated, MaxEvents = 0, MaxInbox = 0,
         Release \/ ChangeModel \/ TimerFires \/ WakeForWatches \/ WatchEvent \/ Result
  PROVE  Seats
<1>1. Release \/ ChangeModel \/ TimerFires \/ WakeForWatches
  BY DEF WatchEvent, Result, Seated, Child, Unspent
<1>2. UNCHANGED <<runner, cancelled, accepted, log, ended, recalled, used>>
  BY <1>1 DEF Release, ChangeModel, TimerFires, WakeForWatches, outVars
<1>3. WakeForWatches => c' = [c EXCEPT !.wake = "off"]
  <2>. DEFINE s == [c EXCEPT !.wake = "off"]
  <2>1. ~Waiting(s)
    BY DEF Waiting, Seated, Child, Lone, Working, Record, Fields
  <2>. HIDE DEF s
  <2>. QED  BY <2>1 DEF WakeForWatches, s
<1>4. \E v : c' \in {c, [c EXCEPT !.model = v], [c EXCEPT !.wake = v]}
  BY <1>1, <1>3 DEF Release, ChangeModel, TimerFires
<1>5. /\ c'.turns = c.turns /\ c'.queue = c.queue /\ c'.asg = c.asg
      /\ c'.running = c.running /\ c'.switching = c.switching /\ Sees(c, c')
  BY <1>4 DEF Seated, Record, Fields, Sees
<1>. QED  BY <1>2, <1>5, StillPlaced

LEMMA ViewReadyPlaced == ASSUME Seated, ViewReady PROVE Seats
<1>1. /\ c.view = "pending" /\ \E outcome : c' = [c EXCEPT !.view = outcome]
      /\ UNCHANGED <<runner, cancelled, accepted, log, ended, recalled, used>>
  BY DEF ViewReady, runnerRest
<1>2. /\ c'.turns = c.turns /\ c'.queue = c.queue /\ c'.asg = c.asg /\ c'.closing = c.closing
      /\ c'.running = c.running /\ c'.switching = c.switching /\ c'.attached = c.attached
  BY <1>1 DEF Seated, Record, Fields
<1>3. Louder
  BY <1>1, <1>2, CalmLouder
<1>4. Placed'
  BY <1>1, <1>2, <1>3, Unmoved DEF Seated
<1>5. ASSUME Quiet' PROVE Poise'
  <2>1. Poise
    BY <1>3, <1>5 DEF Louder, Seated
  <2>2. \A j : runner'[j] = runner[j] /\ (Poised(j)' <=> Poised(j))
    BY <1>1 DEF Poised
  <2>. QED  BY <1>1, <1>2, <2>1, <2>2 DEF Poise
<1>. QED  BY <1>4, <1>5 DEF Seats

(***************************************************************************)
(* A child's runners and their prompts.                                    *)
(***************************************************************************)

\* A runner moves on and keeps its prompt, or there was nothing to lose.
LEMMA RunnerUnmoved ==
  ASSUME Seated, Louder, NEW j \in Jobs, NEW pc, Poised(j)' => Poised(j),
         runner' = [runner EXCEPT ![j].pc = pc],
         UNCHANGED <<accepted, log, ended, recalled>>,
         c'.turns = c.turns, c'.queue = c.queue,
         Quiet' => Pending(j) = {} \/ Poised(j)'
  PROVE  Placed'
<1>1. Placed /\ Child
  BY DEF Seated
<1>2. Neat(c') /\ Kept(c') = Kept(c)
  BY <1>1, NeatKept DEF Placed
<1>3. /\ Pending(j)' \subseteq Pending(j)
      /\ Quiet' => Pending(j)' = Pending(j)
  BY <1>1 DEF Child, Runners, Pending, Poised
<1>4. Kept(c) \cap (Pending(j) \cup ended) = {} /\ Pending(j) \cap ended = {}
  BY <1>1 DEF Placed, Separate, Pendings
<1>5. Kept(c') \cap (Pending(j)' \cup ended') = {} /\ Pending(j)' \cap ended' = {}
  BY <1>2, <1>3, <1>4
<1>6. LET old == Kept(c) \cup Pending(j) \cup ended
          new == Kept(c') \cup Pending(j)' \cup ended'
      IN  new \subseteq old /\ (Quiet' => old \subseteq new)
  BY <1>2, <1>3
<1>. QED  BY <1>1, <1>2, <1>5, <1>6, RunnerRegrouped

\* In a quiet session only one runner has not begun.
LEMMA PoisedAlone ==
  ASSUME Seated, NEW j \in Jobs, Poised(j), Quiet
  PROVE  /\ c.asg.job = j /\ ~c.running /\ c.asg.turn = "idle"
         /\ runner[j].pc = "starting" => ~c.asg.claimed
         /\ runner[j].pc = "attaching" => c.attached
         /\ c.asg.terminal \/ c.switching =>
              /\ c.attached /\ runner[j].pc = "beginning"
              /\ c.asg.terminal /\ c.view = "failed" /\ c.queue = <<>>
         /\ c.attached => j = 1
         /\ \A i \in Jobs : Poised(i) => i = j
<1>1. Poise
  BY DEF Seated
<1>2. 1 \in Jobs
  <2>1. c.asg.job \in 1..MaxJobs /\ MaxJobs \in Nat
    BY BoundsAssumption DEF Seated, Child, Lone, Working, Jobs
  <2>. QED  BY <2>1 DEF Jobs
<1>. QED  BY <1>1, <1>2 DEF Poise

LEMMA ClaimPlaced == ASSUME Seated, NEW j \in Jobs, Claim(j) PROVE Seats
<1>. DEFINE u == [c EXCEPT !.asg.claimed = TRUE]
            v == [c EXCEPT !.asg = [NewAssignment(j) EXCEPT !.claimed = TRUE]]
<1>1. /\ runner[j].pc = "starting" /\ Poised(j)
      /\ UNCHANGED <<used, cancelled, accepted, log, ended, recalled>>
  BY DEF Claim, runnerRest, Poised
<1>2. /\ u.turns = c.turns /\ u.queue = c.queue /\ u.running = c.running
      /\ u.switching = c.switching /\ Sees(c, u)
      /\ u.asg.job = c.asg.job /\ u.asg.turn = c.asg.turn /\ u.asg.terminal = c.asg.terminal
  BY DEF Seated, Record, Fields, AssignmentFields, Sees
<1>3. v.turns = c.turns /\ v.queue = c.queue /\ Sees(c, v)
  BY DEF Seated, Record, Fields, Sees
<1>4. \/ /\ runner' = [runner EXCEPT ![j].pc = "returned"]
         /\ c' \in {c, u}
         /\ \/ c.asg.job # j \/ c.asg.claimed \/ c.asg.terminal
            \/ c.closing \/ c.running
      \/ /\ \E pc \in {"attaching", "beginning"} :
              /\ runner' = [runner EXCEPT ![j].pc = pc]
              /\ pc = "attaching" <=> c.attached
         /\ \/ c' = u
            \/ c' = v /\ c.asg.job # j
  <2>1. CASE c.asg.job = j /\ ~c.asg.claimed /\ c.asg.terminal
    BY <2>1 DEF Claim, Returns
  <2>2. CASE ~(c.asg.job = j /\ ~c.asg.claimed /\ c.asg.terminal)
    <3>. HIDE DEF u, v
    <3>1. \/ /\ Returns(j) /\ c' = c
             /\ \/ c.closing \/ c.running
                \/ c.asg.job # j \/ c.asg.claimed \/ c.asg.terminal
          \/ /\ runner' = [runner EXCEPT ![j].pc = IF c.attached THEN "attaching" ELSE "beginning"]
             /\ \/ c' = u
                \/ c' = v /\ c.asg.job # j
      BY <2>2 DEF Claim, u, v
    <3>. QED  BY <3>1 DEF Returns
  <2>. QED  BY <2>1, <2>2
<1>. HIDE DEF u, v
<1>5. c'.turns = c.turns /\ c'.queue = c.queue /\ Sees(c, c')
  BY <1>2, <1>3, <1>4 DEF Sees
<1>6. Louder
  BY <1>1, <1>5, CalmLouder DEF Sees
<1>7. CASE /\ runner' = [runner EXCEPT ![j].pc = "returned"]
           /\ \/ c.asg.job # j \/ c.asg.claimed \/ c.asg.terminal
              \/ c.closing \/ c.running
  <2>1. ~Quiet
    BY <1>1, <1>7, PoisedAlone DEF Quiet
  <2>2. ~Quiet'
    BY <1>6, <2>1 DEF Louder
  <2>3. Placed'
    BY <1>1, <1>5, <1>6, <1>7, <2>2, RunnerUnmoved
  <2>. QED  BY <2>2, <2>3 DEF Seats
<1>8. ASSUME NEW pc \in {"attaching", "beginning"}, runner' = [runner EXCEPT ![j].pc = pc],
             pc = "attaching" <=> c.attached, c' = u \/ (c' = v /\ c.asg.job # j)
      PROVE  Seats
  <2>1. runner'[j].pc = pc /\ \A i \in Jobs \ {j} : runner'[i] = runner[i]
    BY <1>8 DEF Seated, Child, Runners
  <2>2. Poised(j)' /\ \A i \in Jobs \ {j} : Poised(i)' <=> Poised(i)
    BY <2>1 DEF Poised
  <2>3. Placed'
    BY <1>1, <1>5, <1>6, <1>8, <2>2, RunnerUnmoved
  <2>4. ASSUME Quiet' PROVE Poise'
    <3>1. Quiet
      BY <1>6, <2>4 DEF Louder
    <3>2. /\ c.asg.job = j /\ ~c.running /\ c.asg.turn = "idle" /\ ~c.asg.terminal
          /\ ~c.switching /\ (c.attached => j = 1)
          /\ \A i \in Jobs : Poised(i) => i = j
      BY <1>1, <3>1, PoisedAlone
    <3>3. c' = u
      BY <1>8, <3>2
    <3>4. \A i \in Jobs : Poised(i)' => i = j
      BY <2>2, <3>2
    <3>. QED  BY <1>2, <1>8, <2>1, <2>2, <3>2, <3>3, <3>4 DEF Poise, Sees
  <2>. QED  BY <2>3, <2>4 DEF Seats
<1>. QED  BY <1>4, <1>7, <1>8

\* Whoever waits for nobody any more has nobody left to begin.
LEMMA LastPoise ==
  ASSUME Seated, Louder, NEW j \in Jobs, Poised(j),
         \A i \in Jobs : Poised(i)' => Poised(i), ~Poised(j)', ~c'.attached
  PROVE  Quiet' => Poise'
<1>. SUFFICES ASSUME Quiet' PROVE Poise'
  OBVIOUS
<1>1. \A i \in Jobs : Poised(i) => i = j
  BY PoisedAlone DEF Louder
<1>. QED  BY <1>1 DEF Poise

\* A follow-up that cannot bind gives its prompt back.
LEMMA BindFailsPlaced == ASSUME Seated, NEW j \in Jobs, BindFails(j) PROVE Seats
<1>. DEFINE s == StopAssignment(c)
            p == runner[j].prompt
            q == <<p>>
<1>1. /\ runner[j].pc = "starting" /\ Poised(j) /\ j # 1
      /\ runner' = [runner EXCEPT ![j].pc = "returned"]
      /\ UNCHANGED <<used, cancelled, accepted, log, recalled>>
  BY DEF BindFails, Returns, runnerRest, Poised, Jobs
<1>2. /\ Record(c) /\ Neat(c) /\ Placed /\ Child /\ p \in Prompts
  BY <1>1 DEF Seated, Placed, Named
<1>3. /\ runner'[j].pc = "returned" /\ \A i \in Jobs \ {j} : runner'[i] = runner[i]
  BY <1>1, <1>2 DEF Child, Runners
<1>4. ~Poised(j)' /\ \A i \in Jobs : Poised(i)' => Poised(i)
  BY <1>1, <1>3 DEF Poised
<1>5. CASE Over(c, j) /\ UNCHANGED <<c, ended>>
  <2>1. Louder
    BY <1>1, <1>5, CalmLouder
  <2>2. ~Quiet'
    BY <1>1, <1>5, <2>1, PoisedAlone DEF Over, Louder
  <2>3. Placed'
    BY <1>1, <1>4, <1>5, <2>1, <2>2, RunnerUnmoved
  <2>. QED  BY <2>2, <2>3 DEF Seats
<1>6. CASE /\ ~Over(c, j) /\ c' = Requeue(s, <<p>>) /\ ended' = ended \cup Dropped(c, s)
  <2>1. /\ Neat(s) /\ s.turns = c.turns /\ Sees(c, s) /\ s.queue \in {c.queue, <<>>}
        /\ Record(s)
    BY <1>2, StopPlaces, StopAssignmentLemma DEF Keeps
  <2>2. Kept(s) \cup Dropped(c, s) = Kept(c) /\ Kept(s) \cap Dropped(c, s) = {}
    BY <1>2, <2>1, DroppedPlaces
  <2>3. Pending(j) = {p} /\ Pending(j)' = {}
    BY <1>1, <1>2, <1>4, NoneAssumption DEF Pending
  <2>4. /\ Kept(c) \cap ({p} \cup ended) = {} /\ p \notin ended
    BY <1>2, <2>3 DEF Placed, Separate, Pendings
  <2>5. Once(q) /\ ToSet(q) = {p} /\ c' = Requeue(s, q)
    BY <1>2, <1>6, OnceOne
  <2>. HIDE DEF s, q
  <2>6. ToSet(q) \cap Kept(s) = {}
    BY <2>2, <2>4, <2>5
  <2>7. /\ Neat(c') /\ Sees(s, c')
        /\ Kept(c') = IF s.closing THEN Kept(s) ELSE Kept(s) \cup {p}
    <3>. DEFINE r == Requeue(s, q)
    <3>1. /\ Neat(r) /\ Sees(s, r)
          /\ Kept(r) = IF s.closing THEN Kept(s) ELSE Kept(s) \cup ToSet(q)
      BY <2>1, <2>5, <2>6, RequeuePlaces
    <3>2. c' = r
      BY <2>5
    <3>. HIDE DEF r
    <3>. QED  BY <2>5, <3>1, <3>2
  <2>8. Louder /\ (Quiet' => ~s.closing)
    BY <1>1, <2>1, <2>7, CalmLouder DEF Sees, Quiet
  <2>9. LET old == Kept(c) \cup Pending(j) \cup ended
            new == Kept(c') \cup Pending(j)' \cup ended'
        IN  new \subseteq old /\ (Quiet' => old \subseteq new)
    BY <1>6, <2>2, <2>3, <2>7, <2>8
  <2>10. Kept(c') \cap (Pending(j)' \cup ended') = {} /\ Pending(j)' \cap ended' = {}
    BY <1>6, <2>2, <2>3, <2>4, <2>7
  <2>11. Placed'
    BY <1>1, <1>2, <1>4, <2>7, <2>8, <2>9, <2>10, RunnerRegrouped
  <2>12. Quiet' => ~c'.attached
    BY <1>1, <2>1, <2>7, <2>8, PoisedAlone DEF Louder, Sees
  <2>. QED  BY <1>1, <1>4, <2>8, <2>11, <2>12, LastPoise DEF Seats
<1>. QED  BY <1>5, <1>6 DEF BindFails

\* The runner passes the fence; a View that failed ends its assignment.
LEMMA AttachPlaced == ASSUME Seated, NEW j \in Jobs, Attach(j) PROVE Seats
<1>1. /\ runner[j].pc = "attaching" /\ Poised(j)
      /\ UNCHANGED <<used, cancelled, accepted, log, recalled>>
  BY DEF Attach, runnerRest, Poised
<1>2. Record(c) /\ Neat(c) /\ Placed /\ Child
  BY DEF Seated, Placed
<1>3. CASE Over(c, j) /\ Returns(j) /\ UNCHANGED <<c, ended>>
  <2>1. Louder
    BY <1>1, <1>3, CalmLouder
  <2>2. ~Quiet'
    BY <1>1, <1>3, <2>1, PoisedAlone DEF Over, Louder
  <2>3. runner' = [runner EXCEPT ![j].pc = "returned"]
    BY <1>3 DEF Returns
  <2>4. Placed'
    BY <1>1, <1>3, <2>1, <2>2, <2>3, RunnerUnmoved
  <2>. QED  BY <2>2, <2>4 DEF Seats
<1>4. CASE /\ runner' = [runner EXCEPT ![j].pc = "beginning"]
           /\ c' = IF c.view = "failed" THEN StopJob(c, j) ELSE c
           /\ ended' = ended \cup Dropped(c, c')
  <2>1. runner'[j].pc = "beginning" /\ \A i \in Jobs \ {j} : runner'[i] = runner[i]
    BY <1>2, <1>4 DEF Child, Runners
  <2>2. /\ Poised(j)' /\ \A i \in Jobs \ {j} : Poised(i)' <=> Poised(i)
        /\ Pending(j)' = Pending(j)
    <3>1. Poised(j)' /\ \A i \in Jobs \ {j} : Poised(i)' <=> Poised(i)
      BY <2>1 DEF Poised
    <3>2. runner'[j].prompt = runner[j].prompt
      BY <1>2, <1>4 DEF Child, Runners
    <3>. QED  BY <1>1, <3>1, <3>2 DEF Pending
  <2>3. \/ c' = c /\ c.view # "failed"
        \/ c' = c /\ c.asg.job # j
        \/ c' = StopAssignment(c) /\ c.view = "failed" /\ c.asg.job = j
    BY <1>4 DEF StopJob
  <2>4. /\ Neat(c') /\ c'.turns = c.turns /\ Sees(c, c') /\ c'.queue \in {c.queue, <<>>}
    BY <1>2, <2>3, StopPlaces DEF Sees
  <2>5. Louder
    BY <1>1, <2>4, CalmLouder DEF Sees
  <2>6. Placed'
    <3>1. Kept(c') \cup Dropped(c, c') = Kept(c) /\ Kept(c') \cap Dropped(c, c') = {}
      BY <1>2, <2>4, DroppedPlaces
    <3>2. Kept(c) \cap (Pending(j) \cup ended) = {} /\ Pending(j) \cap ended = {}
      BY <1>2 DEF Placed, Separate, Pendings
    <3>3. LET old == Kept(c) \cup Pending(j) \cup ended
              new == Kept(c') \cup Pending(j)' \cup ended'
          IN  new \subseteq old /\ old \subseteq new
      BY <1>4, <2>2, <3>1
    <3>4. Kept(c') \cap (Pending(j)' \cup ended') = {} /\ Pending(j)' \cap ended' = {}
      BY <1>4, <2>2, <3>1, <3>2
    <3>. QED  BY <1>1, <1>2, <1>4, <2>4, <2>5, <3>3, <3>4, RunnerRegrouped
  <2>7. ASSUME Quiet' PROVE Poise'
    <3>1. Quiet
      BY <2>5, <2>7 DEF Louder
    <3>2. /\ c.asg.job = j /\ ~c.running /\ c.asg.turn = "idle" /\ ~c.asg.terminal
          /\ ~c.switching /\ c.attached /\ j = 1
          /\ \A i \in Jobs : Poised(i) => i = j
      BY <1>1, <3>1, PoisedAlone
    <3>3. \A i \in Jobs : Poised(i)' => i = j
      BY <2>2, <3>2
    <3>4. CASE c' = c
      BY <2>1, <2>2, <3>2, <3>3, <3>4 DEF Poise
    <3>5. CASE c' = StopAssignment(c) /\ c.view = "failed"
      <4>1. OpenAssignment(c)
        BY <3>2 DEF OpenAssignment, HasAssignment, Jobs
      <4>2. /\ c'.asg.terminal /\ c'.asg.turn = "idle" /\ c'.queue = <<>>
            /\ c'.running = c.running /\ c'.asg.job = c.asg.job
        BY <1>2, <3>2, <3>5, <4>1, StopPlaces
      <4>. QED  BY <2>1, <2>2, <2>4, <3>2, <3>3, <3>5, <4>2 DEF Poise, Sees
    <3>. QED  BY <2>3, <3>4, <3>5
  <2>. QED  BY <2>6, <2>7 DEF Seats
<1>. QED  BY <1>3, <1>4 DEF Attach

\* The runner begins: its prompt goes to the first turn, to the queue or, if a
\* stop came first, to nobody.
LEMMA BeginPlaced == ASSUME Seated, NEW j \in Jobs, Begin(j) PROVE Seats
<1>. DEFINE s == [c EXCEPT !.attached = FALSE]
            p == runner[j].prompt
            r == StopAssignment(s)
            q == [s EXCEPT !.queue = Tail(@)]
            h == Head(s.queue)
            here == {p} \ {None}
<1>1. /\ runner[j].pc = "beginning" /\ Poised(j)
      /\ runner' = [runner EXCEPT ![j].pc = "waiting"]
      /\ UNCHANGED <<used, cancelled, accepted, log, recalled>>
  BY DEF Begin, runnerRest, Poised
<1>2. /\ Record(c) /\ Neat(c) /\ Placed /\ Child /\ Lone(c)
      /\ p \in Prompts \cup {None} /\ Pending(j) = here
  BY <1>1 DEF Seated, Placed, Named, Child, Pending
<1>3. runner'[j].pc = "waiting" /\ \A i \in Jobs \ {j} : runner'[i] = runner[i]
  BY <1>1, <1>2 DEF Child, Runners
<1>4. ~Poised(j)' /\ Pending(j)' = {} /\ \A i \in Jobs : Poised(i)' => Poised(i)
  BY <1>1, <1>3 DEF Poised, Pending
<1>5. /\ Record(s) /\ Beside(c, s) /\ s.turns = c.turns /\ s.queue = c.queue /\ s.asg = c.asg
      /\ s.running = c.running /\ s.closing = c.closing /\ s.attached = FALSE
  BY <1>2 DEF Beside, Keeps, Record, Fields, AssignmentFields
<1>6. Kept(c) \cap (here \cup ended) = {} /\ here \cap ended = {}
  BY <1>2 DEF Placed, Separate, Pendings
<1>7. \/ Over(s, j) /\ c' = s /\ UNCHANGED ended
      \/ /\ ~Over(s, j) /\ c' = Requeue(r, Owed(p, TRUE))
         /\ ended' = ended \cup Dropped(s, r)
      \/ /\ ~Over(s, j) /\ s.asg.turn = "idle" /\ c' = StartPrompt(s, p, TRUE, FALSE)
         /\ UNCHANGED ended
      \/ /\ ~Over(s, j) /\ s.asg.turn = "interrupted" /\ s.queue # <<>>
         /\ c' = StartPrompt(q, h, TRUE, FALSE) /\ UNCHANGED ended
      \/ ~Over(s, j) /\ s.asg.turn # "idle" /\ c' = s /\ UNCHANGED ended
  BY DEF Begin
<1>. HIDE DEF s, p, here
<1>8. Neat(s) /\ Kept(s) = Kept(c) /\ Lone(s)
  BY <1>2, <1>5, NeatKept, BesideLone
<1>9. ASSUME Quiet, Over(s, j) \/ s.asg.turn # "idle" PROVE here = {}
  <2>1. c.asg.job = j /\ c.asg.turn = "idle" /\ (c.asg.terminal => c.attached /\ j = 1)
    BY <1>1, <1>9, PoisedAlone
  <2>2. j = 1
    BY <1>5, <1>9, <2>1 DEF Over
  <2>. QED  BY <1>1, <1>2, <2>2 DEF Placed, Named, p, here
<1>10. ~Over(s, j) /\ s.asg.turn \in {"idle", "interrupted"} => ~s.running
  BY <1>8 DEF Over, Lone, Working
<1>11. ASSUME Neat(c'), Sees(s, c'),
              Kept(c') \cup ended' \subseteq Kept(c) \cup here \cup ended,
              Quiet => Kept(c) \cup here \cup ended \subseteq Kept(c') \cup ended',
              Kept(c') \cap ended' = {}
       PROVE  Seats
  <2>1. Louder
    BY <1>1, <1>5, <1>11, CalmLouder DEF Sees
  <2>2. LET old == Kept(c) \cup Pending(j) \cup ended
            new == Kept(c') \cup Pending(j)' \cup ended'
        IN  new \subseteq old /\ (Quiet' => old \subseteq new)
    BY <1>2, <1>4, <1>11, <2>1 DEF Louder
  <2>3. Kept(c') \cap (Pending(j)' \cup ended') = {} /\ Pending(j)' \cap ended' = {}
    BY <1>4, <1>11
  <2>4. Placed'
    BY <1>1, <1>2, <1>4, <1>11, <2>1, <2>2, <2>3, RunnerRegrouped
  <2>5. ~c'.attached
    BY <1>5, <1>11 DEF Sees
  <2>. QED  BY <1>1, <1>4, <2>1, <2>4, <2>5, LastPoise DEF Seats
<1>12. CASE c' = s /\ UNCHANGED ended /\ (Over(s, j) \/ s.asg.turn # "idle")
  <2>1. Neat(c') /\ Sees(s, c') /\ Kept(c') = Kept(c)
    BY <1>8, <1>12 DEF Sees
  <2>. QED  BY <1>6, <1>9, <1>11, <1>12, <2>1
<1>13. CASE c' = Requeue(r, Owed(p, TRUE)) /\ ended' = ended \cup Dropped(s, r)
  <2>. DEFINE o == Owed(p, TRUE)
              d == Dropped(s, r)
  <2>1. /\ Neat(r) /\ r.turns = s.turns /\ Sees(s, r) /\ r.queue \in {s.queue, <<>>} /\ Record(r)
    BY <1>5, <1>8, StopPlaces, StopAssignmentLemma DEF Keeps
  <2>. HIDE DEF r
  <2>2. Kept(r) \cup d = Kept(c) /\ Kept(r) \cap d = {}
    BY <1>8, <2>1, DroppedPlaces
  <2>3. Once(o) /\ ToSet(o) = here
    BY <1>2, OwedPlaces DEF here
  <2>. HIDE DEF o, d
  <2>4. ToSet(o) \cap Kept(r) = {}
    BY <1>6, <2>2, <2>3
  <2>5. /\ Neat(c') /\ Sees(r, c')
        /\ Kept(c') = IF r.closing THEN Kept(r) ELSE Kept(r) \cup here
    <3>. DEFINE t == Requeue(r, o)
    <3>1. /\ Neat(t) /\ Sees(r, t)
          /\ Kept(t) = IF r.closing THEN Kept(r) ELSE Kept(r) \cup ToSet(o)
      BY <2>1, <2>3, <2>4, RequeuePlaces
    <3>2. c' = t
      BY <1>13 DEF o
    <3>. HIDE DEF t
    <3>. QED  BY <2>3, <3>1, <3>2
  <2>6. Sees(s, c') /\ (Quiet => ~r.closing)
    BY <1>5, <2>1, <2>5 DEF Sees, Quiet
  <2>7. ended' = ended \cup d
    BY <1>13 DEF d
  <2>8. Kept(c') \cup ended' \subseteq Kept(c) \cup here \cup ended
    BY <2>2, <2>5, <2>7
  <2>9. Quiet => Kept(c) \cup here \cup ended \subseteq Kept(c') \cup ended'
    BY <2>2, <2>5, <2>6, <2>7
  <2>10. Kept(c') \cap ended' = {}
    BY <1>6, <2>2, <2>5, <2>7
  <2>. QED  BY <1>11, <2>5, <2>6, <2>8, <2>9, <2>10
<1>14. CASE ~s.running /\ c' = StartPrompt(s, p, TRUE, FALSE) /\ UNCHANGED ended
  <2>1. p \notin ToSet(s.queue)
    <3>1. p \in Prompts => p # None
      BY NoneAssumption
    <3>2. p \in Prompts => p \notin Kept(s)
      BY <1>6, <1>8, <3>1 DEF here
    <3>3. None \notin ToSet(s.queue)
      BY <1>8, NoneAssumption DEF Neat, Once, ToSet
    <3>. QED  BY <1>2, <3>2, <3>3 DEF Kept
  <2>2. /\ Neat(c') /\ Sees(s, c')
        /\ Kept(c') = IF c'.running THEN Kept(s) \cup ({p} \ {None})
                      ELSE IF s.closing THEN Kept(s)
                      ELSE Kept(s) \cup ToSet(Owed(p, TRUE))
    <3>. DEFINE t == StartPrompt(s, p, TRUE, FALSE)
    <3>1. /\ Neat(t) /\ Sees(s, t)
          /\ Kept(t) = IF t.running THEN Kept(s) \cup ({p} \ {None})
                       ELSE IF s.closing THEN Kept(s)
                       ELSE Kept(s) \cup ToSet(Owed(p, TRUE))
      BY <1>2, <1>5, <1>8, <1>14, <2>1, StartPlaces
    <3>2. c' = t
      BY <1>14
    <3>. HIDE DEF t
    <3>. QED  BY <3>1, <3>2
  <2>3. Kept(c') \in {Kept(c), Kept(c) \cup here} /\ (Quiet => Kept(c') = Kept(c) \cup here)
    BY <1>2, <1>5, <1>8, <2>2, OwedPlaces DEF here, Quiet
  <2>4. Kept(c') \cap ended' = {}
    BY <1>6, <1>14, <2>3
  <2>. QED  BY <1>11, <1>14, <2>2, <2>3, <2>4
<1>15. CASE /\ ~s.running /\ s.asg.turn = "interrupted" /\ s.queue # <<>>
            /\ c' = StartPrompt(q, h, TRUE, FALSE) /\ UNCHANGED ended
  <2>1. /\ h \in Prompts /\ Once(Tail(s.queue))
        /\ ToSet(s.queue) = {h} \cup ToSet(Tail(s.queue)) /\ h \notin ToSet(Tail(s.queue))
    BY <1>8, <1>15, OnceFirst DEF Neat
  <2>2. /\ Record(q) /\ Beside(s, q) /\ q.turns = s.turns /\ q.queue = Tail(s.queue)
        /\ q.running = s.running /\ Sees(s, q)
    BY <1>5 DEF Beside, Keeps, Record, Fields, AssignmentFields, Sees
  <2>. HIDE DEF q, h
  <2>3. Lone(q) /\ Hands(q) = Hands(s)
    BY <1>8, <2>2, BesideLone DEF Hands
  <2>4. Neat(q) /\ Kept(s) = Kept(q) \cup {h}
    BY <1>8, <2>1, <2>2, <2>3 DEF Neat, Kept
  <2>5. ~q.running /\ h \notin ToSet(q.queue)
    BY <1>15, <2>1, <2>2
  <2>6. /\ Neat(c') /\ Sees(q, c')
        /\ Kept(c') \in {Kept(q), Kept(q) \cup ({h} \ {None}), Kept(q) \cup ToSet(Owed(h, TRUE))}
    <3>. DEFINE t == StartPrompt(q, h, TRUE, FALSE)
    <3>0. h \in Prompts \cup {None}
      BY <2>1
    <3>1. /\ Neat(t) /\ Sees(q, t)
          /\ Kept(t) = IF t.running THEN Kept(q) \cup ({h} \ {None})
                       ELSE IF q.closing THEN Kept(q)
                       ELSE Kept(q) \cup ToSet(Owed(h, TRUE))
      <4>1. /\ Record(q) /\ Lone(q) /\ ~q.running /\ Neat(q)
            /\ h \in Prompts \cup {None} /\ h \notin ToSet(q.queue)
        BY <2>2, <2>3, <2>4, <2>5, <3>0
      <4>. QED  BY <4>1, StartPlaces
    <3>2. c' = t
      BY <1>15
    <3>. HIDE DEF t
    <3>. QED  BY <3>1, <3>2
  <2>7. Kept(c') \subseteq Kept(c)
    BY <1>8, <2>1, <2>4, <2>6, OwedPlaces
  <2>8. Sees(s, c')
    BY <2>2, <2>6 DEF Sees
  <2>9. ~Quiet
    <3>1. Quiet => c.asg.turn = "idle"
      BY <1>1, PoisedAlone
    <3>. QED  BY <1>5, <1>15, <3>1
  <2>10. Kept(c') \cap ended' = {}
    BY <1>6, <1>15, <2>7
  <2>. QED  BY <1>11, <1>15, <2>6, <2>7, <2>8, <2>9, <2>10
<1>. QED  BY <1>7, <1>10, <1>12, <1>13, <1>14, <1>15

LEMMA DonePlaced == ASSUME Seated, NEW j \in Jobs, Done(j) PROVE Seats
<1>1. /\ runner[j].pc = "waiting" /\ ~Poised(j)
      /\ runner' = [runner EXCEPT ![j].pc = "returned"]
      /\ UNCHANGED <<c, used, cancelled, accepted, log, ended, recalled>>
  BY DEF Done, Returns, runnerRest, Poised
<1>2. runner'[j].pc = "returned" /\ \A i \in Jobs \ {j} : runner'[i] = runner[i]
  BY <1>1 DEF Seated, Child, Runners
<1>3. ~Poised(j)' /\ \A i \in Jobs : Poised(i)' <=> Poised(i)
  BY <1>1, <1>2 DEF Poised
<1>4. Louder
  BY <1>1, CalmLouder
<1>5. Pending(j) = {}
  BY <1>1 DEF Pending
<1>6. Placed'
  BY <1>1, <1>3, <1>4, <1>5, RunnerUnmoved
<1>7. ASSUME Quiet' PROVE Poise'
  <2>1. Poise
    BY <1>4, <1>7 DEF Louder, Seated
  <2>2. 1 \in Jobs
    <3>1. c.asg.job \in 1..MaxJobs /\ MaxJobs \in Nat
      BY BoundsAssumption DEF Seated, Child, Lone, Working, Jobs
    <3>. QED  BY <3>1 DEF Jobs
  <2>3. \A i \in Jobs : Poised(i) => runner'[i] = runner[i]
    BY <1>1, <1>2
  <2>. QED  BY <1>1, <1>3, <2>1, <2>2, <2>3 DEF Poise
<1>. QED  BY <1>6, <1>7 DEF Seats

LEMMA CancelJobPlaced == ASSUME Seated, NEW j \in Jobs, CancelJob(j) PROVE Seats
<1>1. /\ UNCHANGED <<c, runner, used, accepted, log, ended, recalled>>
      /\ cancelled' = cancelled \cup {j}
  BY DEF CancelJob, runnerRest
<1>2. ~Quiet' /\ Louder
  BY <1>1 DEF Quiet, Louder, Seated, Placed
<1>3. Placed'
  BY <1>1, <1>2, Unmoved DEF Seated
<1>. QED  BY <1>2, <1>3 DEF Seats

LEMMA ContextEndsPlaced == ASSUME Seated, NEW j \in Jobs, ContextEnds(j) PROVE Seats
<1>1. /\ UNCHANGED <<runner, cancelled, used, accepted, log, recalled>>
      /\ c' = StopAssignment(c) /\ j \in cancelled /\ ended' = ended \cup Dropped(c, c')
  BY DEF ContextEnds, runnerRest
<1>2. ~Quiet' /\ Louder
  BY <1>1 DEF Quiet, Louder, Seated, Placed
<1>3. c'.turns = c.turns /\ c'.queue \in {c.queue, <<>>}
  BY <1>1, StopPlaces DEF Seated, Placed
<1>4. Placed'
  BY <1>1, <1>2, <1>3, StoppedPlaced
<1>. QED  BY <1>2, <1>4 DEF Seats

LEMMA RunnerPlaced ==
  ASSUME Seated, NEW j \in Jobs, RunnerStep(j) \/ CancelJob(j)
  PROVE  Seats
BY ClaimPlaced, BindFailsPlaced, AttachPlaced, BeginPlaced, DonePlaced, ContextEndsPlaced,
   CancelJobPlaced DEF RunnerStep

(***************************************************************************)
(* One place for a child's prompts.                                        *)
(***************************************************************************)

LEMMA SeatedInit == IsChild /\ Init => Seated
<1>. SUFFICES ASSUME IsChild, Init PROVE Seated
  OBVIOUS
<1>1. Record(c) /\ Child /\ 1 \in Jobs
  BY ChildInit, ChildAssumption, BoundsAssumption DEF Jobs
<1>2. /\ c.queue = <<>> /\ ~c.closing /\ ~c.running /\ ~c.switching /\ c.attached
      /\ c.asg.job = 1 /\ c.asg.turn = "idle" /\ ~c.asg.terminal /\ ~c.asg.claimed
      /\ \A g \in Turns : c.turns[g].prompt = None /\ c.turns[g].inject = <<>>
      /\ accepted = <<>> /\ log = <<>> /\ ended = {} /\ recalled = {} /\ used.cancels = 0
  BY DEF Init, NoTurn, NewAssignment
<1>3. /\ \A j \in Jobs : runner[j].prompt = None
      /\ runner[1].pc = "starting" /\ \A j \in Jobs : Poised(j) => j = 1
  BY <1>1 DEF Init, Poised
<1>4. \A g \in Turns : Clean(c.turns[g]) /\ Hand(c.turns[g]) = {}
  BY <1>2, OnceEmpty DEF Clean, Hand
<1>5. Neat(c) /\ Kept(c) = {}
  BY <1>2, <1>4, OnceEmpty DEF Neat, Kept, Hands
<1>6. Pendings = {} /\ \A j \in Jobs : Pending(j) = {}
  BY <1>3 DEF Pendings, Pending
<1>7. Named
  BY <1>3 DEF Named
<1>8. Placed
  BY <1>2, <1>5, <1>6, <1>7, OnceEmpty DEF Placed, Separate
<1>9. Poise
  BY <1>1, <1>2, <1>3 DEF Poise, Poised
<1>. QED  BY <1>1, <1>8, <1>9 DEF Seated

LEMMA SeatedNext == ASSUME IsChild, MaxCompacts = 0, Seated, [Next]_vars PROVE Seated'
<1>1. Record(c') /\ Child'
  BY ChildNext, NextGood DEF Seated, Good
<1>2. MaxEvents = 0 /\ MaxInbox = 0 /\ ~HasPlan
  BY ChildAssumption
<1>3. Seats
  <2>1. CASE UNCHANGED vars
    BY <2>1, StillPlaced DEF vars, Sees
  <2>2. CASE UserStep
    <3>1. \A approved \in BOOLEAN : ~SetPlanApproved(approved)
      BY <1>2 DEF SetPlanApproved
    <3>2. ~Compact
      <4>1. ~(used.compacts < MaxCompacts)
        BY DEF Seated, Child, Unspent
      <4>. QED  BY <4>1 DEF Compact
    <3>. QED  BY <1>2, <2>2, <3>1, <3>2, SubmitPlaced, RecallPlaced, CancelPlaced, BeginSwitchPlaced,
              EndSwitchPlaced, LeavePlaced, ShutdownPlaced, RestPlaced DEF UserStep
  <2>3. CASE Background
    BY <1>2, <2>3, RestPlaced DEF Background
  <2>4. CASE \E g \in Turns : TurnStep(g)
    BY <1>2, <2>4, TurnStepPlaced
  <2>5. CASE ViewReady
    BY <2>5, ViewReadyPlaced
  <2>6. CASE \E j \in Jobs : RunnerStep(j) \/ CancelJob(j)
    BY <2>6, RunnerPlaced
  <2>. QED  BY <2>1, <2>2, <2>3, <2>4, <2>5, <2>6 DEF Next
<1>. QED  BY <1>1, <1>3 DEF Seats, Seated

\* At most one turn holds a prompt, and at most one runner.
LEMMA OneHolder ==
  ASSUME Seated, NEW p
  PROVE  /\ LET G == {g \in Turns : p \in Hand(c.turns[g])} IN
            IF p \in Hands(c) THEN \E g : G = {g} ELSE G = {}
         /\ LET J == {j \in Jobs : p \in Pending(j)} IN
            IF p \in Pendings THEN \E j : J = {j} ELSE J = {}
<1>. DEFINE G == {g \in Turns : p \in Hand(c.turns[g])}
            J == {j \in Jobs : p \in Pending(j)}
<1>1. IF p \in Hands(c) THEN \E g : G = {g} ELSE G = {}
  <2>1. CASE p \notin Hands(c)
    BY <2>1 DEF Hands
  <2>2. CASE p \in Hands(c)
    <3>1. PICK g \in Turns : p \in Hand(c.turns[g])
      BY <2>2 DEF Hands
    <3>2. ASSUME NEW h \in Turns, p \in Hand(c.turns[h]) PROVE h = c.gen
      <4>1. c.turns[h].pc # "off"
        BY <3>2, CleanHand DEF Seated, Placed, Neat
      <4>. QED  BY <4>1 DEF Seated, Child, Lone, Working, Single
    <3>3. G = {c.gen}
      BY <3>1, <3>2
    <3>. QED  BY <2>2, <3>3
  <2>. QED  BY <2>1, <2>2
<1>2. IF p \in Pendings THEN \E j : J = {j} ELSE J = {}
  <2>1. CASE p \notin Pendings
    BY <2>1 DEF Pendings
  <2>2. CASE p \in Pendings
    <3>1. PICK j \in Jobs : p \in Pending(j)
      BY <2>2 DEF Pendings
    <3>2. \A i \in Jobs : p \in Pending(i) => i = j
      BY <3>1 DEF Seated, Placed
    <3>3. J = {j}
      BY <3>1, <3>2
    <3>. QED  BY <2>2, <3>3
  <2>. QED  BY <2>1, <2>2
<1>. QED  BY <1>1, <1>2

LEMMA SeatedPlaces ==
  ASSUME Seated, NEW p \in ToSet(accepted)
  PROVE  Cardinality(Places(p)) <= 1 /\ (Quiet => Cardinality(Places(p)) = 1)
<1>. DEFINE Q == {i \in DOMAIN c.queue : c.queue[i] = p}
            G == {g \in Turns : p \in Hand(c.turns[g])}
            J == {j \in Jobs : p \in Pending(j)}
            L == {i \in DOMAIN log : log[i] = p}
            E == IF p \in ended THEN {<<"ended", 0>>} ELSE {}
            R == IF p \in recalled THEN {<<"recalled", 0>>} ELSE {}
<1>1. p \in Prompts /\ p # None
  <2>1. p \in Prompts
    BY DEF Seated, Placed, Once, ToSet
  <2>. QED  BY <2>1, NoneAssumption
<1>2. Places(p) = {<<"queue", i>> : i \in Q} \cup {<<"turn", g>> : g \in G}
                    \cup {<<"runner", j>> : j \in J} \cup {<<"log", i>> : i \in L} \cup E \cup R
  <2>1. {j \in Jobs : /\ runner[j].prompt = p
                      /\ runner[j].pc \in {"starting", "attaching", "beginning"}} = J
    BY <1>1 DEF Pending, Poised
  <2>2. {g \in Turns : p \in ToSet(c.turns[g].inject) \cup {c.turns[g].prompt}} = G
    BY <1>1 DEF Hand
  <2>. QED  BY <2>1, <2>2 DEF Places
<1>3. IF p \in ToSet(c.queue) THEN \E i : Q = {i} ELSE Q = {}
  <2>1. Once(c.queue)
    BY DEF Seated, Placed, Neat
  <2>2. c.queue \in Seq(Prompts) /\ Sorted(c.queue, c.queue)
    BY <2>1, OnceSorted DEF Once
  <2>. QED  BY <2>1, <2>2, OneIndex
<1>4. IF p \in ToSet(log) THEN \E i : L = {i} ELSE L = {}
  <2>1. Once(log)
    BY DEF Seated, Placed
  <2>2. log \in Seq(Prompts) /\ Sorted(log, log)
    BY <2>1, OnceSorted DEF Once
  <2>. QED  BY <2>1, <2>2, OneIndex
<1>5. /\ IF p \in Hands(c) THEN \E g : G = {g} ELSE G = {}
      /\ IF p \in Pendings THEN \E j : J = {j} ELSE J = {}
  BY OneHolder
<1>6. /\ p \in ToSet(c.queue) => p \notin Hands(c)
      /\ p \in Pendings => p \notin Hands(c) /\ p \notin ToSet(c.queue)
      /\ p \in ToSet(log) => p \notin Hands(c) /\ p \notin ToSet(c.queue) /\ p \notin Pendings
      /\ p \in ended => p \notin recalled
      /\ p \in ended \cup recalled => /\ p \notin Hands(c) /\ p \notin ToSet(c.queue)
                                      /\ p \notin Pendings /\ p \notin ToSet(log)
      /\ Quiet => \/ p \in Hands(c) \/ p \in ToSet(c.queue) \/ p \in Pendings
                  \/ p \in ToSet(log) \/ p \in ended \cup recalled
  BY DEF Seated, Placed, Neat, Separate, Kept
<1>. HIDE DEF Q, G, J, L
<1>7. /\ \/ p \in Hands(c) \/ p \in ToSet(c.queue) \/ p \in Pendings
         \/ p \in ToSet(log) \/ p \in ended \cup recalled
      => \E x : Places(p) = {x}
  <2>1. CASE p \in ToSet(log)
    <3>1. PICK i : L = {i}
      BY <1>4, <2>1
    <3>2. Q = {} /\ G = {} /\ J = {} /\ E = {} /\ R = {}
      BY <1>3, <1>5, <1>6, <2>1
    <3>3. Places(p) = {<<"log", i>>}
      BY <1>2, <3>1, <3>2
    <3>. QED  BY <3>3
  <2>2. CASE p \in Hands(c)
    <3>1. PICK g : G = {g}
      BY <1>5, <2>2
    <3>2. Q = {} /\ L = {} /\ J = {} /\ E = {} /\ R = {}
      BY <1>3, <1>4, <1>5, <1>6, <2>2
    <3>3. Places(p) = {<<"turn", g>>}
      BY <1>2, <3>1, <3>2
    <3>. QED  BY <3>3
  <2>3. CASE p \in ToSet(c.queue)
    <3>1. PICK i : Q = {i}
      BY <1>3, <2>3
    <3>2. G = {} /\ L = {} /\ J = {} /\ E = {} /\ R = {}
      BY <1>4, <1>5, <1>6, <2>3
    <3>3. Places(p) = {<<"queue", i>>}
      BY <1>2, <3>1, <3>2
    <3>. QED  BY <3>3
  <2>4. CASE p \in Pendings
    <3>1. PICK j : J = {j}
      BY <1>5, <2>4
    <3>2. Q = {} /\ G = {} /\ L = {} /\ E = {} /\ R = {}
      BY <1>3, <1>4, <1>5, <1>6, <2>4
    <3>3. Places(p) = {<<"runner", j>>}
      BY <1>2, <3>1, <3>2
    <3>. QED  BY <3>3
  <2>5. CASE p \in ended \cup recalled
    <3>1. Q = {} /\ G = {} /\ J = {} /\ L = {}
      BY <1>3, <1>4, <1>5, <1>6, <2>5
    <3>2. \/ E = {<<"ended", 0>>} /\ R = {}
          \/ E = {} /\ R = {<<"recalled", 0>>}
      BY <1>6, <2>5
    <3>3. Places(p) = E \cup R
      BY <1>2, <3>1
    <3>. QED  BY <3>2, <3>3
  <2>. QED  BY <2>1, <2>2, <2>3, <2>4, <2>5
<1>8. ~(\/ p \in Hands(c) \/ p \in ToSet(c.queue) \/ p \in Pendings
        \/ p \in ToSet(log) \/ p \in ended \cup recalled)
      => Places(p) = {}
  BY <1>2, <1>3, <1>4, <1>5
<1>9. Cardinality({}) = 0 /\ \A x : Cardinality({x}) = 1
  BY FS_EmptySet, FS_Singleton
<1>. HIDE DEF E, R
<1>. QED  BY <1>6, <1>7, <1>8, <1>9

(***************************************************************************)
(* Nobody stops a child's turn in quiet times.                             *)
(***************************************************************************)

Calm(s) == ~s.stopped /\ s.asg.turn \in {"idle", "running"}
Eases(s, t) == Record(t) /\ t.closing = s.closing /\ (Calm(s) => Calm(t))

Unstruck == Quiet => Calm(c) /\ excuse.stop = {}

\* What a step owes to Unstruck.
Soothes == Quiet' => Quiet /\ Calm(c') /\ excuse'.stop = excuse.stop

LEMMA EasesTwice ==
  ASSUME NEW s, NEW t, NEW u, Eases(s, t), Eases(t, u)
  PROVE  Eases(s, u)
BY DEF Eases

LEMMA SameEases ==
  ASSUME NEW s, NEW t, Record(t), t.stopped = s.stopped, t.closing = s.closing, t.asg = s.asg
  PROVE  Eases(s, t)
BY DEF Eases, Calm

LEMMA StartEases ==
  ASSUME NEW s, Record(s), NEW p, NEW owed, NEW wake
  PROVE  Eases(s, StartPrompt(s, p, owed, wake))
<1>. DEFINE d == DrainWatch(s)
            g == CHOOSE g \in Turns \ {s.gen} : s.turns[g].pc = "off"
            new == [NoTurn EXCEPT !.pc = "delay", !.prompt = p, !.owed = owed, !.wake = wake,
                                  !.rides = ToSet(s.events), !.job = s.asg.job]
            u == [d EXCEPT !.running = TRUE, !.stopped = FALSE, !.blocked = FALSE,
                          !.resume = FALSE, !.gen = g,
                          !.turns[g] = new,
                          !.asg.turn = IF HasAssignment(s) THEN "running" ELSE @]
            ps == Owed(p, owed)
<1>1. Record(StartPrompt(s, p, owed, wake))
  BY StartPromptLemma
<1>2. Record(d) /\ d.stopped = s.stopped /\ d.closing = s.closing /\ d.asg = s.asg
  BY DEF DrainWatch, Record, Fields
<1>3. ~u.stopped /\ u.closing = s.closing /\ u.asg.turn \in {"running", s.asg.turn}
  <2>. HIDE DEF g, new, d
  <2>. QED  BY <1>2 DEF Record, Fields, AssignmentFields
<1>4. \/ StartPrompt(s, p, owed, wake) \in {Requeue(s, ps), Requeue(d, ps)}
      \/ StartPrompt(s, p, owed, wake) = u
  BY DEF StartPrompt
<1>. HIDE DEF d, u, g, new, ps
<1>5. ASSUME NEW r \in {s, d}
      PROVE  /\ Requeue(r, ps).stopped = s.stopped /\ Requeue(r, ps).asg = s.asg
             /\ Requeue(r, ps).closing = s.closing
  BY <1>2 DEF Requeue, Record, Fields
<1>. QED  BY <1>1, <1>3, <1>4, <1>5 DEF Eases, Calm

LEMMA ResumeEases ==
  ASSUME NEW s, Record(s)
  PROVE  Eases(s, MaybeResume(s))
<1>. DEFINE direct == s.resume /\ s.work
            r == [s EXCEPT !.resume = direct]
<1>1. Record(r) /\ r.stopped = s.stopped /\ r.closing = s.closing /\ r.asg = s.asg
  BY DEF Record, Fields
<1>2. MaybeResume(s) \in {s, r, StartPrompt(r, None, FALSE, FALSE)}
  BY DEF MaybeResume
<1>. HIDE DEF r
<1>3. Eases(s, r) /\ Eases(s, s)
  BY <1>1, SameEases
<1>4. Eases(r, StartPrompt(r, None, FALSE, FALSE))
  BY <1>1, StartEases
<1>5. Eases(s, StartPrompt(r, None, FALSE, FALSE))
  BY <1>3, <1>4, EasesTwice
<1>. QED  BY <1>2, <1>3, <1>5

LEMMA NextEases ==
  ASSUME NEW s, Record(s), NEW stopped
  PROVE  Eases(s, StartNext(s, stopped))
<1>. DEFINE q == [s EXCEPT !.queue = Tail(@)]
            m == IF ~stopped \/ ~HasAssignment(s) THEN MaybeResume(s) ELSE s
            w == [m EXCEPT !.streak = @ + 1]
            first == StartPrompt(q, Head(s.queue), TRUE, FALSE)
            last == StartPrompt(w, None, FALSE, TRUE)
<1>1. Record(q) /\ q.stopped = s.stopped /\ q.closing = s.closing /\ q.asg = s.asg
  BY DEF Record, Fields
<1>2. Eases(s, s)
  BY SameEases
<1>3. Eases(s, m) /\ Record(m) /\ m.streak \in Nat
  BY <1>2, ResumeEases, MaybeResumeLemma DEF Record
<1>4. StartNext(s, stopped) \in {s, m, first, last}
  BY DEF StartNext
<1>. HIDE DEF q, m
<1>5. Record(w) /\ w.stopped = m.stopped /\ w.closing = m.closing /\ w.asg = m.asg
  BY <1>3 DEF Record, Fields
<1>. HIDE DEF w
<1>6. Eases(s, q) /\ Eases(m, w)
  BY <1>1, <1>5, SameEases
<1>7. Eases(q, first) /\ Eases(w, last)
  BY <1>1, <1>5, StartEases
<1>. HIDE DEF first, last
<1>8. Eases(s, first) /\ Eases(s, last)
  BY <1>3, <1>6, <1>7, EasesTwice
<1>. QED  BY <1>2, <1>3, <1>4, <1>8

LEMMA FollowUpEases ==
  ASSUME NEW s, Record(s), NEW p, FollowUp(s, p)
  PROVE  Eases(s, c')
<1>1. Record(c')
  BY FollowUpLemma
<1>2. CASE c' = [s EXCEPT !.asg = NewAssignment(NextJob)]
  <2>1. c'.stopped = s.stopped /\ c'.closing = s.closing /\ c'.asg.turn = "idle"
    BY <1>2 DEF Record, Fields, NewAssignment
  <2>. QED  BY <1>1, <2>1 DEF Eases, Calm
<1>3. CASE c' = Requeue(s, <<p>>)
  <2>1. c'.stopped = s.stopped /\ c'.closing = s.closing /\ c'.asg = s.asg
    BY <1>3 DEF Requeue, Record, Fields
  <2>. QED  BY <1>1, <2>1, SameEases
<1>. QED  BY <1>2, <1>3 DEF FollowUp

LEMMA StopCloses ==
  ASSUME NEW s, Record(s)
  PROVE  Record(StopAssignment(s)) /\ StopAssignment(s).closing = s.closing
<1>1. Record(StopAssignment(s))
  BY StopAssignmentLemma DEF Keeps
<1>2. StopAssignment(s).closing = s.closing
  BY DEF StopAssignment, Complete, Record, Fields
<1>. QED  BY <1>1, <1>2

\* A stop with no turn to wait for ends the assignment.
LEMMA StopEases ==
  ASSUME NEW s, Record(s), ~s.running
  PROVE  Eases(s, StopAssignment(s))
<1>. DEFINE t == [s EXCEPT !.asg.stop = TRUE, !.queue = <<>>]
<1>1. Record(StopAssignment(s))
  BY StopAssignmentLemma DEF Keeps
<1>2. /\ DOMAIN t = Fields /\ DOMAIN t.asg = AssignmentFields /\ t.stopped = s.stopped
      /\ t.closing = s.closing /\ t.running = s.running /\ t.asg.turn = s.asg.turn
  BY DEF Record, Fields, AssignmentFields
<1>3. StopAssignment(s) \in {s, Complete(t)}
  BY <1>2 DEF StopAssignment
<1>. HIDE DEF t
<1>4. /\ Complete(t).stopped = t.stopped /\ Complete(t).closing = t.closing
      /\ Complete(t).asg.turn \in {t.asg.turn, "idle"}
  BY <1>2 DEF Complete, Fields, AssignmentFields
<1>. QED  BY <1>1, <1>2, <1>3, <1>4 DEF Eases, Calm

LEMMA EasedSoothes ==
  ASSUME Unstruck, Eases(c, c'), excuse'.stop = excuse.stop,
         used'.cancels = used.cancels, cancelled \subseteq cancelled'
  PROVE  Soothes
BY DEF Unstruck, Quiet, Eases, Soothes

\* The reasons that are not a stop.
LEMMA OtherReason ==
  ASSUME DOMAIN excuse = {"error", "stop", "failure"}, NEW kind \in {"error", "failure"}, NEW ps,
         Excuse(kind, ps)
  PROVE  excuse'.stop = excuse.stop
BY DEF Excuse

\* Nothing that matters here is touched.
LEMMA KeptSoothes ==
  ASSUME Unstruck, Record(c'), c'.stopped = c.stopped, c'.closing = c.closing,
         c'.asg.turn = c.asg.turn, UNCHANGED <<excuse, cancelled>>, used'.cancels = used.cancels
  PROVE  Soothes
BY DEF Unstruck, Quiet, Calm, Soothes

\* What the steps below start from.
Resting == Seated /\ Unstruck /\ DOMAIN excuse = {"error", "stop", "failure"}

LEMMA SubmitSoothes == ASSUME Resting, NEW p \in Prompts, Submit(p) PROVE Soothes
<1>. DEFINE s == [c EXCEPT !.streak = 0, !.suppressed = FALSE]
            q == [s EXCEPT !.queue = Append(@, p)]
<1>1. Record(s) /\ s.stopped = c.stopped /\ s.closing = c.closing /\ s.asg = c.asg
  BY DEF Resting, Seated, Record, Fields
<1>2. /\ FollowUp(s, p) \/ c' = q \/ c' = StartPrompt(s, p, FALSE, FALSE)
      /\ UNCHANGED excuse \/ \E ps : Excuse("error", ps)
      /\ UNCHANGED <<used, cancelled>>
  BY DEF Submit
<1>. HIDE DEF s
<1>3. Record(q) /\ q.stopped = s.stopped /\ q.closing = s.closing /\ q.asg = s.asg
  BY <1>1 DEF Record, Fields
<1>. HIDE DEF q
<1>4. Eases(c, s) /\ Eases(s, q)
  BY <1>1, <1>3, SameEases
<1>5. Eases(s, c')
  BY <1>1, <1>2, <1>4, FollowUpEases, StartEases
<1>6. Eases(c, c')
  BY <1>4, <1>5, EasesTwice
<1>7. excuse'.stop = excuse.stop
  BY <1>2, OtherReason DEF Resting
<1>. QED  BY <1>2, <1>6, <1>7, EasedSoothes DEF Resting

LEMMA UserSoothes ==
  ASSUME Resting, Record(c'), UserStep, ~Compact,
         \A approved \in BOOLEAN : ~SetPlanApproved(approved)
  PROVE  Soothes
<1>0. Record(c) /\ Unstruck /\ DOMAIN used = {"events", "inbox", "cancels", "compacts", "switches"}
  BY DEF Resting, Seated, Child, Unspent
<1>1. CASE Recall \/ Release \/ ChangeModel
  <2>1. /\ c'.stopped = c.stopped /\ c'.closing = c.closing /\ c'.asg = c.asg
        /\ UNCHANGED <<excuse, cancelled, used>>
    BY <1>0, <1>1 DEF Recall, Release, ChangeModel, Record, Fields
  <2>. QED  BY <1>0, <2>1, KeptSoothes
<1>2. CASE BeginSwitch
  <2>1. /\ c'.stopped = c.stopped /\ c'.closing = c.closing /\ c'.asg = c.asg
        /\ UNCHANGED <<excuse, cancelled>> /\ used'.cancels = used.cancels
    BY <1>0, <1>2 DEF BeginSwitch, Record, Fields
  <2>. QED  BY <1>0, <2>1, KeptSoothes
<1>3. CASE Cancel
  <2>1. used'.cancels = used.cancels + 1 /\ used.cancels \in Nat
    BY <1>0, <1>3 DEF Cancel, Resting, Seated, Placed
  <2>. QED  BY <2>1 DEF Quiet, Soothes
<1>4. CASE Leave
  <2>1. c.asg.turn \notin {"idle", "running"} /\ UNCHANGED <<used, cancelled>> /\ c' = StopAssignment(c)
    BY <1>4 DEF Leave
  <2>2. c'.closing = c.closing
    BY <1>0, <2>1, StopCloses
  <2>. QED  BY <1>0, <2>1, <2>2 DEF Unstruck, Calm, Quiet, Soothes
<1>5. CASE Shutdown
  <2>1. c'.closing
    <3>. DEFINE b == [c EXCEPT !.closing = TRUE]
                t == StopAssignment(b)
                u == [t EXCEPT !.queue = <<>>, !.wake = "off"]
    <3>1. Record(b) /\ b.closing
      BY <1>0 DEF Record, Fields
    <3>. HIDE DEF b
    <3>2. Record(t) /\ t.closing
      BY <3>1, StopCloses
    <3>. HIDE DEF t
    <3>3. c' = [u EXCEPT !.stopped = @ \/ u.running]
      BY <1>5 DEF Shutdown, t, b
    <3>. QED  BY <3>2, <3>3 DEF Record, Fields
  <2>. QED  BY <2>1 DEF Quiet, Soothes
<1>6. CASE EndSwitch
  <2>. DEFINE b == [c EXCEPT !.switching = FALSE, !.stopped = FALSE]
  <2>1. Record(b) /\ ~b.stopped /\ b.closing = c.closing /\ b.asg = c.asg
    BY <1>0 DEF Record, Fields
  <2>2. PICK s \in Conversations(b) :
          IF NeedsFollowUp(s) THEN FollowUp([s EXCEPT !.queue = Tail(@)], Head(s.queue))
          ELSE c' = StartNext(s, c.stopped)
    BY <1>6 DEF EndSwitch
  <2>. HIDE DEF b
  <2>3. Record(s) /\ ~s.stopped /\ s.closing = c.closing /\ s.asg = c.asg
    <3>1. s = b \/ \E a \in Plans, w \in Plans : s = Other(b, a, w)
      BY DEF Conversations
    <3>2. ASSUME NEW a, NEW w, s = Other(b, a, w)
          PROVE  Record(s) /\ s.stopped = b.stopped /\ s.closing = b.closing /\ s.asg = b.asg
      BY <2>1, <3>2 DEF Record, Fields, Other
    <3>. QED  BY <2>1, <3>1, <3>2
  <2>. DEFINE q == [s EXCEPT !.queue = Tail(@)]
  <2>4. Record(q) /\ q.stopped = s.stopped /\ q.closing = s.closing /\ q.asg = s.asg
    BY <2>3 DEF Record, Fields
  <2>5. FollowUp(q, Head(s.queue)) \/ c' = StartNext(s, c.stopped)
    BY <2>2
  <2>. HIDE DEF q
  <2>6. Eases(c, s) /\ Eases(s, q)
    BY <2>3, <2>4, SameEases DEF Eases, Calm
  <2>7. FollowUp(q, Head(s.queue)) => Eases(q, c')
    BY <2>4, FollowUpEases
  <2>8. c' = StartNext(s, c.stopped) => Eases(s, c')
    BY <2>3, NextEases
  <2>9. Eases(c, c')
    BY <2>5, <2>6, <2>7, <2>8, EasesTwice
  <2>. QED  BY <1>0, <1>6, <2>9, EasedSoothes DEF EndSwitch
<1>. QED  BY <1>1, <1>2, <1>3, <1>4, <1>5, <1>6, SubmitSoothes DEF UserStep

LEMMA BackgroundSoothes == ASSUME Resting, Record(c'), Background PROVE Soothes
<1>0. Record(c) /\ Unstruck /\ DOMAIN used = {"events", "inbox", "cancels", "compacts", "switches"}
  BY DEF Resting, Seated, Child, Unspent
<1>1. UNCHANGED <<excuse, cancelled>> /\ used'.cancels = used.cancels
  <2>1. CASE WatchEvent
    BY <1>0, <2>1 DEF WatchEvent
  <2>2. CASE Result
    BY <1>0, <2>2 DEF Result
  <2>3. CASE TimerFires \/ WakeForWatches
    BY <2>3 DEF TimerFires, WakeForWatches
  <2>. QED  BY <2>1, <2>2, <2>3 DEF Background
<1>2. ASSUME NEW s, Record(s), s.stopped = c.stopped, s.closing = c.closing, s.asg = c.asg,
             c' \in {s, Arm(s), ArmUnlessSwitching(s)}
      PROVE  Soothes
  <2>1. c'.stopped = c.stopped /\ c'.closing = c.closing /\ c'.asg = c.asg
    BY <1>2 DEF Arm, ArmUnlessSwitching, Record, Fields
  <2>. QED  BY <1>0, <1>1, <2>1, KeptSoothes
<1>3. CASE WatchEvent
  <2>1. CASE c' = c
    BY <1>0, <1>2, <2>1
  <2>2. ASSUME NEW q, c' = ArmUnlessSwitching([c EXCEPT !.events = q])
        PROVE  Soothes
    <3>. DEFINE s == [c EXCEPT !.events = q]
    <3>1. Record(s) /\ s.stopped = c.stopped /\ s.closing = c.closing /\ s.asg = c.asg
      BY <1>0 DEF Record, Fields
    <3>. HIDE DEF s
    <3>. QED  BY <1>2, <2>2, <3>1 DEF s
  <2>. QED  BY <1>3, <2>1, <2>2 DEF WatchEvent
<1>4. CASE Result
  <2>. DEFINE s == [c EXCEPT !.inbox = @ + 1]
  <2>1. Record(s) /\ s.stopped = c.stopped /\ s.closing = c.closing /\ s.asg = c.asg
    BY <1>0 DEF Record, Fields
  <2>2. c' \in {Arm(s), ArmUnlessSwitching(s)}
    BY <1>4 DEF Result
  <2>. HIDE DEF s
  <2>. QED  BY <1>2, <2>1, <2>2
<1>5. CASE TimerFires
  <2>1. c'.stopped = c.stopped /\ c'.closing = c.closing /\ c'.asg = c.asg
    BY <1>0, <1>5 DEF TimerFires, Record, Fields
  <2>. QED  BY <1>0, <1>1, <2>1, KeptSoothes
<1>6. CASE WakeForWatches
  <2>. DEFINE s == [c EXCEPT !.wake = "off"]
              w == [s EXCEPT !.streak = @ + 1]
  <2>1. Record(s) /\ s.stopped = c.stopped /\ s.closing = c.closing /\ s.asg = c.asg
    BY <1>0 DEF Record, Fields
  <2>2. c' \in {s, StartPrompt(w, None, FALSE, TRUE)}
    BY <1>6 DEF WakeForWatches
  <2>. HIDE DEF s
  <2>3. Record(w) /\ w.stopped = c.stopped /\ w.closing = c.closing /\ w.asg = c.asg
    BY <2>1 DEF Record, Fields
  <2>. HIDE DEF w
  <2>4. Eases(c, s) /\ Eases(c, w)
    BY <2>1, <2>3, SameEases
  <2>5. Eases(w, StartPrompt(w, None, FALSE, TRUE))
    BY <2>3, StartEases
  <2>6. Eases(c, StartPrompt(w, None, FALSE, TRUE))
    BY <2>4, <2>5, EasesTwice
  <2>7. Eases(c, c')
    BY <2>2, <2>4, <2>6
  <2>. QED  BY <1>0, <1>1, <2>7, EasedSoothes
<1>. QED  BY <1>3, <1>4, <1>5, <1>6 DEF Background

LEMMA FinishingSoothes == ASSUME Resting, Record(c'), NEW g \in Turns, Finishing(g) PROVE Soothes
<1>0. Record(c) /\ Unstruck /\ c.gen \in Turns
  BY DEF Resting, Seated, Child, Lone, Working, Single
<1>. DEFINE s == [c EXCEPT !.turns[g] = NoTurn]
            t == [s EXCEPT !.running = FALSE, !.stopped = FALSE]
            q == [t EXCEPT !.queue = Tail(@)]
            n == StartNext(t, c.stopped)
            i == [n EXCEPT !.asg.turn = "interrupted"]
<1>1. /\ Record(t) /\ ~t.stopped /\ t.closing = c.closing /\ t.asg = c.asg
      /\ Record(s) /\ s.stopped = c.stopped /\ s.closing = c.closing /\ s.asg = c.asg
  BY <1>0, NoTurnLemma DEF Record, Fields
<1>2. /\ c' = s \/ FollowUp(q, Head(t.queue)) \/ c' = n \/ c' = Complete(n) \/ (c.stopped /\ c' = i)
      /\ UNCHANGED <<excuse, used, cancelled>>
  BY DEF Finishing
<1>. HIDE DEF s, t
<1>3. Record(q) /\ q.stopped = t.stopped /\ q.closing = t.closing /\ q.asg = t.asg
  BY <1>1 DEF Record, Fields
<1>. HIDE DEF q
<1>4. Eases(c, s) /\ Eases(c, t) /\ Eases(c, q)
  BY <1>1, <1>3, SameEases DEF Eases, Calm
<1>5. Eases(t, n) /\ Record(n)
  BY <1>1, NextEases DEF Eases
<1>. HIDE DEF n
<1>6. Eases(n, Complete(n))
  <2>1. /\ Complete(n).stopped = n.stopped /\ Complete(n).closing = n.closing
        /\ Complete(n).asg.turn \in {n.asg.turn, "idle"} /\ Record(Complete(n))
    BY <1>5, CompleteLemma DEF Complete, Keeps, Record, Fields, AssignmentFields
  <2>. QED  BY <2>1 DEF Eases, Calm
<1>7. CASE c' = s
  BY <1>0, <1>2, <1>4, <1>7, EasedSoothes
<1>8. CASE FollowUp(q, Head(t.queue))
  <2>1. Eases(q, c')
    BY <1>3, <1>8, FollowUpEases
  <2>2. Eases(c, c')
    BY <1>4, <2>1, EasesTwice
  <2>. QED  BY <1>0, <1>2, <2>2, EasedSoothes
<1>9. CASE c' = n \/ c' = Complete(n)
  <2>1. Eases(t, c')
    BY <1>5, <1>6, <1>9, EasesTwice
  <2>2. Eases(c, c')
    BY <1>4, <2>1, EasesTwice
  <2>. QED  BY <1>0, <1>2, <2>2, EasedSoothes
<1>10. CASE c.stopped /\ c' = i
  <2>1. i.closing = n.closing /\ n.closing = c.closing
    BY <1>1, <1>5 DEF Eases, Record, Fields
  <2>. HIDE DEF i
  <2>. QED  BY <1>0, <1>2, <1>10, <2>1 DEF Unstruck, Calm, Quiet, Soothes
<1>. QED  BY <1>2, <1>7, <1>8, <1>9, <1>10

LEMMA TurnStepSoothes == ASSUME Resting, Record(c'), NEW g \in Turns, TurnStep(g) PROVE Soothes
<1>0. Record(c) /\ Unstruck /\ DOMAIN c = Fields
  BY DEF Resting, Seated, Record
<1>1. CASE Fails(g)
  <2>1. c'.stopped = c.stopped /\ c'.closing = c.closing /\ c'.asg = c.asg
    BY <1>0, <1>1 DEF Fails, Fields
  <2>2. UNCHANGED <<used, cancelled>> /\ \E ps : Excuse("error", ps)
    BY <1>1 DEF Fails
  <2>3. excuse'.stop = excuse.stop
    BY <2>2, OtherReason DEF Resting
  <2>. QED  BY <1>0, <2>1, <2>2, <2>3, SameEases, EasedSoothes
<1>2. ASSUME c'.stopped = c.stopped, c'.closing = c.closing, c'.asg = c.asg,
             UNCHANGED <<excuse, used, cancelled>>
      PROVE  Soothes
  BY <1>0, <1>2, KeptSoothes
<1>3. ASSUME NEW pc, Goes(g, pc)
      PROVE  c'.stopped = c.stopped /\ c'.closing = c.closing /\ c'.asg = c.asg
  BY <1>0, <1>3 DEF Goes, Fields
<1>4. CASE Delay(g) \/ Compacting(g)
  BY <1>2, <1>3, <1>4 DEF Delay, Compacting, turnRest
<1>5. CASE Opening(g) \/ Feeding(g)
  <2>. SUFFICES ASSUME ~Fails(g) PROVE Soothes
    BY <1>1
  <2>1. UNCHANGED <<excuse, used, cancelled>>
    BY <1>5 DEF Opening, Feeding, turnRest
  <2>2. c'.stopped = c.stopped /\ c'.closing = c.closing /\ c'.asg = c.asg
    BY <1>0, <1>5 DEF Opening, Feeding, Fields
  <2>. QED  BY <1>2, <2>1, <2>2
<1>6. CASE Inbox(g)
  <2>1. UNCHANGED <<excuse, used, cancelled>>
    BY <1>6 DEF Inbox, turnRest
  <2>2. c'.stopped = c.stopped /\ c'.closing = c.closing /\ c'.asg = c.asg
    BY <1>0, <1>3, <1>6 DEF Inbox, Fields
  <2>. QED  BY <1>2, <2>1, <2>2
<1>7. CASE Inference(g)
  <2>. SUFFICES ASSUME ~Fails(g) PROVE Soothes
    BY <1>1
  <2>1. UNCHANGED <<excuse, used, cancelled>>
    BY <1>7 DEF Inference, turnRest
  <2>2. c'.stopped = c.stopped /\ c'.closing = c.closing /\ c'.asg = c.asg
    BY <1>0, <1>3, <1>7 DEF Inference, Fields
  <2>. QED  BY <1>2, <2>1, <2>2
<1>8. CASE Boundary(g)
  <2>1. UNCHANGED <<excuse, used, cancelled>>
    BY <1>8 DEF Boundary, turnRest
  <2>2. c'.stopped = c.stopped /\ c'.closing = c.closing /\ c'.asg = c.asg
    BY <1>0, <1>8 DEF Boundary, DrainWatch, Fields
  <2>. QED  BY <1>2, <2>1, <2>2
<1>9. CASE Unwinding(g)
  <2>1. UNCHANGED <<excuse, used, cancelled>>
    BY <1>9 DEF Unwinding, turnRest
  <2>2. c'.stopped = c.stopped /\ c'.closing = c.closing /\ c'.asg = c.asg
    BY <1>0, <1>9 DEF Unwinding, Requeue, Fields
  <2>. QED  BY <1>2, <2>1, <2>2
<1>. QED  BY <1>4, <1>5, <1>6, <1>7, <1>8, <1>9, FinishingSoothes DEF TurnStep

LEMMA RunnerSoothes ==
  ASSUME Resting, Record(c'), ViewReady \/ \E j \in Jobs : RunnerStep(j) \/ CancelJob(j)
  PROVE  Soothes
<1>0. Record(c) /\ Unstruck /\ DOMAIN excuse = {"error", "stop", "failure"}
  BY DEF Resting, Seated
<1>1. CASE ViewReady
  <2>1. PICK outcome : c' = [c EXCEPT !.view = outcome]
    BY <1>1 DEF ViewReady
  <2>2. c'.stopped = c.stopped /\ c'.closing = c.closing /\ c'.asg = c.asg
    BY <1>0, <2>1 DEF Record, Fields
  <2>3. UNCHANGED <<excuse, used, cancelled>>
    BY <1>1 DEF ViewReady, runnerRest
  <2>. QED  BY <1>0, <2>2, <2>3, KeptSoothes
<1>2. ASSUME NEW j \in Jobs, Claim(j) PROVE Soothes
  <2>1. /\ UNCHANGED <<excuse, used, cancelled>>
        /\ \/ c' = c
           \/ c' = [c EXCEPT !.asg.claimed = TRUE]
           \/ c' = [c EXCEPT !.asg = [NewAssignment(j) EXCEPT !.claimed = TRUE]]
    BY <1>2 DEF Claim, runnerRest
  <2>2. /\ c'.stopped = c.stopped /\ c'.closing = c.closing
        /\ c'.asg.turn \in {c.asg.turn, "idle"}
    BY <1>0, <2>1 DEF Record, Fields, AssignmentFields, NewAssignment
  <2>3. Eases(c, c')
    BY <2>2 DEF Eases, Calm
  <2>. QED  BY <1>0, <2>1, <2>3, EasedSoothes
<1>3. ASSUME NEW j \in Jobs, Done(j) PROVE Soothes
  BY <1>0, <1>3, KeptSoothes DEF Done, runnerRest
<1>4. ASSUME NEW j \in Jobs, CancelJob(j) \/ ContextEnds(j) PROVE Soothes
  <2>1. ~Quiet'
    BY <1>4 DEF CancelJob, ContextEnds, Quiet
  <2>. QED  BY <2>1 DEF Soothes
<1>5. ASSUME NEW j \in Jobs, BindFails(j) PROVE Soothes
  <2>. DEFINE t == StopAssignment(c)
              ps == <<runner[j].prompt>>
  <2>1. UNCHANGED <<used, cancelled>> /\ runner[j].pc = "starting"
    BY <1>5 DEF BindFails, runnerRest
  <2>2. CASE Over(c, j)
    BY <1>0, <1>5, <2>1, <2>2, KeptSoothes DEF BindFails
  <2>3. CASE ~Over(c, j)
    <3>1. c' = Requeue(t, ps) /\ \E us : Excuse("failure", us)
      BY <1>5, <2>3 DEF BindFails
    <3>2. excuse'.stop = excuse.stop
      BY <1>0, <3>1, OtherReason
    <3>3. Record(t) /\ t.closing = c.closing
      BY <1>0, StopCloses
    <3>. HIDE DEF t, ps
    <3>4. c'.closing = t.closing /\ c'.stopped = t.stopped /\ c'.asg = t.asg
      BY <3>1, <3>3 DEF Requeue, Record, Fields
    <3>5. Quiet => ~c.running
      BY <2>1, PoisedAlone DEF Poised, Resting
    <3>6. ~c.running => Eases(c, t)
      BY <1>0, StopEases DEF t
    <3>7. Quiet' => Quiet
      BY <2>1, <3>3, <3>4 DEF Quiet
    <3>. QED  BY <1>0, <3>2, <3>4, <3>5, <3>6, <3>7 DEF Unstruck, Eases, Calm, Soothes
  <2>. QED  BY <2>2, <2>3
<1>6. ASSUME NEW j \in Jobs, Attach(j) PROVE Soothes
  <2>. DEFINE t == StopAssignment(c)
  <2>1. UNCHANGED <<used, cancelled>> /\ runner[j].pc = "attaching"
    BY <1>6 DEF Attach, runnerRest
  <2>2. /\ c' \in {c, t}
        /\ UNCHANGED excuse \/ \E us : Excuse("failure", us)
    BY <1>6 DEF Attach, StopJob
  <2>3. excuse'.stop = excuse.stop
    BY <1>0, <2>2, OtherReason
  <2>4. Record(t) /\ t.closing = c.closing
    BY <1>0, StopCloses
  <2>5. Quiet => ~c.running
    BY <2>1, PoisedAlone DEF Poised, Resting
  <2>6. ~c.running => Eases(c, t)
    BY <1>0, StopEases
  <2>. HIDE DEF t
  <2>7. Quiet' => Quiet
    BY <2>1, <2>2, <2>4 DEF Quiet
  <2>. QED  BY <1>0, <2>2, <2>3, <2>5, <2>6, <2>7 DEF Unstruck, Eases, Calm, Soothes
<1>7. ASSUME NEW j \in Jobs, Begin(j) PROVE Soothes
  <2>. DEFINE s == [c EXCEPT !.attached = FALSE]
              q == [s EXCEPT !.queue = Tail(@)]
              t == StopAssignment(s)
              p == runner[j].prompt
              ps == Owed(p, TRUE)
              first == StartPrompt(s, p, TRUE, FALSE)
              next == StartPrompt(q, Head(s.queue), TRUE, FALSE)
  <2>1. UNCHANGED <<used, cancelled>> /\ runner[j].pc = "beginning"
    BY <1>7 DEF Begin, runnerRest
  <2>2. \/ /\ c' = Requeue(t, ps)
           /\ j \in cancelled \/ \E us : Excuse("failure", us)
        \/ c' \in {s, first, next} /\ UNCHANGED excuse
    BY <1>7 DEF Begin
  <2>3. /\ Record(s) /\ s.stopped = c.stopped /\ s.closing = c.closing /\ s.asg = c.asg
        /\ s.running = c.running
    BY <1>0 DEF Record, Fields
  <2>. HIDE DEF s
  <2>4. Record(q) /\ q.stopped = s.stopped /\ q.closing = s.closing /\ q.asg = s.asg
    BY <2>3 DEF Record, Fields
  <2>5. Record(t) /\ t.closing = s.closing
    BY <2>3, StopCloses
  <2>. HIDE DEF q, p
  <2>6. Eases(s, first) /\ Eases(q, next)
    BY <2>3, <2>4, StartEases
  <2>7. ~s.running => Eases(s, t)
    BY <2>3, StopEases
  <2>. HIDE DEF t, ps, first, next
  <2>8. CASE /\ c' = Requeue(t, ps)
             /\ j \in cancelled \/ \E us : Excuse("failure", us)
    <3>1. c'.closing = t.closing /\ c'.stopped = t.stopped /\ c'.asg = t.asg
      BY <2>5, <2>8 DEF Requeue, Record, Fields
    <3>2. Quiet' => Quiet
      BY <2>1, <2>3, <2>5, <3>1 DEF Quiet
    <3>3. Quiet => ~c.running
      BY <2>1, PoisedAlone DEF Poised, Resting
    <3>4. Quiet => excuse'.stop = excuse.stop
      BY <1>0, <2>8, OtherReason DEF Quiet
    <3>. QED  BY <1>0, <2>3, <2>7, <3>1, <3>2, <3>3, <3>4 DEF Unstruck, Eases, Calm, Soothes
  <2>9. CASE c' \in {s, first, next} /\ UNCHANGED excuse
    <3>1. Eases(c, s) /\ Eases(s, q)
      BY <2>3, <2>4, SameEases
    <3>2. Eases(c, first)
      BY <2>6, <3>1, EasesTwice
    <3>3. Eases(c, q)
      BY <3>1, EasesTwice
    <3>4. Eases(c, next)
      BY <2>6, <3>3, EasesTwice
    <3>5. Eases(c, c')
      BY <2>9, <3>1, <3>2, <3>4
    <3>. QED  BY <1>0, <2>1, <2>9, <3>5, EasedSoothes
  <2>. QED  BY <2>2, <2>8, <2>9
<1>. QED  BY <1>1, <1>2, <1>3, <1>4, <1>5, <1>6, <1>7 DEF RunnerStep

LEMMA UnstruckNext ==
  ASSUME IsChild, MaxCompacts = 0, Resting, [Next]_vars
  PROVE  Unstruck'
<1>1. Record(c') /\ Record(c) /\ Unstruck
  BY NextGood DEF Resting, Seated, Good
<1>2. Soothes
  <2>1. CASE UNCHANGED vars
    BY <1>1, <2>1, KeptSoothes DEF vars
  <2>2. CASE UserStep
    <3>1. \A approved \in BOOLEAN : ~SetPlanApproved(approved)
      BY ChildAssumption DEF SetPlanApproved
    <3>2. ~Compact
      <4>1. ~(used.compacts < MaxCompacts)
        BY DEF Resting, Seated, Child, Unspent
      <4>. QED  BY <4>1 DEF Compact
    <3>. QED  BY <1>1, <2>2, <3>1, <3>2, UserSoothes
  <2>. QED  BY <1>1, <2>1, <2>2, BackgroundSoothes, TurnStepSoothes, RunnerSoothes DEF Next
<1>3. Calm(c)' = Calm(c')
  BY DEF Calm
<1>. QED  BY <1>1, <1>2, <1>3 DEF Soothes, Unstruck

\* A child may not give a prompt up without a reason.
LEMMA SeatedExcusing == Seated /\ Excused /\ IsChild => Excusing
BY DEF Excusing, Seated, Child, Lone, Working, Placed, Neat, Clean, Posted

\* FollowUpsPlaced: of what the user sends a retained sub-agent nothing is
\* delivered twice or waits in two places.  While neither Esc nor a cancelled job
\* strikes and the session is open, each of it has exactly one place, and what is
\* given up was answered by an error row or waited behind an assignment that
\* failed before its first turn (dropQueuedPromptsLocked, followup.go:55): the
\* prompt of that assignment itself is back in the queue (StartPrompt's comment,
\* controller.go:2438).
THEOREM FollowUpsStayPlaced == IsChild /\ MaxCompacts = 0 => (Spec => []FollowUpsPlaced)
<1>. SUFFICES ASSUME IsChild, MaxCompacts = 0 PROVE Spec => []FollowUpsPlaced
  OBVIOUS
<1>. DEFINE Inv == Seated /\ Excused /\ Unstruck
<1>1. Init => Inv
  <2>. SUFFICES ASSUME Init PROVE Inv
    OBVIOUS
  <2>1. Seated /\ Excused
    BY SeatedInit, ExcusedInit
  <2>2. Unstruck
    BY DEF Init, Unstruck, Calm, NewAssignment
  <2>. QED  BY <2>1, <2>2
<1>2. Inv /\ [Next]_vars => Inv'
  <2>. SUFFICES ASSUME Inv, [Next]_vars PROVE Inv'
    OBVIOUS
  <2>1. Seated'
    BY SeatedNext
  <2>2. Excusing
    BY SeatedExcusing
  <2>3. Excused'
    BY <2>2, ExcusedNext
  <2>4. Resting
    BY DEF Resting, Excused
  <2>5. Unstruck'
    BY <2>4, UnstruckNext
  <2>. QED  BY <2>1, <2>3, <2>5
<1>3. Inv => FollowUpsPlaced
  <2>. SUFFICES ASSUME Inv PROVE FollowUpsPlaced
    OBVIOUS
  <2>1. \A p \in ToSet(accepted) :
          Cardinality(Places(p)) <= 1 /\ (Quiet => Cardinality(Places(p)) = 1)
    BY SeatedPlaces
  <2>2. Quiet => /\ ended \subseteq excuse.error \cup excuse.stop \cup excuse.failure
                 /\ ended \subseteq excuse.error \cup excuse.failure
    BY DEF Excused, Given, Quiet, Unstruck
  <2>. QED  BY <2>1, <2>2 DEF FollowUpsPlaced, PromptsAccounted, Quiet
<1>. QED  BY <1>1, <1>2, <1>3, PTL DEF Spec

=============================================================================
