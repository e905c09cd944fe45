-------------------------- MODULE AutomationsProofs --------------------------
(***************************************************************************)
(* Proofs about the automation engine, for any flow, any texts, any number *)
(* of runs at once and any faults: one execution under way, one run at     *)
(* work on it, and silence after it is over.                               *)
(*                                                                         *)
(* The walk over the flow is never opened: whatever effects it finds and   *)
(* however it says the flow ends, the executions stay in step.             *)
(***************************************************************************)
EXTENDS Automations, FiniteSetTheorems, TLAPS

-----------------------------------------------------------------------------
(***************************************************************************)
(* The inductive invariant.  A property of two runs of one execution is    *)
(* about its jobs too: a job still to run is a run to come.                *)
(***************************************************************************)
\* A job of e that is still to run: delayed, or taken and not yet past its check.
Loose(j, e) ==
  /\ j.id[1] = e
  /\ \/ j.st = "delayed"
     \/ j.st = "active" /\ \A s \in Slot : task[s].job = j.id => task[s].pc = "check"

\* The fields of every record stay what they are.
Field == {"pc", "text", "off", "e", "work", "job"}
Shape ==
  /\ task = [s \in Slot |-> task[s]] /\ \A s \in Slot : DOMAIN task[s] = Field
  /\ exec = [e \in Exec |-> exec[e]] /\ \A e \in Exec : DOMAIN exec[e] = {"st", "node"}
  /\ seen = [e \in Exec |-> seen[e]]
  /\ \A j \in jobs : DOMAIN j = {"id", "st", "stalled", "work"} /\ j.id[1] \in Exec
  /\ adrift \subseteq Exec

\* A slot that runs a job has an active one of its own, of the execution it works on.
Attended ==
  /\ \A s \in Slot : task[s].job # NoJob => task[s].pc \in {"check", "dispatch", "park", "cancel", "done"}
  /\ \A s \in Slot : task[s].pc \in {"check", "done"} => task[s].job # NoJob
  /\ \A s \in Slot : task[s].pc \in Driving \cup {"check", "done"} => task[s].e \in Exec
  /\ \A s \in Slot : task[s].job # NoJob => \E j \in jobs : j.id = task[s].job /\ j.st = "active" /\ task[s].e = j.id[1]
  /\ \A s, o \in Slot : task[s].job # NoJob /\ task[s].job = task[o].job => s = o
  /\ \A j, k \in jobs : j.id = k.id => j = k
  /\ \A j \in jobs : j.id # NoJob

\* One incoming text is being answered.
OneAnswer == \A s, o \in Slot : Answering(s) /\ Answering(o) => s = o

\* An execution in step: one run at work on it, one job to come, and a status that
\* says which of the two it waits for.
InStep(e) ==
  /\ \A s, o \in Slot : Drives(s, e) /\ Drives(o, e) => s = o
  /\ \A j, k \in jobs : Loose(j, e) /\ Loose(k, e) => j = k
  /\ \A s \in Slot : Drives(s, e) =>
       /\ task[s].pc \in {"dispatch", "drop"} => \A j \in jobs : ~Loose(j, e)
       /\ \A j \in jobs : Loose(j, e) => j.st = "delayed"
       /\ task[s].job = NoJob => exec[e].st \in {"RUNNING", "WAITING_INPUT"}
       /\ task[s].job # NoJob => exec[e].st = "WAITING_TIMER"
  /\ exec[e].st \notin {"WAITING_TIMER", "CANCELLED"} /\ ~Parking(e) => \A j \in jobs : ~Loose(j, e)

\* A flow is begun only where none is under way.
OneFlow ==
  /\ \A e, f \in Exec \ adrift : exec[e].st \in Active /\ exec[f].st \in Active => e = f
  /\ \A s \in Slot : At(s, "create") => \A e \in Exec \ adrift : exec[e].st \notin Active

Calm == ~rushed => OneAnswer /\ OneFlow /\ \A e \in Exec \ adrift : InStep(e)
IInv == Shape /\ Attended /\ Calm

-----------------------------------------------------------------------------
(***************************************************************************)
(* What the actions do, slot by slot, execution by execution and job by    *)
(* job.                                                                    *)
(***************************************************************************)
Others(s) == \A o \in Slot : o # s => task'[o] = task[o]

TaskShape(t) == t = [s \in Slot |-> t[s]] /\ \A s \in Slot : DOMAIN t[s] = Field

LEMMA RestingSays ==
  Resting.pc = "idle" /\ Resting.job = NoJob /\ DOMAIN Resting = Field
  BY DEF Resting, Field

LEMMA Becomes ==
  ASSUME Shape, NEW s \in Slot, NEW new, DOMAIN new = Field, task' = [task EXCEPT ![s] = new]
  PROVE  task'[s] = new /\ Others(s) /\ TaskShape(task')
  BY DEF Shape, Others, TaskShape

LEMMA Goes ==
  ASSUME Shape, NEW s \in Slot, NEW pc, Goto(s, pc)
  PROVE  /\ task'[s].pc = pc /\ task'[s].e = task[s].e /\ task'[s].job = task[s].job
         /\ Others(s) /\ TaskShape(task')
  <1> DEFINE new == [task[s] EXCEPT !.pc = pc]
  <1>1. DOMAIN task[s] = Field
    BY DEF Shape
  <1>2. DOMAIN new = Field /\ new.pc = pc /\ new.e = task[s].e /\ new.job = task[s].job
    BY <1>1 DEF Field
  <1>3. task' = [task EXCEPT ![s] = new]
    BY DEF Goto, Shape
  <1> HIDE DEF new
  <1> QED
    BY <1>2, <1>3, Becomes

LEMMA Leaves ==
  ASSUME Shape, NEW s \in Slot, Leave(s)
  PROVE  task'[s].pc = "idle" /\ task'[s].job = NoJob /\ Others(s) /\ TaskShape(task')
  BY RestingSays, Becomes DEF Leave

\* A handler is gone; a job stays, done.
LEMMA Returns ==
  ASSUME Shape, NEW s \in Slot, Return(s)
  PROVE  /\ task[s].job = NoJob => task'[s].pc = "idle"
         /\ task[s].job # NoJob => task'[s].pc = "done" /\ task'[s].e = task[s].e
         /\ task'[s].job = task[s].job
         /\ Others(s) /\ TaskShape(task')
  <1>1. CASE task[s].job = NoJob
    BY <1>1, Leaves DEF Return
  <1>2. CASE task[s].job # NoJob
    BY <1>2, Goes DEF Return
  <1> QED
    BY <1>1, <1>2

ExecShape(x) == x = [e \in Exec |-> x[e]] /\ \A e \in Exec : DOMAIN x[e] = {"st", "node"}

LEMMA ExecBecomes ==
  ASSUME Shape, NEW e \in Exec, NEW st, exec' = [exec EXCEPT ![e].st = st]
  PROVE  exec'[e].st = st /\ (\A f \in Exec : f # e => exec'[f] = exec[f]) /\ ExecShape(exec')
  <1> DEFINE new == [exec[e] EXCEPT !.st = st]
  <1>1. DOMAIN exec[e] = {"st", "node"}
    BY DEF Shape
  <1>2. DOMAIN new = {"st", "node"} /\ new.st = st
    BY <1>1
  <1>3. exec' = [exec EXCEPT ![e] = new]
    BY DEF Shape
  <1> HIDE DEF new
  <1> QED
    BY <1>2, <1>3 DEF Shape, ExecShape

\* What is left alone by a step that only moves the handler s.
Alone(s) ==
  /\ Others(s) /\ TaskShape(task')
  /\ UNCHANGED <<exec, jobs, seen, adrift>>

\* A handler on its way to a flow, or gone without one.
LEMMA QuietDoes ==
  ASSUME Shape, NEW s \in Slot, NEW t,
         Arrive(s, t) \/ Store(s) \/ ReadLast(s) \/ HookFails(s)
  PROVE  /\ task[s].pc \in {"idle", "store", "read", "active", "create"}
         /\ task'[s].pc \in {"idle", "store", "read", "active"} /\ task'[s].job \in {task[s].job, NoJob}
         /\ Alone(s) /\ rushed' = rushed
  <1>f. DOMAIN task[s] = Field
    BY DEF Shape
  <1>1. CASE Arrive(s, t)
    <2> DEFINE new == [task[s] EXCEPT !.pc = "store", !.text = t, !.off = off]
    <2>1. DOMAIN new = Field /\ new.pc = "store" /\ new.job = task[s].job
      BY <1>f DEF Field
    <2>2. task' = [task EXCEPT ![s] = new]
      BY <1>1 DEF Arrive, Shape
    <2> HIDE DEF new
    <2> QED
      BY <1>1, <2>1, <2>2, Becomes DEF Arrive, At, Alone
  <1>2. CASE Store(s)
    <2>1. CASE task[s].off
      BY <1>2, <2>1, Leaves DEF Store, At, Alone, Idle
    <2>2. CASE ~task[s].off
      BY <1>2, <2>2, Goes DEF Store, At, Alone, Idle
    <2> QED
      BY <2>1, <2>2
  <1>3. CASE ReadLast(s)
    <2> DEFINE new == [task[s] EXCEPT !.pc = "active", !.text = last]
    <2>1. DOMAIN new = Field /\ new.pc = "active" /\ new.job = task[s].job
      BY <1>f DEF Field
    <2>2. task' = [task EXCEPT ![s] = new]
      BY <1>3 DEF ReadLast, Shape
    <2> HIDE DEF new
    <2> QED
      BY <1>3, <2>1, <2>2, Becomes DEF ReadLast, At, Alone, Idle
  <1>4. CASE HookFails(s)
    BY <1>4, Leaves DEF HookFails, Fault, Alone
  <1> QED
    BY <1>1, <1>2, <1>3, <1>4

\* The look at the executions: a flow begins, one is answered, or neither.
LEMMA LookDoes ==
  ASSUME Shape, NEW s \in Slot, LookAtExecutions(s)
  PROVE  /\ At(s, "active") /\ Alone(s)
         /\ ~rushed' => ~rushed /\ \A o \in Slot \ {s} : ~Answering(o)
         /\ \/ /\ \A e \in Exec : exec[e].st \notin Active
               /\ task'[s].pc = "create" /\ task'[s].job = task[s].job
            \/ /\ \E e \in Exec : exec[e].st = "WAITING_INPUT" /\ task'[s].e = e
               /\ task'[s].pc \in {"drop", "dispatch"} /\ task'[s].job = task[s].job
            \/ task'[s].pc = "idle" /\ task'[s].job = NoJob
  <1>f. DOMAIN task[s] = Field
    BY DEF Shape
  <1>1. CASE Leave(s)
    BY <1>1, Leaves DEF LookAtExecutions, Alone
  <1>2. CASE Found = {} /\ Goto(s, "create")
    BY <1>2, Goes DEF LookAtExecutions, Alone, Found
  <1>3. ASSUME NEW e \in Found, TakesAnswer(e), Answer(s, e)
        PROVE  /\ task'[s].pc \in {"drop", "dispatch"} /\ task'[s].e = e /\ task'[s].job = task[s].job
               /\ Others(s) /\ TaskShape(task')
    <2> DEFINE r == ResumeFlow(exec[e].node, task[s].text)
               new == [task[s] EXCEPT !.e = e, !.work = r, !.pc = IF r.effects = <<>> THEN "drop" ELSE "dispatch"]
    <2> HIDE DEF r
    <2>1. DOMAIN new = Field /\ new.pc \in {"drop", "dispatch"} /\ new.job = task[s].job /\ new.e = e
      BY <1>f DEF Field
    <2>2. task' = [task EXCEPT ![s] = new]
      BY <1>3 DEF Answer, Shape, r
    <2> HIDE DEF new
    <2> QED
      BY <2>1, <2>2, Becomes
  <1>4. \/ Leave(s) \/ (Found = {} /\ Goto(s, "create"))
        \/ \E e \in Found : TakesAnswer(e) /\ Answer(s, e)
    BY DEF LookAtExecutions
  <1>5. CASE \E e \in Found : TakesAnswer(e) /\ Answer(s, e)
    BY <1>3, <1>5 DEF LookAtExecutions, Alone, Found, TakesAnswer
  <1>6. ~rushed' => ~rushed /\ \A o \in Slot \ {s} : ~Answering(o)
    <2>1. rushed' = (rushed \/ \E o \in Slot \ {s} : Answering(o))
      BY DEF LookAtExecutions
    <2> QED
      BY <2>1, Zenon
  <1>7. At(s, "active") /\ Alone(s)
    BY <1>1, <1>2, <1>4, <1>5 DEF LookAtExecutions
  <1> QED
    BY <1>1, <1>2, <1>4, <1>5, <1>6, <1>7

LEMMA CreateDoes ==
  ASSUME Shape, NEW s \in Slot, Create(s)
  PROVE  /\ At(s, "create") /\ task'[s].pc = "dispatch" /\ task'[s].job = task[s].job /\ task'[s].e \in Exec
         /\ exec[task'[s].e].st = "none" /\ exec'[task'[s].e].st = "RUNNING"
         /\ \A f \in Exec : f # task'[s].e => exec'[f] = exec[f]
         /\ Others(s) /\ TaskShape(task') /\ ExecShape(exec') /\ UNCHANGED <<jobs, seen, adrift, rushed>>
  <1>f. DOMAIN task[s] = Field
    BY DEF Shape
  <1>1. PICK e \in Exec : /\ exec[e].st = "none"
                          /\ exec' = [exec EXCEPT ![e].st = "RUNNING"]
                          /\ task' = [task EXCEPT ![s].pc = "dispatch", ![s].e = e, ![s].work = RunFlow]
    BY DEF Create
  <1> DEFINE new == [task[s] EXCEPT !.pc = "dispatch", !.e = e, !.work = RunFlow]
  <1>2. DOMAIN new = Field /\ new.pc = "dispatch" /\ new.job = task[s].job /\ new.e = e
    BY <1>f DEF Field
  <1>3. task' = [task EXCEPT ![s] = new]
    BY <1>1 DEF Shape
  <1> HIDE DEF new
  <1>4. task'[s] = new /\ Others(s) /\ TaskShape(task')
    BY <1>2, <1>3, Becomes
  <1>5. exec'[e].st = "RUNNING" /\ (\A f \in Exec : f # e => exec'[f] = exec[f]) /\ ExecShape(exec')
    BY <1>1, ExecBecomes
  <1> QED
    BY <1>1, <1>2, <1>4, <1>5 DEF Create, Idle

LEMMA SendEffectDoes ==
  ASSUME Shape, NEW s \in Slot, SendEffect(s)
  PROVE  /\ At(s, "dispatch") /\ task'[s].pc = "dispatch"
         /\ task'[s].e = task[s].e /\ task'[s].job = task[s].job
         /\ Others(s) /\ TaskShape(task') /\ UNCHANGED <<exec, jobs, adrift, rushed>>
         /\ \A f \in Exec : f # task[s].e => seen'[f] = seen[f]
         /\ seen' = [f \in Exec |-> seen'[f]]
  <1>f. DOMAIN task[s] = Field
    BY DEF Shape
  <1> DEFINE new == [task[s] EXCEPT !.work = [task[s].work EXCEPT !.effects = Tail(task[s].work.effects)]]
  <1>1. DOMAIN new = Field /\ new.pc = task[s].pc /\ new.job = task[s].job /\ new.e = task[s].e
    BY <1>f DEF Field
  <1>2. task' = [task EXCEPT ![s] = new]
    <2>1. task' = [task EXCEPT ![s].work.effects = Tail(@)] /\ task = [o \in Slot |-> task[o]]
      BY DEF SendEffect, Shape
    <2> QED
      BY <2>1
  <1> HIDE DEF new
  <1>3. task'[s] = new /\ Others(s) /\ TaskShape(task')
    BY <1>1, <1>2, Becomes
  <1>4. (\A f \in Exec : f # task[s].e => seen'[f] = seen[f]) /\ seen' = [f \in Exec |-> seen'[f]]
    BY DEF SendEffect, Shape
  <1> QED
    BY <1>1, <1>3, <1>4 DEF SendEffect, Idle, At

LEMMA SendFailsDoes ==
  ASSUME Shape, NEW s \in Slot, SendFails(s)
  PROVE  /\ task[s].pc \in {"dispatch", "park"} /\ task'[s].pc = "cancel"
         /\ task'[s].e = task[s].e /\ task'[s].job = task[s].job
         /\ Alone(s) /\ rushed' = rushed
  BY Goes DEF SendFails, Fault, Alone

\* What closes or parks an execution leaves every other one alone.
LEMMA CloseDoes ==
  ASSUME Shape, NEW s \in Slot, task[s].e \in Exec, Cancel(s) \/ Park(s) \/ Finish(s)
  PROVE  /\ Cancel(s) => At(s, "cancel") /\ exec'[task[s].e].st = "CANCELLED"
         /\ Park(s) => At(s, "park") /\ exec'[task[s].e].st = "WAITING_TIMER"
         /\ Finish(s) => At(s, "dispatch")
         /\ \A f \in Exec : f # task[s].e => exec'[f] = exec[f]
         /\ Return(s) /\ ExecShape(exec') /\ UNCHANGED <<jobs, seen, adrift, rushed>>
  <1>1. CASE Cancel(s)
    BY <1>1, ExecBecomes DEF Cancel, Idle, At, Finish, Park
  <1>2. CASE Park(s)
    BY <1>2, ExecBecomes DEF Park, Idle, At, Cancel, Finish
  <1>3. CASE Finish(s)
    <2> DEFINE new == [st |-> task[s].work.ends, node |-> task[s].work.menu]
    <2>1. exec' = [exec EXCEPT ![task[s].e] = new]
      BY <1>3 DEF Finish
    <2>2. DOMAIN new = {"st", "node"}
      OBVIOUS
    <2> HIDE DEF new
    <2>3. (\A f \in Exec : f # task[s].e => exec'[f] = exec[f]) /\ ExecShape(exec')
      BY <2>1, <2>2 DEF Shape, ExecShape
    <2> QED
      BY <1>3, <2>3 DEF Finish, Idle, At, Cancel, Park
  <1> QED
    BY <1>1, <1>2, <1>3

LEMMA DropDoes ==
  ASSUME Shape, NEW s \in Slot, task[s].e \in Exec, Drop(s)
  PROVE  /\ At(s, "drop") /\ exec'[task[s].e].st = "CANCELLED"
         /\ \A f \in Exec : f # task[s].e => exec'[f] = exec[f]
         /\ task'[s].pc = "idle" /\ task'[s].job = NoJob /\ Others(s) /\ TaskShape(task')
         /\ ExecShape(exec') /\ UNCHANGED <<jobs, seen, adrift, rushed>>
  BY ExecBecomes, Leaves DEF Drop, Idle

LEMMA CloseFailsDoes ==
  ASSUME Shape, NEW s \in Slot, CloseFails(s)
  PROVE  /\ task[s].pc \in {"drop", "cancel"} /\ Return(s)
         /\ adrift' = adrift \cup {task[s].e} /\ UNCHANGED <<exec, jobs, seen, rushed>>
  BY DEF CloseFails, Fault

\* The job that continues: a new one, unless its id is taken.
LEMMA ScheduleDoes ==
  ASSUME Shape, NEW s \in Slot, task[s].e \in Exec, Schedule(s)
  PROVE  /\ At(s, "dispatch") /\ task'[s].pc = "park"
         /\ task'[s].e = task[s].e /\ task'[s].job = task[s].job
         /\ Others(s) /\ TaskShape(task') /\ UNCHANGED <<exec, seen, adrift, rushed>>
         /\ \/ jobs' = jobs
            \/ \E j : /\ jobs' = jobs \cup {j} /\ DOMAIN j = {"id", "st", "stalled", "work"}
                      /\ j.id = <<task[s].e, Next1(s).at>> /\ j.id[1] = task[s].e /\ j.st = "delayed"
                      /\ \A k \in jobs : k.id # j.id
  <1>1. CASE \E j \in jobs : j.id = <<task[s].e, Next1(s).at>>
    BY <1>1, Goes DEF Schedule, Add, Idle, At
  <1>2. CASE ~ \E j \in jobs : j.id = <<task[s].e, Next1(s).at>>
    <2> DEFINE j == [id |-> <<task[s].e, Next1(s).at>>, st |-> "delayed", stalled |-> 0, work |-> task[s].work]
    <2>1. jobs' = jobs \cup {j}
      BY <1>2 DEF Schedule, Add
    <2>2. /\ DOMAIN j = {"id", "st", "stalled", "work"} /\ j.st = "delayed"
          /\ j.id = <<task[s].e, Next1(s).at>> /\ j.id[1] = task[s].e
      OBVIOUS
    <2>3. \A k \in jobs : k.id # j.id
      BY <1>2, <2>2
    <2> HIDE DEF j
    <2> QED
      BY <2>1, <2>2, <2>3, Goes DEF Schedule, Idle, At
  <1> QED
    BY <1>1, <1>2

\* A delayed job is taken by a slot.
LEMMA StartDoes ==
  ASSUME Shape, NEW s \in Slot, NEW j \in jobs, Start(s, j)
  PROVE  /\ At(s, "idle") /\ j.st = "delayed"
         /\ task'[s].pc = "check" /\ task'[s].e = j.id[1] /\ task'[s].job = j.id
         /\ Others(s) /\ TaskShape(task')
         /\ \E k : /\ jobs' = (jobs \ {j}) \cup {k} /\ DOMAIN k = {"id", "st", "stalled", "work"}
                   /\ k.id = j.id /\ k.st = "active"
  <1>1. DOMAIN task[s] = Field /\ DOMAIN j = {"id", "st", "stalled", "work"}
    BY DEF Shape
  <1> DEFINE new == [task[s] EXCEPT !.pc = "check", !.e = j.id[1], !.work = j.work, !.job = j.id]
             k == [j EXCEPT !.st = "active"]
  <1>2. DOMAIN new = Field /\ new.pc = "check" /\ new.job = j.id /\ new.e = j.id[1]
    BY <1>1 DEF Field
  <1>3. task' = [task EXCEPT ![s] = new]
    BY DEF Start, Shape
  <1>4. DOMAIN k = {"id", "st", "stalled", "work"} /\ k.id = j.id /\ k.st = "active"
    BY <1>1
  <1>5. jobs' = (jobs \ {j}) \cup {k}
    BY DEF Start
  <1> HIDE DEF new, k
  <1>6. task'[s] = new /\ Others(s) /\ TaskShape(task')
    BY <1>2, <1>3, Becomes
  <1> QED
    BY <1>2, <1>4, <1>5, <1>6 DEF Start

LEMMA CheckDoes ==
  ASSUME Shape, NEW s \in Slot, Check(s)
  PROVE  /\ At(s, "check") /\ task'[s].e = task[s].e /\ task'[s].job = task[s].job
         /\ task'[s].pc = IF exec[task[s].e].st = "WAITING_TIMER" THEN "dispatch" ELSE "done"
         /\ Alone(s) /\ rushed' = rushed
  <1>f. DOMAIN task[s] = Field
    BY DEF Shape
  <1>1. CASE exec[task[s].e].st = "WAITING_TIMER"
    <2> DEFINE due == Due(task[s].work)
               new == [task[s] EXCEPT !.pc = "dispatch", !.work = due]
    <2> HIDE DEF due
    <2>1. DOMAIN new = Field /\ new.pc = "dispatch" /\ new.job = task[s].job /\ new.e = task[s].e
      BY <1>f DEF Field
    <2>2. task' = [task EXCEPT ![s] = new]
      BY <1>1, <1>f DEF Check, Shape, due, Field
    <2> HIDE DEF new
    <2> QED
      BY <1>1, <2>1, <2>2, Becomes DEF Check, Alone, Idle
  <1>2. CASE exec[task[s].e].st # "WAITING_TIMER"
    BY <1>2, Goes DEF Check, Alone, Idle
  <1> QED
    BY <1>1, <1>2

\* A job ends, and its slot is free.
LEMMA JobEndsDoes ==
  ASSUME Shape, NEW s \in Slot, CheckFails(s) \/ Complete(s)
  PROVE  /\ task[s].pc \in {"check", "done"} /\ (At(s, "check") => adrift' = adrift \cup {task[s].e})
         /\ (At(s, "done") => adrift' = adrift)
         /\ task'[s].pc = "idle" /\ task'[s].job = NoJob /\ Others(s) /\ TaskShape(task')
         /\ \E st \in {"failed", "completed"} : SetJob(task[s].job, st)
         /\ UNCHANGED <<exec, seen, rushed>>
  BY Leaves DEF CheckFails, Complete, Fault, Idle, At

LEMMA SetJobDoes ==
  ASSUME Shape, NEW id, NEW st, SetJob(id, st)
  PROVE  /\ \A j \in jobs' : /\ DOMAIN j = {"id", "st", "stalled", "work"} /\ j.id[1] \in Exec
                             /\ \/ j \in jobs /\ j.id # id
                                \/ j.id = id /\ j.st = st /\ \E k \in jobs : k.id = id
         /\ \A j \in jobs : j.id # id => j \in jobs'
         /\ Attended => \A j, k \in jobs' : j.id = k.id => j = k
  <1> DEFINE f(j) == IF j.id = id THEN [j EXCEPT !.st = st] ELSE j
  <1>1. jobs' = {f(j) : j \in jobs}
    BY DEF SetJob
  <1>2. ASSUME NEW j \in jobs
        PROVE  /\ DOMAIN f(j) = {"id", "st", "stalled", "work"} /\ f(j).id = j.id
               /\ j.id # id => f(j) = j
               /\ j.id = id => f(j).st = st
    BY DEF Shape
  <1>3. \A j \in jobs : j.id[1] \in Exec
    BY DEF Shape
  <1> HIDE DEF f
  <1> QED
    BY <1>1, <1>2, <1>3 DEF Attended

LEMMA CrashDoes ==
  ASSUME Shape, Crash
  PROVE  /\ \A s \in Slot : task'[s].pc = "idle" /\ task'[s].job = NoJob
         /\ TaskShape(task') /\ UNCHANGED <<exec, jobs, seen, rushed>>
         /\ \A s \in Slot : task[s].pc \in {"park", "cancel", "done"} => task[s].e \in adrift'
         /\ adrift \subseteq adrift'
         /\ \A e \in adrift' : e \in adrift \/ \E s \in Slot : e = task[s].e /\ task[s].pc \in {"park", "cancel", "done"}
  <1>1. \A s \in Slot : task'[s] = Resting
    BY DEF Crash
  <1>2. TaskShape(task')
    BY RestingSays DEF Crash, TaskShape
  <1>3. adrift' = adrift \cup {task[s].e : s \in {x \in Slot : task[x].pc \in {"park", "cancel", "done"}}}
    BY DEF Crash
  <1> QED
    BY <1>1, <1>2, <1>3, RestingSays DEF Crash, Fault

LEMMA StalledDoes ==
  ASSUME Shape, NEW j \in jobs, Stalled(j)
  PROVE  /\ j.st = "active" /\ \A s \in Slot : task[s].job # j.id
         /\ UNCHANGED <<task, exec, seen, rushed>>
         /\ \E k : /\ jobs' = (jobs \ {j}) \cup {k} /\ DOMAIN k = {"id", "st", "stalled", "work"}
                   /\ k.id = j.id /\ k.st \in {"delayed", "failed"}
         /\ adrift' \in {adrift, adrift \cup {j.id[1]}}
  <1>1. DOMAIN j = {"id", "st", "stalled", "work"}
    BY DEF Shape
  <1> DEFINE k == IF j.stalled = 0 THEN [j EXCEPT !.st = "delayed", !.stalled = 1] ELSE [j EXCEPT !.st = "failed"]
  <1>2. DOMAIN k = {"id", "st", "stalled", "work"} /\ k.id = j.id /\ k.st \in {"delayed", "failed"}
    BY <1>1
  <1>3. jobs' = (jobs \ {j}) \cup {k}
    BY DEF Stalled
  <1> HIDE DEF k
  <1> QED
    BY <1>2, <1>3 DEF Stalled

\* Whoever sends, parks or closes has an execution.
LEMMA HasExecution ==
  ASSUME Attended, NEW s \in Slot,
         Cancel(s) \/ Park(s) \/ Finish(s) \/ Drop(s) \/ Schedule(s) \/ CloseFails(s) \/ Check(s)
  PROVE  task[s].e \in Exec
  BY DEF Attended, Driving, Cancel, Park, Finish, Drop, Schedule, CloseFails, Check, At

-----------------------------------------------------------------------------
(***************************************************************************)
(* Each conjunct of the invariant, kept by every step: one case per action. *)
(***************************************************************************)
LEMMA ShapeStep ==
  ASSUME Shape, Attended, [Next]_vars
  PROVE  Shape'
  <1>1. ASSUME NEW s \in Slot, NEW t, Arrive(s, t) \/ Store(s) \/ ReadLast(s) \/ HookFails(s)
        PROVE  Shape'
    BY SMTT(30), <1>1, QuietDoes DEF Shape, TaskShape, ExecShape, Alone, Attended, Driving, At
  <1>2. ASSUME NEW s \in Slot, LookAtExecutions(s)
        PROVE  Shape'
    BY <1>2, LookDoes DEF Shape, TaskShape, ExecShape, Alone, Attended, Driving, At
  <1>3. ASSUME NEW s \in Slot, Create(s)
        PROVE  Shape'
    BY <1>3, CreateDoes DEF Shape, TaskShape, ExecShape, Alone, Attended, Driving, At
  <1>4. ASSUME NEW s \in Slot, SendEffect(s)
        PROVE  Shape'
    BY <1>4, SendEffectDoes DEF Shape, TaskShape, ExecShape, Alone, Attended, Driving, At
  <1>5. ASSUME NEW s \in Slot, SendFails(s)
        PROVE  Shape'
    BY <1>5, SendFailsDoes DEF Shape, TaskShape, ExecShape, Alone, Attended, Driving, At
  <1>6. ASSUME NEW s \in Slot, Cancel(s) \/ Park(s) \/ Finish(s)
        PROVE  Shape'
    BY <1>6, HasExecution, CloseDoes, Returns
    DEF Shape, TaskShape, ExecShape, Alone, Attended, Driving, At
  <1>7. ASSUME NEW s \in Slot, Drop(s)
        PROVE  Shape'
    BY <1>7, HasExecution, DropDoes DEF Shape, TaskShape, ExecShape, Alone, Attended, Driving, At
  <1>8. ASSUME NEW s \in Slot, CloseFails(s)
        PROVE  Shape'
    BY <1>8, HasExecution, CloseFailsDoes, Returns
    DEF Shape, TaskShape, ExecShape, Alone, Attended, Driving, At
  <1>9. ASSUME NEW s \in Slot, Schedule(s)
        PROVE  Shape'
    BY <1>9, HasExecution, ScheduleDoes DEF Shape, TaskShape, ExecShape, Alone, Attended, Driving, At
  <1>10. ASSUME NEW s \in Slot, NEW j \in jobs, Fire(s, j) \/ FireEarly(s, j)
        PROVE  Shape'
    BY <1>10, StartDoes
    DEF Fire, FireEarly, Fault, Idle, Shape, TaskShape, ExecShape, Alone, Attended, Driving, At
  <1>11. ASSUME NEW s \in Slot, Check(s)
        PROVE  Shape'
    BY <1>11, CheckDoes DEF Shape, TaskShape, ExecShape, Alone, Attended, Driving, At
  <1>12. ASSUME NEW s \in Slot, CheckFails(s) \/ Complete(s)
        PROVE  Shape'
    BY <1>12, JobEndsDoes, SetJobDoes DEF Shape, TaskShape, ExecShape, Alone, Attended, Driving, At
  <1>13. CASE Crash
    BY <1>13, CrashDoes DEF Shape, TaskShape, ExecShape, Alone, Attended, Driving, At
  <1>14. ASSUME NEW j \in jobs, Stalled(j)
        PROVE  Shape'
    BY <1>14, StalledDoes DEF Shape, TaskShape, ExecShape, Alone, Attended, Driving, At
  <1>15. CASE OffEnds \/ UNCHANGED vars
    BY <1>15 DEF OffEnds, Idle, vars, Shape, TaskShape, ExecShape, Alone, Attended, Driving, At
  <1> QED
    BY <1>1, <1>2, <1>3, <1>4, <1>5, <1>6, <1>7, <1>8, <1>9, <1>10, <1>11, <1>12, <1>13, <1>14, <1>15
    DEF Next, Work, Due1, Repair

LEMMA AttendedStep ==
  ASSUME Shape, Shape', Attended, [Next]_vars
  PROVE  Attended'
  <1>1. ASSUME NEW s \in Slot, NEW t, Arrive(s, t) \/ Store(s) \/ ReadLast(s) \/ HookFails(s)
        PROVE  Attended'
    BY <1>1, QuietDoes DEF Attended, Alone, Others, Driving, At
  <1>2. ASSUME NEW s \in Slot, LookAtExecutions(s)
        PROVE  Attended'
    BY <1>2, LookDoes DEF Attended, Alone, Others, Driving, At
  <1>3. ASSUME NEW s \in Slot, Create(s)
        PROVE  Attended'
    BY <1>3, CreateDoes DEF Attended, Alone, Others, Driving, At
  <1>4. ASSUME NEW s \in Slot, SendEffect(s)
        PROVE  Attended'
    BY <1>4, SendEffectDoes DEF Attended, Alone, Others, Driving, At
  <1>5. ASSUME NEW s \in Slot, SendFails(s)
        PROVE  Attended'
    BY <1>5, SendFailsDoes DEF Attended, Alone, Others, Driving, At
  <1>6. ASSUME NEW s \in Slot, Cancel(s) \/ Park(s) \/ Finish(s)
        PROVE  Attended'
    BY <1>6, HasExecution, CloseDoes, Returns DEF Attended, Alone, Others, Driving, At
  <1>7. ASSUME NEW s \in Slot, Drop(s)
        PROVE  Attended'
    BY <1>7, HasExecution, DropDoes DEF Attended, Alone, Others, Driving, At
  <1>8. ASSUME NEW s \in Slot, CloseFails(s)
        PROVE  Attended'
    BY <1>8, HasExecution, CloseFailsDoes, Returns DEF Attended, Alone, Others, Driving, At
  <1>9. ASSUME NEW s \in Slot, Schedule(s)
        PROVE  Attended'
    <2>1. task[s].job = task'[s].job /\ task'[s].pc = "park" /\ task'[s].e = task[s].e /\ task[s].e \in Exec
          /\ Others(s) /\ At(s, "dispatch")
      BY <1>9, HasExecution, ScheduleDoes
    <2>2. CASE jobs' = jobs
      BY <2>1, <2>2 DEF Attended, Others, Driving, At
    <2>3. ASSUME NEW j, jobs' = jobs \cup {j}, j.id = <<task[s].e, Next1(s).at>>, \A k \in jobs : k.id # j.id
          PROVE  Attended'
      <3>1. j.id # NoJob
        BY <2>3 DEF NoJob
      <3>2. \A o \in Slot : task[o].job # NoJob =>
              \E i \in jobs' : i.id = task[o].job /\ i.st = "active" /\ task[o].e = i.id[1]
        BY <2>3 DEF Attended
      <3>3. /\ \A i, h \in jobs' : i.id = h.id => i = h
            /\ \A i \in jobs' : i.id # NoJob
        BY <2>3, <3>1 DEF Attended
      <3>4. \A o \in Slot : task'[o].job = task[o].job /\ task'[o].e = task[o].e
        BY <2>1 DEF Others
      <3> QED
        BY <2>1, <3>2, <3>3, <3>4 DEF Attended, Others, Driving, At
    <2> QED
      BY <1>9, <2>2, <2>3, HasExecution, ScheduleDoes
  <1>10. ASSUME NEW s \in Slot, NEW j \in jobs, Fire(s, j) \/ FireEarly(s, j)
        PROVE  Attended'
    <2>1. /\ At(s, "idle") /\ j.st = "delayed" /\ j.id[1] \in Exec
          /\ task'[s].pc = "check" /\ task'[s].e = j.id[1] /\ task'[s].job = j.id
          /\ Others(s)
      BY <1>10, StartDoes DEF Fire, FireEarly, Shape
    <2>2. PICK k : jobs' = (jobs \ {j}) \cup {k} /\ k.id = j.id /\ k.st = "active"
      BY <1>10, StartDoes DEF Fire, FireEarly
    <2>3. \A o \in Slot : task[o].job # j.id
      BY <2>1 DEF Attended
    <2>4. \A o \in Slot : o # s /\ task[o].job # NoJob =>
            \E i \in jobs' : i.id = task[o].job /\ i.st = "active" /\ task[o].e = i.id[1]
      BY <2>1, <2>2 DEF Attended
    <2>5. /\ \A i, h \in jobs' : i.id = h.id => i = h
          /\ \A i \in jobs' : i.id # NoJob
      BY <2>2 DEF Attended
    <2> QED
      BY <2>1, <2>2, <2>3, <2>4, <2>5 DEF Attended, Others, Driving, At
  <1>11. ASSUME NEW s \in Slot, Check(s)
        PROVE  Attended'
    BY <1>11, CheckDoes DEF Attended, Alone, Others, Driving, At
  <1>12. ASSUME NEW s \in Slot, CheckFails(s) \/ Complete(s)
        PROVE  Attended'
    BY <1>12, JobEndsDoes, SetJobDoes DEF Attended, Alone, Others, Driving, At
  <1>13. CASE Crash
    BY <1>13, CrashDoes DEF Attended, Alone, Others, Driving, At
  <1>14. ASSUME NEW j \in jobs, Stalled(j)
        PROVE  Attended'
    BY <1>14, StalledDoes DEF Attended, Alone, Others, Driving, At
  <1>15. CASE OffEnds \/ UNCHANGED vars
    BY <1>15 DEF OffEnds, Idle, vars, Attended, Alone, Others, Driving, At
  <1> QED
    BY <1>1, <1>2, <1>3, <1>4, <1>5, <1>6, <1>7, <1>8, <1>9, <1>10, <1>11, <1>12, <1>13, <1>14, <1>15
    DEF Next, Work, Due1, Repair

\* A step that takes no job and passes no check leaves the same jobs to run.
LEMMA LooseKept ==
  ASSUME NEW e, NEW s \in Slot, Others(s), jobs' = jobs, task'[s].job = task[s].job,
         task[s].pc = "check" <=> task'[s].pc = "check"
  PROVE  \A j : Loose(j, e)' <=> Loose(j, e)
  BY DEF Loose, Others

LEMMA RushedStays ==
  ASSUME [Next]_vars, ~rushed'
  PROVE  ~rushed
  <1>1. CASE rushed' = rushed
    BY <1>1
  <1>2. ASSUME NEW s \in Slot, LookAtExecutions(s)
        PROVE  ~rushed
    <2>1. rushed' = (rushed \/ \E o \in Slot \ {s} : Answering(o))
      BY <1>2 DEF LookAtExecutions
    <2> QED
      BY <2>1, Zenon
  <1> QED
    BY <1>1, <1>2
    DEF Next, Work, Due1, Repair, vars, Idle, Store, ReadLast, Drop, Create, SendEffect, Cancel,
        Schedule, Park, Finish, Check, Complete, Fire, Arrive, SendFails, CloseFails, CheckFails,
        HookFails, FireEarly, Stalled, OffEnds, Crash

LEMMA AdriftGrows ==
  ASSUME [Next]_vars
  PROVE  adrift \subseteq adrift'
  BY
  DEF Next, Work, Due1, Repair, vars, Idle, Store, ReadLast, LookAtExecutions, Drop, Create, SendEffect,
      Cancel, Schedule, Park, Finish, Check, Complete, Fire, Arrive, SendFails, CloseFails, CheckFails,
      HookFails, FireEarly, Stalled, OffEnds, Crash

LEMMA AnswerStep ==
  ASSUME Shape, Attended, OneAnswer, ~rushed', [Next]_vars
  PROVE  OneAnswer'
  <1>1. ASSUME NEW s \in Slot, NEW t, Arrive(s, t) \/ Store(s) \/ ReadLast(s) \/ HookFails(s)
        PROVE  OneAnswer'
    BY <1>1, QuietDoes DEF OneAnswer, Answering, Attended, Alone, Others, Driving, At
  <1>2. ASSUME NEW s \in Slot, LookAtExecutions(s)
        PROVE  OneAnswer'
    BY <1>2, LookDoes DEF OneAnswer, Answering, Attended, Alone, Others, Driving, At
  <1>3. ASSUME NEW s \in Slot, Create(s)
        PROVE  OneAnswer'
    BY <1>3, CreateDoes DEF OneAnswer, Answering, Attended, Alone, Others, Driving, At
  <1>4. ASSUME NEW s \in Slot, SendEffect(s)
        PROVE  OneAnswer'
    BY <1>4, SendEffectDoes DEF OneAnswer, Answering, Attended, Alone, Others, Driving, At
  <1>5. ASSUME NEW s \in Slot, SendFails(s)
        PROVE  OneAnswer'
    BY <1>5, SendFailsDoes DEF OneAnswer, Answering, Attended, Alone, Others, Driving, At
  <1>6. ASSUME NEW s \in Slot, Cancel(s) \/ Park(s) \/ Finish(s)
        PROVE  OneAnswer'
    BY <1>6, HasExecution, CloseDoes, Returns
    DEF OneAnswer, Answering, Attended, Alone, Others, Driving, At
  <1>7. ASSUME NEW s \in Slot, Drop(s)
        PROVE  OneAnswer'
    BY <1>7, HasExecution, DropDoes DEF OneAnswer, Answering, Attended, Alone, Others, Driving, At
  <1>8. ASSUME NEW s \in Slot, CloseFails(s)
        PROVE  OneAnswer'
    BY <1>8, HasExecution, CloseFailsDoes, Returns
    DEF OneAnswer, Answering, Attended, Alone, Others, Driving, At
  <1>9. ASSUME NEW s \in Slot, Schedule(s)
        PROVE  OneAnswer'
    BY <1>9, HasExecution, ScheduleDoes DEF OneAnswer, Answering, Attended, Alone, Others, Driving, At
  <1>10. ASSUME NEW s \in Slot, NEW j \in jobs, Fire(s, j) \/ FireEarly(s, j)
        PROVE  OneAnswer'
    BY <1>10, StartDoes
    DEF Fire, FireEarly, Fault, Idle, OneAnswer, Answering, Attended, Alone, Others, Driving, At
  <1>11. ASSUME NEW s \in Slot, Check(s)
        PROVE  OneAnswer'
    BY <1>11, CheckDoes DEF OneAnswer, Answering, Attended, Alone, Others, Driving, At
  <1>12. ASSUME NEW s \in Slot, CheckFails(s) \/ Complete(s)
        PROVE  OneAnswer'
    BY <1>12, JobEndsDoes, SetJobDoes DEF OneAnswer, Answering, Attended, Alone, Others, Driving, At
  <1>13. CASE Crash
    BY <1>13, CrashDoes DEF OneAnswer, Answering, Attended, Alone, Others, Driving, At
  <1>14. ASSUME NEW j \in jobs, Stalled(j)
        PROVE  OneAnswer'
    BY <1>14, StalledDoes DEF OneAnswer, Answering, Attended, Alone, Others, Driving, At
  <1>15. CASE OffEnds \/ UNCHANGED vars
    BY <1>15 DEF OffEnds, Idle, vars, OneAnswer, Answering, Attended, Alone, Others, Driving, At
  <1> QED
    BY <1>1, <1>2, <1>3, <1>4, <1>5, <1>6, <1>7, <1>8, <1>9, <1>10, <1>11, <1>12, <1>13, <1>14, <1>15
    DEF Next, Work, Due1, Repair

LEMMA FlowStep ==
  ASSUME Shape, Attended, OneAnswer, OneFlow, ~rushed', \A e \in Exec \ adrift : InStep(e), [Next]_vars
  PROVE  OneFlow'
  <1>1. ASSUME NEW s \in Slot, NEW t, Arrive(s, t) \/ Store(s) \/ ReadLast(s) \/ HookFails(s)
        PROVE  OneFlow'
    BY <1>1, QuietDoes
    DEF OneFlow, OneAnswer, Answering, InStep, Drives, Active, Attended, Alone, Others, Driving,
        At
  <1>2. ASSUME NEW s \in Slot, LookAtExecutions(s)
        PROVE  OneFlow'
    BY <1>2, LookDoes
    DEF OneFlow, OneAnswer, Answering, InStep, Drives, Active, Attended, Alone, Others, Driving,
        At
  <1>3. ASSUME NEW s \in Slot, Create(s)
        PROVE  OneFlow'
    BY <1>3, CreateDoes
    DEF OneFlow, OneAnswer, Answering, InStep, Drives, Active, Attended, Alone, Others, Driving,
        At
  <1>4. ASSUME NEW s \in Slot, SendEffect(s)
        PROVE  OneFlow'
    BY <1>4, SendEffectDoes
    DEF OneFlow, OneAnswer, Answering, InStep, Drives, Active, Attended, Alone, Others, Driving,
        At
  <1>5. ASSUME NEW s \in Slot, SendFails(s)
        PROVE  OneFlow'
    BY <1>5, SendFailsDoes
    DEF OneFlow, OneAnswer, Answering, InStep, Drives, Active, Attended, Alone, Others, Driving,
        At
  <1>6. ASSUME NEW s \in Slot, Cancel(s) \/ Park(s) \/ Finish(s)
        PROVE  OneFlow'
    BY <1>6, HasExecution, CloseDoes, Returns
    DEF OneFlow, OneAnswer, Answering, InStep, Drives, Active, Attended, Alone, Others, Driving,
        At
  <1>7. ASSUME NEW s \in Slot, Drop(s)
        PROVE  OneFlow'
    BY <1>7, HasExecution, DropDoes
    DEF OneFlow, OneAnswer, Answering, InStep, Drives, Active, Attended, Alone, Others, Driving,
        At
  <1>8. ASSUME NEW s \in Slot, CloseFails(s)
        PROVE  OneFlow'
    BY <1>8, HasExecution, CloseFailsDoes, Returns
    DEF OneFlow, OneAnswer, Answering, InStep, Drives, Active, Attended, Alone, Others, Driving,
        At
  <1>9. ASSUME NEW s \in Slot, Schedule(s)
        PROVE  OneFlow'
    BY <1>9, HasExecution, ScheduleDoes
    DEF OneFlow, OneAnswer, Answering, InStep, Drives, Active, Attended, Alone, Others, Driving,
        At
  <1>10. ASSUME NEW s \in Slot, NEW j \in jobs, Fire(s, j) \/ FireEarly(s, j)
        PROVE  OneFlow'
    BY <1>10, StartDoes
    DEF Fire, FireEarly, Fault, Idle, OneFlow, OneAnswer, Answering, InStep, Drives, Active,
        Attended, Alone, Others, Driving, At
  <1>11. ASSUME NEW s \in Slot, Check(s)
        PROVE  OneFlow'
    BY <1>11, CheckDoes
    DEF OneFlow, OneAnswer, Answering, InStep, Drives, Active, Attended, Alone, Others, Driving,
        At
  <1>12. ASSUME NEW s \in Slot, CheckFails(s) \/ Complete(s)
        PROVE  OneFlow'
    BY <1>12, JobEndsDoes, SetJobDoes
    DEF OneFlow, OneAnswer, Answering, InStep, Drives, Active, Attended, Alone, Others, Driving,
        At
  <1>13. CASE Crash
    BY <1>13, CrashDoes
    DEF OneFlow, OneAnswer, Answering, InStep, Drives, Active, Attended, Alone, Others, Driving,
        At
  <1>14. ASSUME NEW j \in jobs, Stalled(j)
        PROVE  OneFlow'
    BY <1>14, StalledDoes
    DEF OneFlow, OneAnswer, Answering, InStep, Drives, Active, Attended, Alone, Others, Driving,
        At
  <1>15. CASE OffEnds \/ UNCHANGED vars
    BY <1>15
    DEF OffEnds, Idle, vars, OneFlow, OneAnswer, Answering, InStep, Drives, Active, Attended,
        Alone, Others, Driving, At
  <1> QED
    BY <1>1, <1>2, <1>3, <1>4, <1>5, <1>6, <1>7, <1>8, <1>9, <1>10, <1>11, <1>12, <1>13, <1>14, <1>15
    DEF Next, Work, Due1, Repair

LEMMA InStepStep ==
  ASSUME Shape, Attended, OneAnswer, ~rushed', NEW e \in Exec, e \notin adrift', e \notin adrift, InStep(e), [Next]_vars
  PROVE  InStep(e)'
  <1>1. ASSUME NEW s \in Slot, NEW t, Arrive(s, t) \/ Store(s) \/ ReadLast(s) \/ HookFails(s)
        PROVE  InStep(e)'
    <2>1. \A j : Loose(j, e)' <=> Loose(j, e)
      BY <1>1, LooseKept, QuietDoes DEF Attended, Alone, Others, At, Driving
    <2> QED
      BY <1>1, <2>1, QuietDoes DEF Attended, InStep, Drives, Parking, Driving, Others, Alone, At
  <1>2. ASSUME NEW s \in Slot, LookAtExecutions(s)
        PROVE  InStep(e)'
    <2>1. \A j : Loose(j, e)' <=> Loose(j, e)
      BY <1>2, LooseKept, LookDoes DEF Attended, Alone, Others, At, Driving
    <2>2. \A o \in Slot \ {s} : ~Answering(o)
      BY <1>2, LookDoes
    <2>3. CASE task'[s].pc \in {"create", "idle"}
      BY <1>2, <2>1, <2>3, LookDoes DEF Attended, InStep, Drives, Parking, Driving, Others, Alone, At
    <2>4. CASE task'[s].pc \in {"drop", "dispatch"} /\ task'[s].e # e
      BY <1>2, <2>1, <2>4, LookDoes DEF Attended, InStep, Drives, Parking, Driving, Others, Alone, At
    <2>5. CASE task'[s].pc \in {"drop", "dispatch"} /\ task'[s].e = e
      <3>1. exec[e].st = "WAITING_INPUT" /\ task[s].job = NoJob
        BY <1>2, <2>5, LookDoes DEF Attended, At
      <3>2. \A o \in Slot : ~Drives(o, e)
        BY <1>2, <2>2, <3>1, LookDoes DEF InStep, Drives, Answering, Driving, At
      <3>3. \A j \in jobs : ~Loose(j, e)
        BY <3>1, <3>2 DEF InStep, Parking, Drives, Driving
      <3> QED
        BY <1>2, <2>1, <2>5, <3>1, <3>2, <3>3, LookDoes
        DEF InStep, Drives, Parking, Driving, Others, Alone, At
    <2> QED
      BY <1>2, <2>3, <2>4, <2>5, LookDoes
  <1>3. ASSUME NEW s \in Slot, Create(s)
        PROVE  InStep(e)'
    <2>1. \A j : Loose(j, e)' <=> Loose(j, e)
      BY <1>3, LooseKept, CreateDoes DEF Attended, Alone, Others, At, Driving
    <2> QED
      BY <1>3, <2>1, CreateDoes DEF Attended, InStep, Drives, Parking, Driving, Others, Alone, At, Active
  <1>4. ASSUME NEW s \in Slot, SendEffect(s)
        PROVE  InStep(e)'
    <2>1. \A j : Loose(j, e)' <=> Loose(j, e)
      BY <1>4, LooseKept, SendEffectDoes DEF Attended, Alone, Others, At, Driving
    <2> QED
      BY <1>4, <2>1, SendEffectDoes DEF Attended, InStep, Drives, Parking, Driving, Others, Alone, At
  <1>5. ASSUME NEW s \in Slot, SendFails(s)
        PROVE  InStep(e)'
    <2>1. \A j : Loose(j, e)' <=> Loose(j, e)
      BY <1>5, LooseKept, SendFailsDoes DEF Attended, Alone, Others, At, Driving
    <2> QED
      BY <1>5, <2>1, SendFailsDoes DEF Attended, InStep, Drives, Parking, Driving, Others, Alone, At
  <1>6. ASSUME NEW s \in Slot, Cancel(s) \/ Park(s) \/ Finish(s)
        PROVE  InStep(e)'
    <2>f. task[s].e \in Exec
      BY <1>6, HasExecution
    <2>1. \A j : Loose(j, e)' <=> Loose(j, e)
      BY <1>6, <2>f, LooseKept, CloseDoes, Returns DEF Attended, Others, At, Driving
    <2>2. task[s].pc \in {"cancel", "park", "dispatch"} /\ task'[s].pc \in {"idle", "done"} /\ Others(s)
      BY <1>6, <2>f, CloseDoes, Returns DEF At
    <2>3. CASE task[s].e # e
      BY <1>6, <2>f, <2>1, <2>2, <2>3, CloseDoes DEF InStep, Drives, Parking, Driving, Others, Alone, At
    <2>4. CASE task[s].e = e
      <3>1. \A o \in Slot : ~Drives(o, e)'
        BY <2>2, <2>4 DEF InStep, Drives, Driving, Others
      <3>2. exec'[e].st \in {"WAITING_TIMER", "CANCELLED"} \/ \A j \in jobs : ~Loose(j, e)
        BY <1>6, <2>f, <2>4, CloseDoes DEF InStep, Drives, Driving, At
      <3> QED
        BY <1>6, <2>f, <2>1, <3>1, <3>2, CloseDoes DEF InStep
    <2> QED
      BY <2>3, <2>4
  <1>7. ASSUME NEW s \in Slot, Drop(s)
        PROVE  InStep(e)'
    <2>1. \A j : Loose(j, e)' <=> Loose(j, e)
      BY <1>7, LooseKept, DropDoes, HasExecution DEF Attended, Alone, Others, At, Driving
    <2> QED
      BY <1>7, <2>1, DropDoes, HasExecution
      DEF Attended, InStep, Drives, Parking, Driving, Others, Alone, At
  <1>8. ASSUME NEW s \in Slot, CloseFails(s)
        PROVE  InStep(e)'
    <2>f. task[s].e \in Exec
      BY <1>8, HasExecution
    <2>1. task[s].e # e
      BY <1>8, CloseFailsDoes
    <2>2. task[s].pc \in {"drop", "cancel"} /\ task'[s].pc \in {"idle", "done"} /\ Others(s)
          /\ task'[s].job = task[s].job /\ UNCHANGED <<exec, jobs>>
      BY <1>8, <2>f, CloseFailsDoes, Returns
    <2>3. \A j : Loose(j, e)' <=> Loose(j, e)
      BY <2>2, LooseKept
    <2> QED
      BY <2>1, <2>2, <2>3 DEF InStep, Drives, Parking, Driving, Others, Alone, At
  <1>9. ASSUME NEW s \in Slot, Schedule(s)
        PROVE  InStep(e)'
    <2>f. task[s].e \in Exec
      BY <1>9, HasExecution
    <2>1. /\ At(s, "dispatch") /\ task'[s].pc = "park" /\ task'[s].e = task[s].e /\ task'[s].job = task[s].job
          /\ Others(s) /\ exec' = exec
      BY <1>9, <2>f, ScheduleDoes
    <2>2. \A j : Loose(j, e)' <=> Loose(j, e)
      BY <2>1 DEF Loose, Others, At
    <2>3. CASE jobs' = jobs
      BY <2>1, <2>2, <2>3 DEF InStep, Drives, Parking, Driving, Others, Alone, At
    <2>4. ASSUME NEW j, jobs' = jobs \cup {j}, j.id[1] = task[s].e, j.st = "delayed"
          PROVE  InStep(e)'
      <3>1. CASE task[s].e # e
        <4>1. ~Loose(j, e)
          BY <2>4, <3>1 DEF Loose
        <4> QED
          BY <2>1, <2>2, <2>4, <3>1, <4>1 DEF InStep, Drives, Parking, Driving, Others, Alone, At
      <3>2. CASE task[s].e = e
        <4>1. \A k \in jobs : ~Loose(k, e)
          BY <2>1, <3>2 DEF InStep, Drives, Driving, At
        <4> QED
          BY <2>1, <2>2, <2>4, <3>2, <4>1 DEF InStep, Drives, Parking, Driving, Others, Alone, At
      <3> QED
        BY <3>1, <3>2
    <2> QED
      BY <1>9, <2>f, <2>3, <2>4, ScheduleDoes
  <1>10. ASSUME NEW s \in Slot, NEW j \in jobs, Fire(s, j) \/ FireEarly(s, j)
        PROVE  InStep(e)'
    <2>1. /\ At(s, "idle") /\ j.st = "delayed"
          /\ task'[s].pc = "check" /\ task'[s].e = j.id[1] /\ task'[s].job = j.id /\ Others(s)
      BY <1>10, StartDoes DEF Fire, FireEarly
    <2>2. PICK k : jobs' = (jobs \ {j}) \cup {k} /\ k.id = j.id /\ k.st = "active"
      BY <1>10, StartDoes DEF Fire, FireEarly
    <2>3. exec' = exec /\ task[s].job = NoJob /\ j.id # NoJob
      BY <1>10, <2>1 DEF Fire, FireEarly, Attended, At
    <2>4. \A i \in jobs \ {j} : Loose(i, e)' <=> Loose(i, e)
      BY <2>1, <2>3 DEF Loose, Others, Attended, At
    <2>5. CASE j.id[1] # e
      <3>1. ~Loose(k, e)' /\ ~Loose(j, e)
        BY <2>2, <2>5 DEF Loose
      <3> QED
        BY <2>1, <2>2, <2>3, <2>4, <2>5, <3>1 DEF InStep, Drives, Parking, Driving, Others, Alone, At
    <2>6. CASE j.id[1] = e
      <3>1. Loose(j, e)
        BY <2>1, <2>6 DEF Loose
      <3>2. ~Parking(e)
        BY <1>10, <2>6 DEF Fire, FireEarly
      <3>3. \A o \in Slot : ~Drives(o, e)
        BY <3>1, <3>2 DEF InStep, Parking, Drives, Driving
      <3>4. \A o \in Slot : ~Drives(o, e)'
        BY <2>1, <3>3 DEF Drives, Driving, Others
      <3>5. \A i \in jobs' : Loose(i, e)' => i = k
        BY <2>2, <2>4, <3>1 DEF InStep
      <3>6. exec[e].st \in {"WAITING_TIMER", "CANCELLED"}
        BY <3>1, <3>2 DEF InStep
      <3> QED
        BY <2>3, <3>4, <3>5, <3>6 DEF InStep
    <2> QED
      BY <2>5, <2>6
  <1>11. ASSUME NEW s \in Slot, Check(s)
        PROVE  InStep(e)'
    <2>1. /\ At(s, "check") /\ task'[s].e = task[s].e /\ task'[s].job = task[s].job
          /\ task'[s].pc \in {"dispatch", "done"}
          /\ task'[s].pc = "dispatch" => exec[task[s].e].st = "WAITING_TIMER"
          /\ Others(s) /\ UNCHANGED <<exec, jobs>>
      BY <1>11, CheckDoes DEF Alone
    <2>2. task[s].job # NoJob
      BY <2>1 DEF Attended, At
    <2>3. PICK k \in jobs : k.id = task[s].job /\ k.st = "active" /\ task[s].e = k.id[1]
      BY <2>2 DEF Attended
    <2>4. \A i \in jobs : i # k => (Loose(i, e)' <=> Loose(i, e))
      BY <2>1, <2>3 DEF Loose, Others, Attended
    <2>5. ~Loose(k, e)'
      BY <2>1, <2>3 DEF Loose
    <2>6. CASE task[s].e # e
      <3>1. ~Loose(k, e)
        BY <2>3, <2>6 DEF Loose
      <3> QED
        BY <2>1, <2>4, <2>5, <2>6, <3>1 DEF InStep, Drives, Parking, Driving, Others, Alone, At
    <2>7. CASE task[s].e = e
      <3>1. Loose(k, e)
        BY <2>1, <2>2, <2>3, <2>7 DEF Loose, Attended, At
      <3>2. \A o \in Slot : ~Drives(o, e)
        BY <2>3, <3>1 DEF InStep
      <3>3. \A i \in jobs' : ~Loose(i, e)'
        BY <2>1, <2>4, <2>5, <3>1 DEF InStep
      <3> QED
        BY <2>1, <2>2, <2>7, <3>2, <3>3 DEF InStep, Drives, Driving, Others
    <2> QED
      BY <2>6, <2>7
  <1>12. ASSUME NEW s \in Slot, CheckFails(s) \/ Complete(s)
        PROVE  InStep(e)'
    <2>1. /\ task[s].pc \in {"check", "done"} /\ task'[s].pc = "idle" /\ task'[s].job = NoJob
          /\ Others(s) /\ exec' = exec
          /\ At(s, "check") => adrift' = adrift \cup {task[s].e}
      BY <1>12, JobEndsDoes
    <2>2. PICK st \in {"failed", "completed"} : SetJob(task[s].job, st)
      BY <1>12, JobEndsDoes
    <2>3. \A i \in jobs' : (i \in jobs /\ i.id # task[s].job) \/ i.st = st
      BY <2>2, SetJobDoes
    <2>4. \A i \in jobs' : Loose(i, e)' => i \in jobs /\ Loose(i, e)
      BY <2>1, <2>2, <2>3 DEF Loose, Others
    <2> QED
      BY <2>1, <2>4 DEF InStep, Drives, Parking, Driving, Others, Alone, At
  <1>13. CASE Crash
    <2>1. /\ \A s \in Slot : task'[s].pc = "idle" /\ task'[s].job = NoJob
          /\ exec' = exec /\ jobs' = jobs
          /\ \A s \in Slot : task[s].pc \in {"park", "cancel", "done"} => task[s].e # e
      BY <1>13, CrashDoes
    <2>2. \A o \in Slot : ~Drives(o, e)'
      BY <2>1 DEF Drives, Driving
    <2>3. ~Parking(e)
      BY <2>1 DEF Parking
    <2>4. ASSUME NEW j \in jobs, Loose(j, e)', ~Loose(j, e)
          PROVE  /\ \E o \in Slot : task[o].job = j.id /\ Drives(o, e)
                 /\ \A k \in jobs : ~Loose(k, e)
                 /\ exec[e].st = "WAITING_TIMER"
      <3>1. j.id[1] = e /\ j.st = "active"
        BY <2>4 DEF Loose
      <3>2. PICK o \in Slot : task[o].job = j.id /\ task[o].pc # "check"
        BY <2>4, <3>1 DEF Loose
      <3>3. task[o].job # NoJob /\ task[o].e = e
        BY <3>1, <3>2 DEF Attended
      <3>4. At(o, "dispatch")
        BY <2>1, <3>2, <3>3 DEF Attended, At
      <3> QED
        BY <3>2, <3>3, <3>4 DEF InStep, Drives, Driving, At
    <2>5. \A j, k \in jobs : Loose(j, e)' /\ Loose(k, e)' => j = k
      BY <2>4 DEF InStep, Attended
    <2>6. exec[e].st \notin {"WAITING_TIMER", "CANCELLED"} => \A j \in jobs : ~Loose(j, e)'
      BY <2>3, <2>4 DEF InStep
    <2> QED
      BY <2>1, <2>2, <2>5, <2>6 DEF InStep
  <1>14. ASSUME NEW j \in jobs, Stalled(j)
        PROVE  InStep(e)'
    <2>1. j.st = "active" /\ (\A s \in Slot : task[s].job # j.id) /\ UNCHANGED <<task, exec>>
      BY <1>14, StalledDoes
    <2>2. PICK k : jobs' = (jobs \ {j}) \cup {k} /\ k.id = j.id /\ k.st \in {"delayed", "failed"}
      BY <1>14, StalledDoes
    <2>3. \A i : Loose(i, e)' <=> Loose(i, e)
      BY <2>1 DEF Loose
    <2>4. CASE j.id[1] # e
      <3>1. ~Loose(j, e) /\ ~Loose(k, e)
        BY <2>2, <2>4 DEF Loose
      <3> QED
        BY <2>1, <2>2, <2>3, <3>1 DEF InStep, Drives, Parking, Driving, Others, Alone, At
    <2>5. CASE j.id[1] = e
      <3>1. Loose(j, e)
        BY <2>1, <2>5 DEF Loose
      <3>2. \A o \in Slot : ~Drives(o, e)
        BY <2>1, <3>1 DEF InStep
      <3>3. \A i \in jobs' : Loose(i, e) => i = k
        BY <2>2, <3>1 DEF InStep
      <3>4. exec[e].st \in {"WAITING_TIMER", "CANCELLED"}
        BY <3>1, <3>2 DEF InStep, Parking, Drives, Driving
      <3> QED
        BY <2>1, <2>3, <3>2, <3>3, <3>4 DEF InStep, Drives
    <2> QED
      BY <2>4, <2>5
  <1>15. CASE OffEnds \/ UNCHANGED vars
    <2>1. UNCHANGED <<task, jobs, exec>>
      BY <1>15 DEF OffEnds, Idle, vars
    <2> QED
      BY <2>1 DEF InStep, Loose, Drives, Parking
  <1> QED
    BY <1>1, <1>2, <1>3, <1>4, <1>5, <1>6, <1>7, <1>8, <1>9, <1>10, <1>11, <1>12, <1>13, <1>14, <1>15
    DEF Next, Work, Due1, Repair

-----------------------------------------------------------------------------
(***************************************************************************)
(* The invariant holds, and with it the properties.                        *)
(***************************************************************************)
LEMMA InitHolds ==
  ASSUME Init
  PROVE  IInv
  <1>1. Shape
    BY RestingSays DEF Init, Shape
  <1>2. Attended
    BY RestingSays DEF Init, Attended, Driving
  <1>3. \A s \in Slot : task[s].pc = "idle"
    BY RestingSays DEF Init
  <1>4. \A e \in Exec : exec[e].st = "none" /\ \A s \in Slot : ~Drives(s, e)
    BY <1>3 DEF Init, Drives, Driving
  <1>5. OneAnswer /\ OneFlow
    BY <1>3, <1>4 DEF OneAnswer, Answering, Driving, OneFlow, Active, At
  <1>6. \A e \in Exec : InStep(e)
    BY <1>4 DEF InStep, Init
  <1> QED
    BY <1>1, <1>2, <1>5, <1>6 DEF IInv, Calm

LEMMA IInvStep ==
  ASSUME IInv, [Next]_vars
  PROVE  IInv'
  <1>1. Shape /\ Attended /\ Shape'
    BY ShapeStep DEF IInv
  <1>2. Attended'
    BY <1>1, AttendedStep
  <1>3. ASSUME ~rushed'
        PROVE  OneAnswer' /\ OneFlow' /\ \A e \in Exec \ adrift' : InStep(e)'
    <2>1. OneAnswer /\ OneFlow /\ \A e \in Exec \ adrift : InStep(e)
      BY <1>3, RushedStays DEF IInv, Calm
    <2>2. OneAnswer'
      BY <1>1, <1>3, <2>1, AnswerStep
    <2>3. OneFlow'
      BY <1>1, <1>3, <2>1, FlowStep
    <2>4. ASSUME NEW e \in Exec, e \notin adrift'
          PROVE  InStep(e)'
      <3>1. e \notin adrift
        BY <2>4, AdriftGrows
      <3> QED
        BY <1>1, <1>3, <2>1, <2>4, <3>1, InStepStep
    <2> QED
      BY <2>2, <2>3, <2>4
  <1>4. Calm'
    BY <1>3 DEF Calm
  <1> QED
    BY <1>1, <1>2, <1>4 DEF IInv

LEMMA IInvHolds == Spec => []IInv
  BY InitHolds, IInvStep, PTL DEF Spec

-----------------------------------------------------------------------------
\* For any flow, any texts, any number of runs at once and any faults: a conversation
\* has at most one execution under way and an execution at most one run at work on
\* it, as long as no text was looked at while another was being answered and except
\* for executions out of step with their jobs (automation-engine.ts, worker.ts).
THEOREM OneAtATimeHolds == Spec => []OneAtATime
  <1>1. IInv => OneAtATime
    <2> SUFFICES ASSUME IInv, ~rushed
                 PROVE  /\ Cardinality({e \in Exec \ adrift : exec[e].st \in Active}) <= 1
                        /\ \A e \in Exec \ adrift : \A s, o \in Slot : Drives(s, e) /\ Drives(o, e) => s = o
      BY DEF OneAtATime, OneFlowAtATime, OneRun
    <2> DEFINE A == {e \in Exec \ adrift : exec[e].st \in Active}
    <2>1. OneFlow /\ \A e \in Exec \ adrift : InStep(e)
      BY DEF IInv, Calm
    <2>2. \A e, f \in A : e = f
      BY <2>1 DEF OneFlow
    <2>3. A = {} \/ \E e : A = {e}
      BY <2>2
    <2>4. Cardinality(A) <= 1
      <3> HIDE DEF A
      <3>1. CASE A = {}
        BY <3>1, FS_EmptySet
      <3>2. CASE \E e : A = {e}
        BY <3>2, FS_Singleton
      <3> QED
        BY <2>3, <3>1, <3>2
    <2>5. \A e \in Exec \ adrift : \A s, o \in Slot : Drives(s, e) /\ Drives(o, e) => s = o
      BY <2>1 DEF InStep
    <2> QED
      BY <2>4, <2>5
  <1> QED
    BY <1>1, IInvHolds, PTL

\* Nothing more goes out for an execution that is finished or cancelled, for any flow
\* and any faults, with the same exceptions (dispatchEffects sends only for a run
\* whose execution is still open).
THEOREM OverIsSilentHolds == Spec => OverIsSilent
  <1> DEFINE Silent == \A e \in Exec : seen'[e] # seen[e] /\ ~rushed /\ e \notin adrift => exec[e].st \in Active
  <1>1. ASSUME IInv, [Next]_vars
        PROVE  Silent
    <2>1. CASE UNCHANGED seen
      BY <2>1
    <2>2. ASSUME NEW s \in Slot, SendEffect(s)
          PROVE  Silent
      <3>1. At(s, "dispatch") /\ \A f \in Exec : f # task[s].e => seen'[f] = seen[f]
        BY <1>1, <2>2, SendEffectDoes DEF IInv
      <3>2. ASSUME NEW e \in Exec, seen'[e] # seen[e], ~rushed, e \notin adrift
            PROVE  exec[e].st \in Active
        <4>1. Drives(s, e) /\ InStep(e)
          BY <1>1, <3>1, <3>2 DEF Drives, Driving, At, IInv, Calm
        <4> QED
          BY <4>1 DEF InStep, Active
      <3> QED
        BY <3>2
    <2> QED
      BY <1>1, <2>1, <2>2
      DEF Next, Work, Due1, Repair, vars, Idle, Store, ReadLast, LookAtExecutions, Drop, Create, Cancel,
          Schedule, Park, Finish, Check, Complete, Fire, Arrive, SendFails, CloseFails, CheckFails,
          HookFails, FireEarly, Stalled, OffEnds, Crash
  <1>2. IInv /\ [Next]_vars => [Silent]_vars
    BY <1>1
  <1> QED
    BY <1>2, IInvHolds, PTL DEF Spec, OverIsSilent
=============================================================================
