----------------------------- MODULE Automations -----------------------------
(***************************************************************************)
(* The automation engine of the worker for ONE conversation and one flow:  *)
(* the walk over the graph of the flow, the hook that every incoming text  *)
(* runs, the executions it leaves in the database and the flow-resume      *)
(* jobs that continue a flow after a Wait node.                            *)
(*                                                                         *)
(* A slot is one piece of concurrent work: the handler of an incoming      *)
(* message, or the run of a flow-resume job.  An action is the code        *)
(* between two awaits.  The messages a flow sends are rows and jobs of     *)
(* MessageDelivery; here a send is one step.                               *)
(***************************************************************************)
EXTENDS Naturals, Sequences, FiniteSets, SequencesExt

CONSTANTS Slot,         \* pieces of work at once
          Exec,         \* rows of FlowExecution
          None,
          Graph,        \* [kind, next, blocks, edge], each a function of the node
          Text,         \* what the customer may write
          Keyword,      \* the texts that match the trigger of the flow
          MaxSteps,     \* MAX_STEPS of the walk (200 in the code)
          MaxMessages,  \* bound: incoming texts
          Faults, MaxFault   \* bound: which faults, and how many

Node == DOMAIN Graph.kind

ASSUME AutomationsAssumption ==
  /\ None \notin Slot \cup Exec \cup Node \cup Text
  /\ Keyword \subseteq Text
  /\ MaxSteps \in Nat \ {0} /\ MaxMessages \in Nat /\ MaxFault \in Nat
  /\ Faults \subseteq {"crash", "error", "slow"}
  /\ \E n \in Node : Graph.kind[n] = "start"

VARIABLES last,     \* the newest incoming text of the conversation
          off,      \* botDisabledUntil lies in the future
          exec, jobs, task,
          came, used,
          seen,     \* history: the last effect of each execution the customer got
          rushed,   \* history: a text was looked at while another was being answered
          torn,     \* history: executions whose run died while it was sending
          adrift    \* history: executions out of step with their jobs: a job ran before
                    \* they were parked, ran again after it handed on or was lost, or closing
                    \* them failed

vars == <<last, off, exec, jobs, task, came, used, seen, rushed, torn, adrift>>

-----------------------------------------------------------------------------
(***************************************************************************)
(* run-flow.ts.  An effect is one message or switch, with the place it     *)
(* comes from and whether a delay precedes it.                             *)
(***************************************************************************)
Effect == [at : Node \X Nat, wait : BOOLEAN, does : {"send", "autooff"}]
Result == [effects : Seq(Effect), ends : {"COMPLETED", "WAITING_INPUT"}, menu : Node \cup {None}]

\* The blocks of a content node: a delay is carried to the next effect.
Block(n, sofar, i) ==
  IF Graph.blocks[n][i] = "delay"
  THEN [sofar EXCEPT !.wait = TRUE]
  ELSE [effects |-> Append(sofar.effects, [at |-> <<n, i>>, wait |-> sofar.wait, does |-> Graph.blocks[n][i]]),
        wait |-> FALSE]

Blocks(n, wait) ==
  FoldLeft(LAMBDA sofar, i : Block(n, sofar, i), [effects |-> <<>>, wait |-> wait],
           [i \in 1..Len(Graph.blocks[n]) |-> i])

Prompt(n, wait) == [at |-> <<n, 0>>, wait |-> wait, does |-> "send"]

\* From node n, with so many steps left and a delay pending or not.
walk[n \in Node \cup {None}, left \in 0..MaxSteps, wait \in BOOLEAN] ==
  IF n = None \/ left = 0 THEN [effects |-> <<>>, ends |-> "COMPLETED", menu |-> None]
  ELSE CASE Graph.kind[n] = "wait" -> walk[Graph.next[n], left - 1, TRUE]
         [] Graph.kind[n] = "menu" -> [effects |-> <<Prompt(n, wait)>>, ends |-> "WAITING_INPUT", menu |-> n]
         [] Graph.kind[n] = "content" ->
              LET here == Blocks(n, wait)
                  rest == walk[Graph.next[n], left - 1, here.wait]
              IN  [rest EXCEPT !.effects = here.effects \o @]
         [] OTHER -> [effects |-> <<>>, ends |-> "WAITING_INPUT", menu |-> None]

RunFlow == walk[Graph.next[CHOOSE n \in Node : Graph.kind[n] = "start"], MaxSteps, FALSE]

\* The edge a reply follows at a menu: its option's, or "no-response", or none.
ResumeFlow(menu, text) ==
  IF Graph.kind[menu] # "menu" THEN walk[None, 0, FALSE] ELSE walk[Graph.edge[menu][text], MaxSteps, FALSE]

-----------------------------------------------------------------------------
Active == {"RUNNING", "WAITING_INPUT", "WAITING_TIMER"}
Status == {"none", "COMPLETED", "CANCELLED"} \cup Active

JobId == Exec \X (Node \X Nat)
NoJob == <<>>
Pc == {"idle", "store", "read", "active", "create", "dispatch", "park", "drop", "cancel", "check", "done"}

TypeOK ==
  /\ last \in Text \cup {None} /\ off \in BOOLEAN
  /\ exec \in [Exec -> [st : Status, node : Node \cup {None}]]
  /\ \A j \in jobs : /\ j.id \in JobId /\ j.st \in {"delayed", "active", "completed", "failed"}
                     /\ j.stalled \in 0..1
                     /\ j.work \in Result /\ j.work.effects # <<>>
  /\ \A j, k \in jobs : j.id = k.id => j = k
  /\ \A s \in Slot : /\ task[s].pc \in Pc /\ task[s].text \in Text \cup {None}
                     /\ task[s].off \in BOOLEAN /\ task[s].e \in Exec \cup {None}
                     /\ task[s].work \in Result /\ task[s].job \in JobId \cup {NoJob}
  /\ came \in 0..MaxMessages /\ used \in 0..MaxFault
  /\ seen \in [Exec -> (Node \X Nat) \cup {None}]
  /\ rushed \in BOOLEAN /\ torn \subseteq Exec /\ adrift \subseteq Exec

Nothing == [effects |-> <<>>, ends |-> "COMPLETED", menu |-> None]
Resting == [pc |-> "idle", text |-> None, off |-> FALSE, e |-> None, work |-> Nothing, job |-> NoJob]

Init ==
  /\ last = None /\ off = FALSE
  /\ exec = [e \in Exec |-> [st |-> "none", node |-> None]]
  /\ jobs = {} /\ task = [s \in Slot |-> Resting]
  /\ came = 0 /\ used = 0
  /\ seen = [e \in Exec |-> None] /\ rushed = FALSE /\ torn = {} /\ adrift = {}

Fault(f) == f \in Faults /\ used < MaxFault /\ used' = used + 1
At(s, pc) == task[s].pc = pc
Goto(s, pc) == task' = [task EXCEPT ![s].pc = pc]
Leave(s) == task' = [task EXCEPT ![s] = Resting]
\* The end of a run: the handler of a message is gone, a job still has to complete.
Return(s) == IF task[s].job = NoJob THEN Leave(s) ELSE Goto(s, "done")
JobOf(id) == CHOOSE j \in jobs : j.id = id
Idle == UNCHANGED <<came, used, rushed, torn, adrift>>

\* Slots at work on an execution.
Driving == {"dispatch", "park", "drop", "cancel"}
Drives(s, e) == task[s].pc \in Driving /\ task[s].e = e

-----------------------------------------------------------------------------
(***************************************************************************)
(* A text comes in: the conversation is updated (and its botDisabledUntil  *)
(* read), then the message is stored, then the hook runs.                  *)
(***************************************************************************)
Arrive(s, t) ==
  /\ At(s, "idle") /\ came < MaxMessages
  /\ came' = came + 1
  /\ task' = [task EXCEPT ![s].pc = "store", ![s].text = t, ![s].off = off]
  /\ UNCHANGED <<last, off, exec, jobs, used, seen, rushed, torn, adrift>>

Store(s) ==
  /\ At(s, "store")
  /\ last' = task[s].text
  /\ IF task[s].off THEN Leave(s) ELSE Goto(s, "read")
  /\ UNCHANGED <<off, exec, jobs, seen>> /\ Idle

\* maybeRunFlow answers the newest text, which may no longer be its own.
ReadLast(s) ==
  /\ At(s, "read")
  /\ task' = [task EXCEPT ![s].pc = "active", ![s].text = last]
  /\ UNCHANGED <<last, off, exec, jobs, seen>> /\ Idle

\* Forgets the executions parked at a timer.
Found == {e \in Exec : exec[e].st \in Active}

\* Takes a parked execution for one that waits for an answer.
TakesAnswerParked(e) == exec[e].st # "RUNNING" /\ exec[e].node # None

TakesAnswer(e) == exec[e].st = "WAITING_INPUT" /\ exec[e].node # None

Answering(s) == task[s].pc \in Driving \cup {"create"} /\ task[s].job = NoJob

Answer(s, e) ==
  LET r == ResumeFlow(exec[e].node, task[s].text)
  IN  task' = [task EXCEPT ![s].e = e, ![s].work = r,
                           ![s].pc = IF r.effects = <<>> THEN "drop" ELSE "dispatch"]

\* One flow at a time: an execution that waits for an answer takes the text, any
\* other keeps it out, and only without one the keywords are looked at.
LookAtExecutions(s) ==
  /\ At(s, "active")
  /\ IF Found = {}
     THEN IF task[s].text \in Keyword /\ RunFlow.effects # <<>> THEN Goto(s, "create") ELSE Leave(s)
     ELSE \E e \in Found : IF TakesAnswer(e) THEN Answer(s, e) ELSE Leave(s)
  /\ rushed' = (rushed \/ \E o \in Slot \ {s} : Answering(o))
  /\ UNCHANGED <<last, off, exec, jobs, came, used, seen, torn, adrift>>

\* No option matched: the execution is closed and the text left to the AI.
Drop(s) ==
  /\ At(s, "drop")
  /\ exec' = [exec EXCEPT ![task[s].e].st = "CANCELLED"]
  /\ Leave(s)
  /\ UNCHANGED <<last, off, jobs, seen>> /\ Idle

\* A query of the hook fails before a flow began: the text stays unanswered.
HookFails(s) ==
  /\ task[s].pc \in {"read", "active", "create"} /\ Fault("error")
  /\ Leave(s)
  /\ UNCHANGED <<last, off, exec, jobs, came, seen, rushed, torn, adrift>>

Create(s) ==
  /\ At(s, "create")
  /\ \E e \in Exec :
       /\ exec[e].st = "none"
       /\ exec' = [exec EXCEPT ![e].st = "RUNNING"]
       /\ task' = [task EXCEPT ![s].pc = "dispatch", ![s].e = e, ![s].work = RunFlow]
  /\ UNCHANGED <<last, off, jobs, seen>> /\ Idle

-----------------------------------------------------------------------------
(***************************************************************************)
(* dispatchEffects: sends until an effect must wait; then the rest becomes *)
(* a delayed job and the execution is parked.                              *)
(***************************************************************************)
Next1(s) == Head(task[s].work.effects)

SendEffect(s) ==
  /\ At(s, "dispatch") /\ task[s].work.effects # <<>> /\ ~Next1(s).wait
  /\ IF Next1(s).does = "autooff"
     THEN off' = TRUE /\ seen' = seen
     ELSE off' = off /\ seen' = [seen EXCEPT ![task[s].e] = Next1(s).at]
  /\ task' = [task EXCEPT ![s].work.effects = Tail(@)]
  /\ UNCHANGED <<last, exec, jobs>> /\ Idle

\* The database or the queue refuses: the run is abandoned, even if the job that
\* continues it is already there.
SendFails(s) ==
  /\ task[s].pc \in {"dispatch", "park"} /\ Fault("error")
  /\ Goto(s, "cancel")
  /\ UNCHANGED <<last, off, exec, jobs, came, seen, rushed, torn, adrift>>

Cancel(s) ==
  /\ At(s, "cancel")
  /\ exec' = [exec EXCEPT ![task[s].e].st = "CANCELLED"]
  /\ Return(s)
  /\ UNCHANGED <<last, off, jobs, seen>> /\ Idle

\* The update that closes the execution fails too: nobody hears of it.
CloseFails(s) ==
  /\ task[s].pc \in {"drop", "cancel"} /\ Fault("error")
  /\ adrift' = adrift \cup {task[s].e}
  /\ Return(s)
  /\ UNCHANGED <<last, off, exec, jobs, came, seen, rushed, torn>>

\* The job that continues with the effects from the one that waits.  BullMQ
\* ignores an id it knows, finished jobs included (removeOnComplete keeps 5000).
Add(s, work) ==
  LET id == <<task[s].e, Next1(s).at>>
  IN  jobs' = IF \E j \in jobs : j.id = id THEN jobs
              ELSE jobs \cup {[id |-> id, st |-> "delayed", stalled |-> 0, work |-> work]}

Schedule(s) ==
  /\ At(s, "dispatch") /\ task[s].work.effects # <<>> /\ Next1(s).wait
  /\ Add(s, task[s].work)
  /\ Goto(s, "park")
  /\ UNCHANGED <<last, off, exec, seen>> /\ Idle

Park(s) ==
  /\ At(s, "park")
  /\ exec' = [exec EXCEPT ![task[s].e].st = "WAITING_TIMER"]
  /\ Return(s)
  /\ UNCHANGED <<last, off, jobs, seen>> /\ Idle

\* The status of the end, without the menu it waits at.
FinishKeepsNode(s) ==
  /\ At(s, "dispatch") /\ task[s].work.effects = <<>>
  /\ exec' = [exec EXCEPT ![task[s].e].st = task[s].work.ends,
                          ![task[s].e].node = IF @ = None THEN task[s].work.menu ELSE @]
  /\ Return(s)
  /\ UNCHANGED <<last, off, jobs, seen>> /\ Idle

Finish(s) ==
  /\ At(s, "dispatch") /\ task[s].work.effects = <<>>
  /\ exec' = [exec EXCEPT ![task[s].e] = [st |-> task[s].work.ends, node |-> task[s].work.menu]]
  /\ Return(s)
  /\ UNCHANGED <<last, off, jobs, seen>> /\ Idle

-----------------------------------------------------------------------------
(***************************************************************************)
(* The flow-resume job.  Its delay is a second at least, the update that   *)
(* parks or cancels the execution comes first unless the database is slow. *)
(***************************************************************************)
Parking(e) == \E s \in Slot : task[s].pc \in {"park", "cancel"} /\ task[s].e = e

Start(s, j) ==
  /\ At(s, "idle") /\ j.st = "delayed"
  /\ jobs' = (jobs \ {j}) \cup {[j EXCEPT !.st = "active"]}
  /\ task' = [task EXCEPT ![s].pc = "check", ![s].e = j.id[1], ![s].work = j.work, ![s].job = j.id]

Fire(s, j) ==
  /\ Start(s, j) /\ ~Parking(j.id[1])
  /\ UNCHANGED <<last, off, exec, seen>> /\ Idle

FireEarly(s, j) ==
  /\ Start(s, j) /\ Parking(j.id[1]) /\ Fault("slow")
  /\ adrift' = adrift \cup {j.id[1]}
  /\ UNCHANGED <<last, off, exec, came, seen, rushed, torn>>

\* The effect that is due goes out without another look at its delay.
Due(work) == [work EXCEPT !.effects[1].wait = FALSE]

\* Does not look at the status of the execution.
CheckNothing(s) ==
  /\ At(s, "check")
  /\ task' = [task EXCEPT ![s].pc = "dispatch", ![s].work = Due(@)]
  /\ UNCHANGED <<last, off, exec, jobs, seen>> /\ Idle

\* Only a run that was left RUNNING goes on.
CheckRunning(s) ==
  /\ At(s, "check")
  /\ IF exec[task[s].e].st = "RUNNING"
     THEN task' = [task EXCEPT ![s].pc = "dispatch", ![s].work = Due(@)]
     ELSE Goto(s, "done")
  /\ UNCHANGED <<last, off, exec, jobs, seen>> /\ Idle

Check(s) ==
  /\ At(s, "check")
  /\ IF exec[task[s].e].st = "WAITING_TIMER"
     THEN task' = [task EXCEPT ![s].pc = "dispatch", ![s].work = Due(@)]
     ELSE Goto(s, "done")
  /\ UNCHANGED <<last, off, exec, jobs, seen>> /\ Idle

SetJob(id, st) == jobs' = {IF j.id = id THEN [j EXCEPT !.st = st] ELSE j : j \in jobs}

\* The first query of the job fails: it has no second attempt.
CheckFails(s) ==
  /\ At(s, "check") /\ Fault("error")
  /\ SetJob(task[s].job, "failed")
  /\ adrift' = adrift \cup {task[s].e}
  /\ Leave(s)
  /\ UNCHANGED <<last, off, exec, came, seen, rushed, torn>>

Complete(s) ==
  /\ At(s, "done")
  /\ SetJob(task[s].job, "completed")
  /\ Leave(s)
  /\ UNCHANGED <<last, off, exec, seen>> /\ Idle

\* The time of an Auto Off block is over.
OffEnds ==
  /\ off /\ off' = FALSE
  /\ UNCHANGED <<last, exec, jobs, task, seen>> /\ Idle

\* The worker dies with everything it was doing.
Crash ==
  /\ \E s \in Slot : ~At(s, "idle")
  /\ Fault("crash")
  /\ torn' = torn \cup {task[s].e : s \in {x \in Slot : task[x].pc \in {"dispatch", "drop", "cancel"}}}
  /\ adrift' = adrift \cup {task[s].e : s \in {x \in Slot : task[x].pc \in {"park", "cancel", "done"}}}
  /\ task' = [s \in Slot |-> Resting]
  /\ UNCHANGED <<last, off, exec, jobs, came, seen, rushed>>

\* BullMQ finds an active job nobody runs: once it is queued again, then it fails.
Stalled(j) ==
  /\ j.st = "active" /\ \A s \in Slot : task[s].job # j.id
  /\ jobs' = (jobs \ {j}) \cup {IF j.stalled = 0 THEN [j EXCEPT !.st = "delayed", !.stalled = 1]
                                ELSE [j EXCEPT !.st = "failed"]}
  /\ adrift' = IF j.stalled = 0 THEN adrift ELSE adrift \cup {j.id[1]}
  /\ UNCHANGED <<last, off, exec, task, came, used, seen, rushed, torn>>

-----------------------------------------------------------------------------
Work(s) ==
  \/ Store(s) \/ ReadLast(s) \/ LookAtExecutions(s) \/ Drop(s) \/ Create(s)
  \/ SendEffect(s) \/ Cancel(s) \/ Schedule(s) \/ Park(s) \/ Finish(s)
  \/ Check(s) \/ Complete(s)
Due1(s) == \E j \in jobs : Fire(s, j)
Repair == \E j \in jobs : Stalled(j)

Next ==
  \/ \E s \in Slot : Work(s) \/ Due1(s)
  \/ \E s \in Slot, t \in Text : Arrive(s, t)
  \/ \E s \in Slot : SendFails(s) \/ CloseFails(s) \/ CheckFails(s) \/ HookFails(s) \/ \E j \in jobs : FireEarly(s, j)
  \/ Repair \/ OffEnds \/ Crash

Spec == Init /\ [][Next]_vars

\* Handlers run on, timers fire when a worker is free, stalled jobs are found.
FairSpec ==
  /\ Spec
  /\ \A s \in Slot : WF_vars(Work(s))
  /\ WF_vars(\E s \in Slot : Due1(s)) /\ WF_vars(Repair)

-----------------------------------------------------------------------------
(***************************************************************************)
(* Properties.                                                             *)
(***************************************************************************)
\* One flow at a time per conversation, whatever crashes: two executions are under
\* way only when a text was looked at while another was being answered, or when a
\* job ran again after it had handed on and brought a finished execution back.
OneFlowAtATime == ~rushed => Cardinality({e \in Exec \ adrift : exec[e].st \in Active}) <= 1

\* An execution has one run at work on it, unless its last one died after it
\* had handed on to the next job.
OneRun ==
  ~rushed => \A e \in Exec \ adrift : \A s, o \in Slot : Drives(s, e) /\ Drives(o, e) => s = o

\* Nobody gets the messages of two flows, or of two runs of one, mixed.
OneAtATime == OneFlowAtATime /\ OneRun

\* What is over stays silent: nothing more goes out for a finished or cancelled
\* execution.
OverIsSilent ==
  [][\A e \in Exec : seen'[e] # seen[e] /\ ~rushed /\ e \notin adrift => exec[e].st \in Active]_vars

\* A reply is matched against the menu the customer saw last: an execution that
\* waits at a menu has that menu's prompt as its last message.
MenuIsTheOneSeen ==
  \A e \in Exec : exec[e].st = "WAITING_INPUT" /\ exec[e].node # None
                  /\ ~rushed /\ e \notin torn \cup adrift
                  /\ (\A s \in Slot : ~Drives(s, e))
                  => seen[e] = <<exec[e].node, 0>>

\* A Wait node ends, across crashes and restarts, unless the execution is out of
\* step with its jobs.
TimerEnds ==
  \A e \in Exec : exec[e].st = "WAITING_TIMER" ~> exec[e].st # "WAITING_TIMER" \/ rushed \/ e \in adrift

\* "a flow with several Wait nodes in a row just keeps re-scheduling itself"
\* (automation-engine.ts:115): a Wait node always ends.
EveryWaitEnds == \A e \in Exec : exec[e].st = "WAITING_TIMER" ~> exec[e].st # "WAITING_TIMER"
=============================================================================
