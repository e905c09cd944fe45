--------------------------- MODULE MessageDelivery ---------------------------
(***************************************************************************)
(* The life of ONE outgoing message: the row the API creates, the BullMQ   *)
(* job on whatsapp.outbound, the runs of OutboundWorker.process, the       *)
(* copies handed to WhatsApp and the receipts that come back.              *)
(*                                                                         *)
(* The API (deliverText and its siblings) creates the row and then queues  *)
(* the job; the worker sends it and records the id WhatsApp gave it;       *)
(* acks find the row by that id.  A Clienera Chat message has no copy to   *)
(* send: its receipts come from the visitor's browser.  Rows, jobs and     *)
(* copies of two messages never meet, so one message is enough.            *)
(*                                                                         *)
(* An action is the code between two awaits.                               *)
(***************************************************************************)
EXTENDS Naturals, Sequences, FiniteSets

CONSTANTS Runner,       \* slots for runs of process() of the job
          None,         \* no run
          Providers,    \* kinds of instance the message may belong to
          MaxAttempts,  \* attempts of a job (5 in the code)
          MaxStalled,   \* BullMQ's maxStalledCount
          MaxAcks,      \* bound: receipts under way at once
          Faults, MaxFault   \* bound: which faults, and how many

ASSUME DeliveryAssumption ==
  /\ None \notin Runner
  /\ Providers \subseteq {"BAILEYS", "CLIENERA_CHAT"}
  /\ MaxAttempts \in Nat \ {0} /\ MaxStalled \in Nat /\ MaxAcks \in Nat /\ MaxFault \in Nat
  /\ Faults \subseteq {"enqueue", "crash", "lock", "db", "publish"}

VARIABLES provider, row, job, run,
          wire,      \* the copies WhatsApp took, in order, and how far each got
          acks,      \* messages.update handlers that have not written yet
          bumps,     \* bumpMessageStatus calls between their read and their write
          del, revoked,   \* the delete-message job, and the copies it revoked
          used,      \* faults so far
          unsure,    \* history: copies whose record was lost
          twice,     \* history: a job was taken again while its run lived
          cut        \* history: the job's end left the row unsettled

vars == <<provider, row, job, run, wire, acks, bumps, del, revoked, used, unsure, twice, cut>>

-----------------------------------------------------------------------------
Sent    == {"SENT", "DELIVERED", "READ"}
Settled == Sent \cup {"FAILED"}
Reached == {"taken"} \cup Sent       \* how far a copy got

Pc == {"idle", "look", "close", "mark", "send", "store", "publish", "catch", "done", "fail"}

TypeOK ==
  /\ provider \in Providers
  /\ row \in [st: {"none", "QUEUED", "PROCESSING"} \cup Settled, wa: 0..Len(wire), deleted: BOOLEAN]
  /\ job \in [st: {"none", "waiting", "active", "completed", "failed"},
              made: 0..MaxAttempts, stalled: 0..MaxStalled, owner: Runner \cup {None}]
  /\ run \in [Runner -> [pc: Pc, made: 0..(MaxAttempts - 1), copy: 0..Len(wire)]]
  /\ wire \in Seq(Reached)
  /\ acks \subseteq [copy: 1..Len(wire), st: Sent]
  /\ bumps \subseteq {"DELIVERED", "READ"}
  /\ del \in [pc: {"none", "queued", "send", "store"}, copy: 0..Len(wire)]
  /\ revoked \subseteq 0..Len(wire)
  /\ used \in 0..MaxFault /\ unsure \in 0..used
  /\ twice \in BOOLEAN /\ cut \in BOOLEAN

Resting == [pc |-> "idle", made |-> 0, copy |-> 0]

Init ==
  /\ provider \in Providers
  /\ row = [st |-> "none", wa |-> 0, deleted |-> FALSE]
  /\ job = [st |-> "none", made |-> 0, stalled |-> 0, owner |-> None]
  /\ run = [r \in Runner |-> Resting]
  /\ wire = <<>> /\ acks = {} /\ bumps = {}
  /\ del = [pc |-> "none", copy |-> 0] /\ revoked = {}
  /\ used = 0 /\ unsure = 0 /\ twice = FALSE /\ cut = FALSE

Fault(f) == f \in Faults /\ used < MaxFault /\ used' = used + 1
Goto(r, pc) == run' = [run EXCEPT ![r].pc = pc]

-----------------------------------------------------------------------------
(***************************************************************************)
(* The API: create the row, then queue the job.                            *)
(***************************************************************************)
CreateMessage ==
  /\ row.st = "none"
  /\ row' = [row EXCEPT !.st = "QUEUED"]
  /\ UNCHANGED <<provider, job, run, wire, acks, bumps, del, revoked, used, unsure, twice, cut>>

Enqueue ==
  /\ row.st = "QUEUED" /\ job.st = "none" /\ ~cut
  /\ job' = [job EXCEPT !.st = "waiting"]
  /\ UNCHANGED <<provider, row, run, wire, acks, bumps, del, revoked, used, unsure, twice, cut>>

\* The API dies, or Redis refuses the job, after the row was written.
EnqueueFails ==
  /\ row.st = "QUEUED" /\ job.st = "none" /\ ~cut
  /\ Fault("enqueue")
  /\ cut' = TRUE
  /\ UNCHANGED <<provider, row, job, run, wire, acks, bumps, del, revoked, unsure, twice>>

-----------------------------------------------------------------------------
(***************************************************************************)
(* BullMQ.  A run that lost its lock goes on, but its result is refused.   *)
(***************************************************************************)
Take(r) ==
  /\ job.st = "waiting" /\ run[r].pc = "idle"
  /\ job' = [job EXCEPT !.st = "active", !.owner = r]
  /\ run' = [run EXCEPT ![r] = [pc |-> "look", made |-> job.made, copy |-> 0]]
  /\ UNCHANGED <<provider, row, wire, acks, bumps, del, revoked, used, unsure, twice, cut>>

Complete(r) ==
  /\ run[r].pc = "done"
  /\ run' = [run EXCEPT ![r] = Resting]
  /\ job' = IF job.owner = r THEN [job EXCEPT !.st = "completed", !.owner = None] ELSE job
  /\ UNCHANGED <<provider, row, wire, acks, bumps, del, revoked, used, unsure, twice, cut>>

\* An exception: another attempt, or none left.
Fail(r) ==
  /\ run[r].pc = "fail"
  /\ run' = [run EXCEPT ![r] = Resting]
  /\ job' = IF job.owner # r THEN job
            ELSE [job EXCEPT !.made = @ + 1, !.owner = None,
                             !.st = IF job.made + 1 >= MaxAttempts THEN "failed" ELSE "waiting"]
  /\ UNCHANGED <<provider, row, wire, acks, bumps, del, revoked, used, unsure, twice, cut>>

\* An active job whose lock is gone is queued again, or failed for good without
\* the processor hearing of it.
StalledAgain ==
  IF job.stalled < MaxStalled
  THEN /\ job' = [job EXCEPT !.st = "waiting", !.owner = None, !.stalled = @ + 1]
       /\ cut' = cut
  ELSE /\ job' = [job EXCEPT !.st = "failed", !.owner = None]
       /\ cut' = (cut \/ row.st \notin Settled)

Stalled ==
  /\ job.st = "active" /\ run[job.owner].pc = "idle"
  /\ StalledAgain
  /\ UNCHANGED <<provider, row, run, wire, acks, bumps, del, revoked, used, unsure, twice>>

\* The lock expires under a run that lives (Redis away, event loop blocked);
\* bound: it is the only fault of its behaviour.
LockLost ==
  /\ job.st = "active" /\ run[job.owner].pc # "idle"
  /\ "lock" \in Faults /\ used = 0 /\ MaxFault > 0 /\ used' = MaxFault
  /\ StalledAgain
  /\ unsure' = unsure + 1 /\ twice' = TRUE
  /\ UNCHANGED <<provider, row, run, wire, acks, bumps, del, revoked>>

-----------------------------------------------------------------------------
(***************************************************************************)
(* process(), one action per await.                                        *)
(***************************************************************************)
\* Without the early return for a message already sent.
LookAgain(r) ==
  /\ run[r].pc = "look"
  /\ Goto(r, IF provider = "CLIENERA_CHAT" THEN "close" ELSE "mark")
  /\ UNCHANGED <<provider, row, job, wire, acks, bumps, del, revoked, used, unsure, twice, cut>>

Look(r) ==
  /\ run[r].pc = "look"
  /\ Goto(r, IF row.st \in Sent THEN "done"
             ELSE IF provider = "CLIENERA_CHAT" THEN "close" ELSE "mark")
  /\ UNCHANGED <<provider, row, job, wire, acks, bumps, del, revoked, used, unsure, twice, cut>>

CloseChat(r) ==
  /\ run[r].pc = "close"
  /\ row' = [row EXCEPT !.st = "SENT"]
  /\ Goto(r, "publish")
  /\ UNCHANGED <<provider, job, wire, acks, bumps, del, revoked, used, unsure, twice, cut>>

Mark(r) ==
  /\ run[r].pc = "mark"
  /\ row' = [row EXCEPT !.st = "PROCESSING"]
  /\ Goto(r, "send")
  /\ UNCHANGED <<provider, job, wire, acks, bumps, del, revoked, used, unsure, twice, cut>>

\* ensureConnected and sendMessage.
Send(r) ==
  /\ run[r].pc = "send"
  /\ wire' = Append(wire, "taken")
  /\ run' = [run EXCEPT ![r].pc = "store", ![r].copy = Len(wire) + 1]
  /\ UNCHANGED <<provider, row, job, acks, bumps, del, revoked, used, unsure, twice, cut>>

\* The line is down, the media is gone, the type is not supported.
SendFails(r) ==
  /\ run[r].pc = "send"
  /\ Goto(r, "catch")
  /\ UNCHANGED <<provider, row, job, wire, acks, bumps, del, revoked, used, unsure, twice, cut>>

\* SENT, but the row keeps the id it was created with.
StoreNoId(r) ==
  /\ run[r].pc = "store"
  /\ row' = [row EXCEPT !.st = "SENT"]
  /\ Goto(r, "publish")
  /\ UNCHANGED <<provider, job, wire, acks, bumps, del, revoked, used, unsure, twice, cut>>

Store(r) ==
  /\ run[r].pc = "store"
  /\ row' = [row EXCEPT !.st = "SENT", !.wa = run[r].copy]
  /\ Goto(r, "publish")
  /\ UNCHANGED <<provider, job, wire, acks, bumps, del, revoked, used, unsure, twice, cut>>

Publish(r) ==
  /\ run[r].pc = "publish"
  /\ Goto(r, "done")
  /\ UNCHANGED <<provider, row, job, wire, acks, bumps, del, revoked, used, unsure, twice, cut>>

\* The error is written down and not thrown again.
CatchSwallowed(r) ==
  /\ run[r].pc = "catch"
  /\ row' = [row EXCEPT !.st = IF run[r].made + 1 >= MaxAttempts THEN "FAILED" ELSE "QUEUED"]
  /\ Goto(r, "done")
  /\ UNCHANGED <<provider, job, wire, acks, bumps, del, revoked, used, unsure, twice, cut>>

\* The last attempt counted from one attempt too many.
CatchLate(r) ==
  /\ run[r].pc = "catch"
  /\ row' = [row EXCEPT !.st = IF run[r].made >= MaxAttempts THEN "FAILED" ELSE "QUEUED"]
  /\ Goto(r, "fail")
  /\ UNCHANGED <<provider, job, wire, acks, bumps, del, revoked, used, unsure, twice, cut>>

\* The catch block: FAILED on the last attempt, QUEUED before, and rethrow.
Catch(r) ==
  /\ run[r].pc = "catch"
  /\ row' = [row EXCEPT !.st = IF run[r].made + 1 >= MaxAttempts THEN "FAILED" ELSE "QUEUED"]
  /\ Goto(r, "fail")
  /\ UNCHANGED <<provider, job, wire, acks, bumps, del, revoked, used, unsure, twice, cut>>

\* The database fails: inside the try (store) the catch block runs, anywhere
\* else the exception leaves process() with the row as it is.
DbFails(r) ==
  /\ run[r].pc \in {"look", "close", "mark", "store", "catch"}
  /\ Fault("db")
  /\ Goto(r, IF run[r].pc = "store" THEN "catch" ELSE "fail")
  /\ unsure' = IF run[r].pc = "store" THEN unsure + 1 ELSE unsure
  /\ cut' = (cut \/ (run[r].pc # "store" /\ run[r].made + 1 >= MaxAttempts))
  /\ UNCHANGED <<provider, row, job, wire, acks, bumps, del, revoked, twice>>

\* Redis refuses the event of a message that was sent and recorded: the catch
\* block runs, and takes the message for one that was not sent.
PublishFails(r) ==
  /\ run[r].pc = "publish"
  /\ Fault("publish")
  /\ Goto(r, IF provider = "CLIENERA_CHAT" THEN "fail" ELSE "catch")
  /\ unsure' = unsure + 1
  /\ UNCHANGED <<provider, row, job, wire, acks, bumps, del, revoked, twice, cut>>

Crash(r) ==
  /\ run[r].pc # "idle"
  /\ Fault("crash")
  /\ run' = [run EXCEPT ![r] = Resting]
  /\ unsure' = IF run[r].pc = "store" \/ twice THEN unsure + 1 ELSE unsure
  /\ UNCHANGED <<provider, row, job, wire, acks, bumps, del, revoked, twice, cut>>

Process(r) ==
  \/ Look(r) \/ CloseChat(r) \/ Mark(r) \/ Send(r) \/ SendFails(r)
  \/ Store(r) \/ Publish(r) \/ Catch(r)

-----------------------------------------------------------------------------
(***************************************************************************)
(* Receipts.                                                               *)
(***************************************************************************)
\* WhatsApp accepts a copy, the phone of the contact gets it, or shows it.
Further(st) == CASE st = "taken" -> "SENT" [] st = "SENT" -> "DELIVERED" [] OTHER -> "READ"

Progress(c) ==
  /\ c \in 1..Len(wire) /\ wire[c] # "READ" /\ Cardinality(acks) < MaxAcks
  /\ wire' = [wire EXCEPT ![c] = Further(@)]
  /\ acks' = acks \cup {[copy |-> c, st |-> wire'[c]]}
  /\ UNCHANGED <<provider, row, job, run, bumps, del, revoked, used, unsure, twice, cut>>

\* The row is taken for the one of the latest copy.
AckLatest(a) ==
  /\ acks' = acks \ {a}
  /\ row' = IF row.wa # 0 THEN [row EXCEPT !.st = a.st] ELSE row
  /\ UNCHANGED <<provider, job, run, wire, bumps, del, revoked, used, unsure, twice, cut>>

\* messages.update: updateMany by waMessageId, whatever the status was; the
\* handlers of two events may write in either order.
Ack(a) ==
  /\ acks' = acks \ {a}
  /\ row' = IF row.wa = a.copy THEN [row EXCEPT !.st = a.st] ELSE row
  /\ UNCHANGED <<provider, job, run, wire, bumps, del, revoked, used, unsure, twice, cut>>

\* bumpMessageStatus: findMany ...
From(to) == IF to = "READ" THEN {"SENT", "DELIVERED"} ELSE {"SENT"}

BumpRead(to) ==
  /\ provider = "CLIENERA_CHAT" /\ row.st \in From(to)
  /\ bumps' = bumps \cup {to}
  /\ UNCHANGED <<provider, row, job, run, wire, acks, del, revoked, used, unsure, twice, cut>>

\* ... then updateMany by id.
BumpWrite(to) ==
  /\ bumps' = bumps \ {to}
  /\ row' = [row EXCEPT !.st = to]
  /\ UNCHANGED <<provider, job, run, wire, acks, del, revoked, used, unsure, twice, cut>>

-----------------------------------------------------------------------------
(***************************************************************************)
(* "Eliminar": the API checks and queues, the worker revokes and records.  *)
(***************************************************************************)
\* Without the check that the message was sent.
RequestDeleteEarly ==
  /\ provider = "BAILEYS" /\ del.pc = "none" /\ row.st # "none" /\ ~row.deleted
  /\ del' = [del EXCEPT !.pc = "queued"]
  /\ UNCHANGED <<provider, row, job, run, wire, acks, bumps, revoked, used, unsure, twice, cut>>

RequestDelete ==
  /\ provider = "BAILEYS" /\ del.pc = "none" /\ row.st \in Sent /\ ~row.deleted
  /\ del' = [del EXCEPT !.pc = "queued"]
  /\ UNCHANGED <<provider, row, job, run, wire, acks, bumps, revoked, used, unsure, twice, cut>>

DeleteLook ==
  /\ del.pc = "queued"
  /\ del' = [pc |-> "send", copy |-> row.wa]
  /\ UNCHANGED <<provider, row, job, run, wire, acks, bumps, revoked, used, unsure, twice, cut>>

DeleteSend ==
  /\ del.pc = "send"
  /\ \/ /\ revoked' = revoked \cup {del.copy}
        /\ del' = [del EXCEPT !.pc = "store"]
     \/ /\ revoked' = revoked
        /\ \E pc \in {"queued", "none"} : del' = [del EXCEPT !.pc = pc]
  /\ UNCHANGED <<provider, row, job, run, wire, acks, bumps, used, unsure, twice, cut>>

DeleteStore ==
  /\ del.pc = "store"
  /\ row' = [row EXCEPT !.deleted = TRUE]
  /\ del' = [del EXCEPT !.pc = "none"]
  /\ UNCHANGED <<provider, job, run, wire, acks, bumps, revoked, used, unsure, twice, cut>>

-----------------------------------------------------------------------------
Next ==
  \/ CreateMessage \/ Enqueue \/ EnqueueFails
  \/ \E r \in Runner : \/ Take(r) \/ Complete(r) \/ Fail(r) \/ Process(r)
                       \/ DbFails(r) \/ PublishFails(r) \/ Crash(r)
  \/ Stalled \/ LockLost
  \/ \E c \in 1..Len(wire) : Progress(c)
  \/ \E a \in acks : Ack(a)
  \/ \E to \in {"DELIVERED", "READ"} : BumpRead(to)
  \/ \E to \in bumps : BumpWrite(to)
  \/ RequestDelete \/ DeleteLook \/ DeleteSend \/ DeleteStore

Spec == Init /\ [][Next]_vars

\* Workers take jobs and run them on, and BullMQ looks for stalled jobs.
Fairness ==
  /\ WF_vars(Enqueue) /\ WF_vars(Stalled)
  /\ WF_vars(\E r \in Runner : Take(r) \/ Process(r) \/ Complete(r) \/ Fail(r))

FairSpec == Spec /\ Fairness

-----------------------------------------------------------------------------
(***************************************************************************)
(* Properties.                                                             *)
(***************************************************************************)
\* The contact gets the message once, and one time more at most for every
\* fault that loses the record of a copy: a crash or a database error between
\* sendMessage and its update, a publish refused after it, a lock lost, or a
\* crash after that.  The retries of a job by themselves never send twice
\* (lines 57 and 210-218).
CopiesExplained == Len(wire) <= 1 + unsure

\* What the panel and GET /messages/:id say of a WhatsApp message is true of
\* the copy the row points at: it was sent, it was delivered, it was read.
ReceiptsAreTrue ==
  (provider = "BAILEYS" /\ row.st \in Sent) =>
    /\ row.wa # 0
    /\ row.st = "DELIVERED" => wire[row.wa] \in {"DELIVERED", "READ"}
    /\ row.st = "READ" => wire[row.wa] = "READ"

\* A job BullMQ counts as completed never hides a message that was not sent,
\* unless the job was given to a second run behind the first one's back.
CompletedIsSent == job.st = "completed" /\ ~twice => row.st \in Sent

\* "Eliminar" takes every copy away from the contact when none was lost track of.
DeletedIsRevoked == row.deleted /\ unsure = 0 => 1..Len(wire) \subseteq revoked

\* A queued message does not stay QUEUED or PROCESSING: it ends SENT or FAILED,
\* unless the job itself ended behind the row's back, or ran twice at once.
Settles == (row.st # "none") ~> (row.st \in Settled \/ cut \/ twice)

\* "Sube el status de un lote de mensajes de una conversacion (nunca lo baja)"
\* (realtime.gateway.ts line 326).
NeverLowered == [][row.st = "READ" => row'.st = "READ"]_vars
=============================================================================
