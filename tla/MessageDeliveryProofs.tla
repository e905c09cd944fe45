------------------------ MODULE MessageDeliveryProofs ------------------------
(***************************************************************************)
(* Proofs about the delivery of one message, for any number of runs,       *)
(* attempts and faults.                                                    *)
(*                                                                         *)
(* A copy sent is a copy recorded, or one whose record was lost and        *)
(* counted.  While no lock was lost there is one run at a time, and the    *)
(* invariant follows it (Alone, Faultless).  A lock lost leaves two, the   *)
(* run that goes on and the one the job is given to: each may still send   *)
(* once, and TwoRuns counts how many of them may.                          *)
(***************************************************************************)
EXTENDS MessageDelivery, TLAPS

Live(r) == run[r].pc # "idle"
At(r, pcs) == run[r].pc \in pcs

\* What the job, the row and the kind of instance allow at all.
Bookkeeping ==
  /\ job.st \in {"none", "waiting", "active"} => job.made < MaxAttempts
  /\ job.owner # None <=> job.st = "active"
  /\ row.st = "none" => job.st = "none"
  /\ \A r \in Runner : At(r, {"store"}) => run[r].copy # 0
  /\ provider = "CLIENERA_CHAT" => wire = <<>> /\ \A r \in Runner : ~At(r, {"mark", "send", "store", "catch"})
  /\ provider = "BAILEYS" => bumps = {} /\ \A r \in Runner : ~At(r, {"close"})

\* One run at a time, and only the run that has it knows of the newest copy.
Alone ==
  ~twice =>
    /\ \A r \in Runner : Live(r) => job.st = "active" /\ job.owner = r
    /\ Len(wire) <= 1 + unsure
    /\ \A r \in Runner : At(r, {"mark", "send", "catch"}) => Len(wire) <= unsure
    /\ row.st \notin Sent /\ (\A r \in Runner : ~At(r, {"store"})) => Len(wire) <= unsure
    /\ \A r \in Runner : At(r, {"publish", "done"}) => row.st \in Sent
    /\ job.st = "completed" => row.st \in Sent

\* Before any fault a run that is still to send, or has failed to, has sent nothing.
Faultless ==
  used = 0 =>
    /\ ~twice
    /\ \A r \in Runner : At(r, {"look", "mark", "send", "catch", "fail"}) => wire = <<>>
    /\ job.st \in {"none", "waiting"} => wire = <<>>
    /\ job.st = "active" => Live(job.owner)

\* The run without the lock, and the job, may each send one more copy.
LoserMaySend == \E r \in Runner : r # job.owner /\ At(r, {"look", "mark", "send"})
JobMaySend ==
  job.st = "waiting" \/ (job.st = "active" /\ At(job.owner, {"look", "mark", "send", "catch", "fail"}))
TwoRuns ==
  twice =>
    /\ used = MaxFault /\ unsure = 1 /\ job.st # "none"
    /\ job.st = "active" => Live(job.owner)
    /\ \A r, s \in Runner : r # job.owner /\ s # job.owner /\ Live(r) /\ Live(s) => r = s
    /\ Len(wire) <= 2
    /\ LoserMaySend \/ JobMaySend => Len(wire) <= 1
    /\ LoserMaySend /\ JobMaySend => Len(wire) = 0

\* A receipt on its way says no more than its copy has reached.
Receipts ==
  /\ \A a \in acks : /\ a.st = "DELIVERED" => wire[a.copy] \in {"DELIVERED", "READ"}
                     /\ a.st = "READ" => wire[a.copy] = "READ"
  /\ ReceiptsAreTrue

\* What is being deleted was sent, and what was deleted was revoked.
Deletion ==
  /\ del.pc # "none" => row.wa # 0
  /\ del.pc \in {"send", "store"} => del.copy # 0
  /\ del.pc = "store" => del.copy \in revoked
  /\ row.deleted => \E c \in revoked : c # 0

IInv == TypeOK /\ Bookkeeping /\ Alone /\ Faultless /\ TwoRuns /\ Receipts /\ Deletion

-----------------------------------------------------------------------------
(* Copies: one more, or one that got further. *)

LEMMA OneMoreCopy ==
  ASSUME NEW w \in Seq(Reached)
  PROVE  /\ Append(w, "taken") \in Seq(Reached)
         /\ Len(Append(w, "taken")) = Len(w) + 1
         /\ \A c \in 1..Len(w) : Append(w, "taken")[c] = w[c]
  BY DEF Reached

LEMMA FurtherCopy ==
  ASSUME NEW w \in Seq(Reached), NEW c \in 1..Len(w), w[c] # "READ"
  PROVE  LET v == [w EXCEPT ![c] = Further(@)]
         IN  /\ v \in Seq(Reached) /\ Len(v) = Len(w)
             /\ v[c] \in Sent
             /\ w[c] \in Sent => v[c] # "SENT"
             /\ \A d \in 1..Len(w) : d # c => v[d] = w[d]
  <1>1. w[c] \in Reached
    OBVIOUS
  <1>2. Further(w[c]) \in Sent /\ (w[c] \in Sent => Further(w[c]) # "SENT")
    BY <1>1 DEF Further, Reached, Sent
  <1> QED
    BY <1>2 DEF Reached

(***************************************************************************)
(* Types.                                                                  *)
(***************************************************************************)
LEMMA TypeInit ==
  ASSUME Init PROVE TypeOK
  <1>1. wire \in Seq(Reached) /\ Len(wire) = 0
    BY DEF Init
  <1>2. run \in [Runner -> [pc: Pc, made: 0..(MaxAttempts - 1), copy: 0..Len(wire)]]
    BY <1>1, DeliveryAssumption DEF Init, Resting, Pc
  <1>3. row \in [st: {"none", "QUEUED", "PROCESSING"} \cup Settled, wa: 0..Len(wire), deleted: BOOLEAN]
    BY <1>1 DEF Init
  <1>4. job \in [st: {"none", "waiting", "active", "completed", "failed"},
                made: 0..MaxAttempts, stalled: 0..MaxStalled, owner: Runner \cup {None}]
    BY DeliveryAssumption DEF Init
  <1>5. /\ provider \in Providers /\ acks = {} /\ bumps = {} /\ revoked = {}
        /\ del = [pc |-> "none", copy |-> 0]
        /\ used = 0 /\ unsure = 0 /\ twice = FALSE /\ cut = FALSE
    BY DEF Init
  <1>6. del \in [pc: {"none", "queued", "send", "store"}, copy: 0..Len(wire)]
    BY <1>1, <1>5
  <1>7. used \in 0..MaxFault /\ unsure \in 0..used
    BY <1>5, DeliveryAssumption
  <1> QED
    BY <1>1, <1>2, <1>3, <1>4, <1>5, <1>6, <1>7 DEF TypeOK

\* A run that moves on.
LEMMA Goes ==
  ASSUME TypeOK, NEW r \in Runner, NEW pc \in Pc, Goto(r, pc)
  PROVE  /\ run' \in [Runner -> [pc: Pc, made: 0..(MaxAttempts - 1), copy: 0..Len(wire)]]
         /\ run'[r].pc = pc /\ run'[r].copy = run[r].copy /\ run'[r].made = run[r].made
         /\ \A s \in Runner : s # r => run'[s] = run[s]
  BY DEF TypeOK, Goto

\* A run that ends.
LEMMA Rests ==
  ASSUME TypeOK, NEW r \in Runner, run' = [run EXCEPT ![r] = Resting]
  PROVE  /\ run' \in [Runner -> [pc: Pc, made: 0..(MaxAttempts - 1), copy: 0..Len(wire)]]
         /\ run'[r].pc = "idle"
         /\ \A s \in Runner : s # r => run'[s] = run[s]
  <1>1. Resting \in [pc: Pc, made: 0..(MaxAttempts - 1), copy: 0..Len(wire)] /\ Resting.pc = "idle"
    BY DeliveryAssumption DEF TypeOK, Resting, Pc
  <1> QED
    BY <1>1 DEF TypeOK

LEMMA TypeStep ==
  ASSUME TypeOK, Bookkeeping, Faultless, [Next]_vars
  PROVE  TypeOK'
  <1>1. CASE CreateMessage
    <2>1. row' \in [st: {"none", "QUEUED", "PROCESSING"} \cup Settled, wa: 0..Len(wire), deleted: BOOLEAN]
      BY <1>1 DEF CreateMessage, TypeOK, Settled, Sent
    <2> QED
      BY <1>1, <2>1, DeliveryAssumption DEF CreateMessage, TypeOK
  <1>2. CASE Enqueue
    <2>1. job' \in [st: {"none", "waiting", "active", "completed", "failed"},
                  made: 0..MaxAttempts, stalled: 0..MaxStalled, owner: Runner \cup {None}]
      BY <1>2, DeliveryAssumption DEF Enqueue, TypeOK
    <2> QED
      BY <1>2, <2>1, DeliveryAssumption DEF Enqueue, TypeOK
  <1>3. CASE EnqueueFails
    BY <1>3, DeliveryAssumption DEF EnqueueFails, TypeOK, Fault
  <1>4. ASSUME NEW r \in Runner, Take(r)
        PROVE  TypeOK'
    <2>1. run' \in [Runner -> [pc: Pc, made: 0..(MaxAttempts - 1), copy: 0..Len(wire)]]
      BY <1>4, DeliveryAssumption DEF Take, TypeOK, Pc, Bookkeeping
    <2>2. job' \in [st: {"none", "waiting", "active", "completed", "failed"},
                  made: 0..MaxAttempts, stalled: 0..MaxStalled, owner: Runner \cup {None}]
      BY <1>4, DeliveryAssumption DEF Take, Bookkeeping, TypeOK
    <2> QED
      BY <1>4, <2>1, <2>2, DeliveryAssumption DEF Take, TypeOK
  <1>5. ASSUME NEW r \in Runner, Complete(r)
        PROVE  TypeOK'
    <2>1. run' \in [Runner -> [pc: Pc, made: 0..(MaxAttempts - 1), copy: 0..Len(wire)]]
      BY <1>5, Rests DEF Complete
    <2>2. job' \in [st: {"none", "waiting", "active", "completed", "failed"},
                  made: 0..MaxAttempts, stalled: 0..MaxStalled, owner: Runner \cup {None}]
      BY <1>5, DeliveryAssumption DEF Complete, Resting, TypeOK
    <2> QED
      BY <1>5, <2>1, <2>2, DeliveryAssumption DEF Complete, TypeOK
  <1>6. ASSUME NEW r \in Runner, Fail(r)
        PROVE  TypeOK'
    <2>1. run' \in [Runner -> [pc: Pc, made: 0..(MaxAttempts - 1), copy: 0..Len(wire)]]
      BY <1>6, Rests DEF Fail
    <2>2. job' \in [st: {"none", "waiting", "active", "completed", "failed"},
                  made: 0..MaxAttempts, stalled: 0..MaxStalled, owner: Runner \cup {None}]
      <3>1. CASE job.owner # r
        BY <1>6, <3>1 DEF Fail, TypeOK
      <3>2. CASE job.owner = r
        <4>1. job.made \in 0..MaxAttempts /\ job.made < MaxAttempts
          BY <3>2, DeliveryAssumption DEF Bookkeeping, TypeOK
        <4>2. job.made + 1 \in 0..MaxAttempts
          BY <4>1, DeliveryAssumption
        <4> QED
          BY <1>6, <3>2, <4>2 DEF Fail, TypeOK
      <3> QED
        BY <3>1, <3>2
    <2> QED
      BY <1>6, <2>1, <2>2, DeliveryAssumption DEF Fail, TypeOK
  <1>7. ASSUME NEW r \in Runner, Look(r)
        PROVE  TypeOK'
    <2>1. run' \in [Runner -> [pc: Pc, made: 0..(MaxAttempts - 1), copy: 0..Len(wire)]]
      BY <1>7, Goes DEF Look, Pc
    <2> QED
      BY SMTT(30), <1>7, <2>1, DeliveryAssumption DEF Look, TypeOK
  <1>8. ASSUME NEW r \in Runner, CloseChat(r)
        PROVE  TypeOK'
    <2>1. run' \in [Runner -> [pc: Pc, made: 0..(MaxAttempts - 1), copy: 0..Len(wire)]]
      BY <1>8, Goes DEF CloseChat, Pc
    <2>2. row' \in [st: {"none", "QUEUED", "PROCESSING"} \cup Settled, wa: 0..Len(wire), deleted: BOOLEAN]
      BY <1>8 DEF CloseChat, TypeOK, Settled, Sent
    <2> QED
      BY SMTT(30), <1>8, <2>1, <2>2, DeliveryAssumption DEF CloseChat, TypeOK
  <1>9. ASSUME NEW r \in Runner, Mark(r)
        PROVE  TypeOK'
    <2>1. run' \in [Runner -> [pc: Pc, made: 0..(MaxAttempts - 1), copy: 0..Len(wire)]]
      BY <1>9, Goes DEF Mark, Pc
    <2>2. row' \in [st: {"none", "QUEUED", "PROCESSING"} \cup Settled, wa: 0..Len(wire), deleted: BOOLEAN]
      BY <1>9 DEF Mark, TypeOK, Settled, Sent
    <2> QED
      BY SMTT(30), <1>9, <2>1, <2>2, DeliveryAssumption DEF Mark, TypeOK
  <1>10. ASSUME NEW r \in Runner, Send(r)
        PROVE  TypeOK'
    <2>1. run' \in [Runner -> [pc: Pc, made: 0..(MaxAttempts - 1), copy: 0..Len(wire')]]
      BY SMTT(30), <1>10, OneMoreCopy DEF Send, TypeOK, Pc
    <2>2. wire' \in Seq(Reached) /\ Len(wire) \in Nat /\ Len(wire') = Len(wire) + 1
      BY <1>10, OneMoreCopy DEF Send, TypeOK
    <2>3. 0..Len(wire) \subseteq 0..Len(wire') /\ 1..Len(wire) \subseteq 1..Len(wire')
      BY <2>2
    <2>4. row' \in [st: {"none", "QUEUED", "PROCESSING"} \cup Settled, wa: 0..Len(wire'), deleted: BOOLEAN]
      BY <1>10, <2>3 DEF Send, TypeOK
    <2>5. acks' \subseteq [copy: 1..Len(wire'), st: Sent]
      BY <1>10, <2>3 DEF Send, TypeOK
    <2>6. del' \in [pc: {"none", "queued", "send", "store"}, copy: 0..Len(wire')]
      BY <1>10, <2>3 DEF Send, TypeOK
    <2>7. revoked' \subseteq 0..Len(wire')
      BY <1>10, <2>3 DEF Send, TypeOK
    <2> QED
      BY <1>10, <2>1, <2>2, <2>4, <2>5, <2>6, <2>7 DEF Send, TypeOK
  <1>11. ASSUME NEW r \in Runner, SendFails(r)
        PROVE  TypeOK'
    <2>1. run' \in [Runner -> [pc: Pc, made: 0..(MaxAttempts - 1), copy: 0..Len(wire)]]
      BY <1>11, Goes DEF SendFails, Pc
    <2> QED
      BY SMTT(30), <1>11, <2>1, DeliveryAssumption DEF SendFails, TypeOK
  <1>12. ASSUME NEW r \in Runner, Store(r)
        PROVE  TypeOK'
    <2>1. run' \in [Runner -> [pc: Pc, made: 0..(MaxAttempts - 1), copy: 0..Len(wire)]]
      BY <1>12, Goes DEF Store, Pc
    <2>2. row' \in [st: {"none", "QUEUED", "PROCESSING"} \cup Settled, wa: 0..Len(wire), deleted: BOOLEAN]
      BY <1>12 DEF Store, TypeOK, Settled, Sent
    <2> QED
      BY SMTT(30), <1>12, <2>1, <2>2, DeliveryAssumption DEF Store, TypeOK
  <1>13. ASSUME NEW r \in Runner, Publish(r)
        PROVE  TypeOK'
    <2>1. run' \in [Runner -> [pc: Pc, made: 0..(MaxAttempts - 1), copy: 0..Len(wire)]]
      BY <1>13, Goes DEF Publish, Pc
    <2> QED
      BY SMTT(30), <1>13, <2>1, DeliveryAssumption DEF Publish, TypeOK
  <1>14. ASSUME NEW r \in Runner, Catch(r)
        PROVE  TypeOK'
    <2>1. run' \in [Runner -> [pc: Pc, made: 0..(MaxAttempts - 1), copy: 0..Len(wire)]]
      BY <1>14, Goes DEF Catch, Pc
    <2>2. row' \in [st: {"none", "QUEUED", "PROCESSING"} \cup Settled, wa: 0..Len(wire), deleted: BOOLEAN]
      BY <1>14 DEF Catch, TypeOK, Settled, Sent
    <2> QED
      BY <1>14, <2>1, <2>2, DeliveryAssumption DEF Catch, TypeOK
  <1>15. ASSUME NEW r \in Runner, DbFails(r)
        PROVE  TypeOK'
    <2>1. run' \in [Runner -> [pc: Pc, made: 0..(MaxAttempts - 1), copy: 0..Len(wire)]]
      BY <1>15, Goes DEF DbFails, Fault, Pc
    <2> QED
      BY SMTT(30), <1>15, <2>1, DeliveryAssumption DEF DbFails, TypeOK, Fault
  <1>16. ASSUME NEW r \in Runner, PublishFails(r)
        PROVE  TypeOK'
    <2>1. run' \in [Runner -> [pc: Pc, made: 0..(MaxAttempts - 1), copy: 0..Len(wire)]]
      BY <1>16, Goes DEF PublishFails, Fault, Pc
    <2> QED
      BY SMTT(30), <1>16, <2>1, DeliveryAssumption DEF PublishFails, TypeOK, Fault
  <1>17. ASSUME NEW r \in Runner, Crash(r)
        PROVE  TypeOK'
    <2>1. run' \in [Runner -> [pc: Pc, made: 0..(MaxAttempts - 1), copy: 0..Len(wire)]]
      BY <1>17, Rests DEF Crash
    <2> QED
      BY SMTT(30), <1>17, <2>1, DeliveryAssumption DEF Crash, TypeOK, Fault
  <1>18. CASE Stalled
    <2>1. job' \in [st: {"none", "waiting", "active", "completed", "failed"},
                  made: 0..MaxAttempts, stalled: 0..MaxStalled, owner: Runner \cup {None}]
      <3>1. CASE job.stalled < MaxStalled
        <4>1. job.stalled + 1 \in 0..MaxStalled
          BY <3>1, DeliveryAssumption DEF TypeOK
        <4> QED
          BY <1>18, <3>1, <4>1 DEF Stalled, StalledAgain, TypeOK
      <3>2. CASE ~(job.stalled < MaxStalled)
        BY <1>18, <3>2 DEF Stalled, StalledAgain, TypeOK
      <3> QED
        BY <3>1, <3>2
    <2> QED
      BY <1>18, <2>1, DeliveryAssumption DEF Stalled, TypeOK, StalledAgain
  <1>19. CASE LockLost
    <2>1. job' \in [st: {"none", "waiting", "active", "completed", "failed"},
                  made: 0..MaxAttempts, stalled: 0..MaxStalled, owner: Runner \cup {None}]
      <3>1. CASE job.stalled < MaxStalled
        <4>1. job.stalled + 1 \in 0..MaxStalled
          BY <3>1, DeliveryAssumption DEF TypeOK
        <4> QED
          BY <1>19, <3>1, <4>1 DEF LockLost, StalledAgain, TypeOK
      <3>2. CASE ~(job.stalled < MaxStalled)
        BY <1>19, <3>2 DEF LockLost, StalledAgain, TypeOK
      <3> QED
        BY <3>1, <3>2
    <2>2. unsure = 0 /\ used' \in 0..MaxFault /\ unsure' \in 0..used'
      BY <1>19, DeliveryAssumption DEF LockLost, TypeOK
    <2>3. cut' \in BOOLEAN /\ twice' \in BOOLEAN
      BY <1>19 DEF LockLost, StalledAgain, TypeOK
    <2> QED
      BY <1>19, <2>1, <2>2, <2>3 DEF LockLost, TypeOK
  <1>20. ASSUME NEW c \in 1..Len(wire), Progress(c)
        PROVE  TypeOK'
    BY <1>20, FurtherCopy, DeliveryAssumption DEF Progress, TypeOK
  <1>21. ASSUME NEW a \in acks, Ack(a)
        PROVE  TypeOK'
    <2>1. row' \in [st: {"none", "QUEUED", "PROCESSING"} \cup Settled, wa: 0..Len(wire), deleted: BOOLEAN]
      BY <1>21 DEF Ack, TypeOK, Settled, Sent
    <2> QED
      BY <1>21, <2>1, DeliveryAssumption DEF Ack, TypeOK
  <1>22. ASSUME NEW to \in {"DELIVERED", "READ"}, BumpRead(to)
        PROVE  TypeOK'
    BY <1>22, DeliveryAssumption DEF BumpRead, TypeOK
  <1>23. ASSUME NEW b \in bumps, BumpWrite(b)
        PROVE  TypeOK'
    <2>1. row' \in [st: {"none", "QUEUED", "PROCESSING"} \cup Settled, wa: 0..Len(wire), deleted: BOOLEAN]
      BY <1>23 DEF BumpWrite, TypeOK, Settled, Sent
    <2> QED
      BY <1>23, <2>1, DeliveryAssumption DEF BumpWrite, TypeOK
  <1>24. CASE RequestDelete
    BY <1>24, DeliveryAssumption DEF RequestDelete, TypeOK
  <1>25. CASE DeleteLook
    BY <1>25, DeliveryAssumption DEF DeleteLook, TypeOK
  <1>26. CASE DeleteSend
    BY SMTT(30), <1>26, DeliveryAssumption DEF DeleteSend, TypeOK
  <1>27. CASE DeleteStore
    <2>1. row' \in [st: {"none", "QUEUED", "PROCESSING"} \cup Settled, wa: 0..Len(wire), deleted: BOOLEAN]
      BY <1>27 DEF DeleteStore, TypeOK, Settled, Sent
    <2> QED
      BY <1>27, <2>1, DeliveryAssumption DEF DeleteStore, TypeOK
  <1>28. CASE UNCHANGED vars
    BY <1>28 DEF vars, TypeOK
  <1> QED
    BY <1>1, <1>2, <1>3, <1>4, <1>5, <1>6, <1>7, <1>8, <1>9, <1>10, <1>11, <1>12, <1>13, <1>14, <1>15, <1>16, <1>17, <1>18, <1>19, <1>20, <1>21, <1>22, <1>23, <1>24, <1>25, <1>26, <1>27, <1>28 DEF Next, Process

-----------------------------------------------------------------------------
(***************************************************************************)
(* What each action does, field by field.                                  *)
(***************************************************************************)
Others(r) == \A s \in Runner : s # r => run'[s] = run[s]

LEMMA RowSays ==
  ASSUME TypeOK, NEW st, row' = [row EXCEPT !.st = st]
  PROVE  row'.st = st /\ row'.wa = row.wa /\ row'.deleted = row.deleted
  BY DEF TypeOK

LEMMA TakeDoes ==
  ASSUME TypeOK, NEW r \in Runner, Take(r)
  PROVE  /\ job.st = "waiting" /\ run[r].pc = "idle"
         /\ job'.st = "active" /\ job'.owner = r /\ job'.made = job.made
         /\ run'[r].pc = "look" /\ run'[r].copy = 0 /\ Others(r)
         /\ UNCHANGED <<provider, row, wire, acks, bumps, del, revoked, used, unsure, twice, cut>>
  BY DEF TypeOK, Take, Others

LEMMA CompleteDoes ==
  ASSUME TypeOK, NEW r \in Runner, Complete(r)
  PROVE  /\ run[r].pc = "done" /\ run'[r].pc = "idle" /\ Others(r)
         /\ job.owner = r => job'.st = "completed" /\ job'.owner = None /\ job'.made = job.made
         /\ job.owner # r => job' = job
         /\ UNCHANGED <<provider, row, wire, acks, bumps, del, revoked, used, unsure, twice, cut>>
  <1>1. run'[r].pc = "idle" /\ Others(r)
    BY Rests DEF Complete, Others
  <1> QED
    BY <1>1 DEF TypeOK, Complete

LEMMA FailDoes ==
  ASSUME TypeOK, NEW r \in Runner, Fail(r)
  PROVE  /\ run[r].pc = "fail" /\ run'[r].pc = "idle" /\ Others(r)
         /\ job.owner = r => /\ job'.made = job.made + 1 /\ job'.owner = None
                             /\ job'.st = IF job.made + 1 >= MaxAttempts THEN "failed" ELSE "waiting"
         /\ job.owner # r => job' = job
         /\ UNCHANGED <<provider, row, wire, acks, bumps, del, revoked, used, unsure, twice, cut>>
  <1>1. run'[r].pc = "idle" /\ Others(r)
    BY Rests DEF Fail, Others
  <1>2. CASE job.owner = r
    <2>1. job' = [job EXCEPT !.made = job.made + 1, !.owner = None,
                             !.st = IF job.made + 1 >= MaxAttempts THEN "failed" ELSE "waiting"]
      BY <1>2 DEF Fail
    <2>2. /\ job'.made = job.made + 1 /\ job'.owner = None
          /\ job'.st = IF job.made + 1 >= MaxAttempts THEN "failed" ELSE "waiting"
      BY <2>1 DEF TypeOK
    <2> QED
      BY <1>1, <1>2, <2>2 DEF Fail
  <1>3. CASE job.owner # r
    BY <1>1, <1>3 DEF Fail
  <1> QED
    BY <1>2, <1>3

LEMMA SendDoes ==
  ASSUME TypeOK, NEW r \in Runner, Send(r)
  PROVE  /\ run[r].pc = "send" /\ run'[r].pc = "store" /\ run'[r].copy = Len(wire) + 1 /\ Others(r)
         /\ Len(wire') = Len(wire) + 1 /\ \A c \in 1..Len(wire) : wire'[c] = wire[c]
         /\ UNCHANGED <<provider, row, job, acks, bumps, del, revoked, used, unsure, twice, cut>>
  <1>1. Len(wire') = Len(wire) + 1 /\ \A c \in 1..Len(wire) : wire'[c] = wire[c]
    BY OneMoreCopy DEF Send, TypeOK
  <1>2. run'[r].pc = "store" /\ run'[r].copy = Len(wire) + 1 /\ Others(r)
    BY DEF Send, TypeOK, Others
  <1> QED
    BY <1>1, <1>2 DEF Send

LEMMA StoreDoes ==
  ASSUME TypeOK, NEW r \in Runner, Store(r)
  PROVE  /\ run[r].pc = "store" /\ run'[r].pc = "publish" /\ Others(r)
         /\ row'.st = "SENT" /\ row'.wa = run[r].copy /\ row'.deleted = row.deleted
         /\ UNCHANGED <<provider, job, wire, acks, bumps, del, revoked, used, unsure, twice, cut>>
  <1>1. run'[r].pc = "publish" /\ Others(r)
    BY Goes DEF Store, Others, Pc
  <1>2. row'.st = "SENT" /\ row'.wa = run[r].copy /\ row'.deleted = row.deleted
    BY DEF Store, TypeOK
  <1> QED
    BY <1>1, <1>2 DEF Store

\* A job without its lock: again, or failed.
LEMMA StalledDoes ==
  ASSUME TypeOK, StalledAgain
  PROVE  job'.made = job.made /\ job'.owner = None /\ job'.st \in {"waiting", "failed"}
  BY DEF TypeOK, StalledAgain

\* A copy that got further keeps what is said of it.
LEMMA ProgressDoes ==
  ASSUME TypeOK, NEW c \in 1..Len(wire), Progress(c)
  PROVE  /\ Len(wire') = Len(wire) /\ wire'[c] \in Sent
         /\ acks' = acks \cup {[copy |-> c, st |-> wire'[c]]}
         /\ \A d \in 1..Len(wire) : wire[d] \in {"DELIVERED", "READ"} => wire'[d] \in {"DELIVERED", "READ"}
         /\ \A d \in 1..Len(wire) : wire[d] = "READ" => wire'[d] = "READ"
  <1>1. /\ Len(wire') = Len(wire) /\ wire'[c] \in Sent
        /\ wire[c] \in Sent => wire'[c] # "SENT"
        /\ \A d \in 1..Len(wire) : d # c => wire'[d] = wire[d]
    BY FurtherCopy DEF Progress, TypeOK
  <1> QED
    BY <1>1 DEF Progress, Sent

LEMMA Moves ==
  ASSUME TypeOK, NEW r \in Runner, NEW pc \in Pc, Goto(r, pc)
  PROVE  run'[r].pc = pc /\ run'[r].copy = run[r].copy /\ Others(r)
  BY Goes DEF Others

\* The numbers, and who may own the job.
LEMMA Numbers ==
  ASSUME TypeOK
  PROVE  /\ Len(wire) \in Nat /\ used \in Nat /\ unsure \in Nat /\ unsure <= used /\ used <= MaxFault
         /\ job.made \in Nat /\ job.owner \in Runner \cup {None} /\ None \notin Runner
         /\ MaxFault \in Nat /\ MaxAttempts \in Nat /\ MaxAttempts > 0
         /\ twice \in BOOLEAN /\ \A r \in Runner : run[r].made \in Nat /\ run[r].copy \in Nat
  BY DeliveryAssumption DEF TypeOK

LEMMA AckDoes ==
  ASSUME TypeOK, NEW a \in acks, Ack(a)
  PROVE  /\ a.st \in Sent /\ a.copy \in 1..Len(wire) /\ acks' \subseteq acks
         /\ row'.wa = row.wa /\ row'.deleted = row.deleted
         /\ row'.st = IF row.wa = a.copy THEN a.st ELSE row.st
         /\ UNCHANGED <<provider, job, run, wire, bumps, del, revoked, used, unsure, twice, cut>>
  BY RowSays DEF Ack, TypeOK

LEMMA BumpWriteDoes ==
  ASSUME TypeOK, NEW b \in bumps, BumpWrite(b)
  PROVE  /\ row'.st \in Sent /\ row'.wa = row.wa /\ row'.deleted = row.deleted /\ bumps' \subseteq bumps
         /\ UNCHANGED <<provider, job, run, wire, acks, del, revoked, used, unsure, twice, cut>>
  BY RowSays DEF BumpWrite, TypeOK, Sent

-----------------------------------------------------------------------------
(***************************************************************************)
(* The parts of the invariant, action by action.                           *)
(***************************************************************************)
\* The job, the row and the kind of instance.
LEMMA BookkeepingStep ==
  ASSUME TypeOK, TypeOK', Bookkeeping, [Next]_vars
  PROVE  Bookkeeping'
  <1>1. CASE CreateMessage
    BY <1>1, RowSays, Numbers DEF CreateMessage, Bookkeeping, At
  <1>2. CASE Enqueue
    BY <1>2, Numbers DEF Enqueue, Bookkeeping, At, TypeOK
  <1>3. CASE EnqueueFails
    BY <1>3, Numbers DEF EnqueueFails, Fault, Bookkeeping, At
  <1>4. ASSUME NEW r \in Runner, Take(r)
        PROVE  Bookkeeping'
    BY <1>4, TakeDoes, Numbers DEF Others, Bookkeeping, At
  <1>5. ASSUME NEW r \in Runner, Complete(r)
        PROVE  Bookkeeping'
    BY <1>5, CompleteDoes, Numbers DEF Others, Bookkeeping, At
  <1>6. ASSUME NEW r \in Runner, Fail(r)
        PROVE  Bookkeeping'
    BY <1>6, FailDoes, Numbers DEF Others, Bookkeeping, At
  <1>7. ASSUME NEW r \in Runner, Look(r)
        PROVE  Bookkeeping'
    BY <1>7, Moves, Numbers DEF Look, Pc, Others, Bookkeeping, At
  <1>8. ASSUME NEW r \in Runner, CloseChat(r)
        PROVE  Bookkeeping'
    BY <1>8, Moves, RowSays, Numbers DEF CloseChat, Pc, Others, Bookkeeping, At
  <1>9. ASSUME NEW r \in Runner, Mark(r)
        PROVE  Bookkeeping'
    BY <1>9, Moves, RowSays, Numbers DEF Mark, Pc, Others, Bookkeeping, At
  <1>10. ASSUME NEW r \in Runner, Send(r)
        PROVE  Bookkeeping'
    BY <1>10, SendDoes, Numbers DEF Others, Bookkeeping, At
  <1>11. ASSUME NEW r \in Runner, SendFails(r)
        PROVE  Bookkeeping'
    BY <1>11, Moves, Numbers DEF SendFails, Pc, Others, Bookkeeping, At
  <1>12. ASSUME NEW r \in Runner, Store(r)
        PROVE  Bookkeeping'
    BY <1>12, StoreDoes, Numbers DEF Others, Bookkeeping, At
  <1>13. ASSUME NEW r \in Runner, Publish(r)
        PROVE  Bookkeeping'
    BY <1>13, Moves, Numbers DEF Publish, Pc, Others, Bookkeeping, At
  <1>14. ASSUME NEW r \in Runner, Catch(r)
        PROVE  Bookkeeping'
    BY <1>14, Moves, RowSays, Numbers DEF Catch, Pc, Others, Bookkeeping, At
  <1>15. ASSUME NEW r \in Runner, DbFails(r)
        PROVE  Bookkeeping'
    BY <1>15, Moves, Numbers DEF DbFails, Fault, Pc, Others, Bookkeeping, At
  <1>16. ASSUME NEW r \in Runner, PublishFails(r)
        PROVE  Bookkeeping'
    BY <1>16, Moves, Numbers DEF PublishFails, Fault, Pc, Others, Bookkeeping, At
  <1>17. ASSUME NEW r \in Runner, Crash(r)
        PROVE  Bookkeeping'
    BY <1>17, Rests, Numbers DEF Crash, Fault, Others, Bookkeeping, At
  <1>18. CASE Stalled
    BY <1>18, StalledDoes, Numbers DEF Stalled, Bookkeeping, At
  <1>19. CASE LockLost
    BY <1>19, StalledDoes, Numbers DEF LockLost, Bookkeeping, At
  <1>20. ASSUME NEW c \in 1..Len(wire), Progress(c)
        PROVE  Bookkeeping'
    BY <1>20, ProgressDoes, Numbers DEF Progress, Bookkeeping, At
  <1>21. ASSUME NEW a \in acks, Ack(a)
        PROVE  Bookkeeping'
    BY <1>21, AckDoes, Numbers DEF Bookkeeping, At, Sent
  <1>22. ASSUME NEW to \in {"DELIVERED", "READ"}, BumpRead(to)
        PROVE  Bookkeeping'
    BY <1>22, Numbers DEF BumpRead, Bookkeeping, At
  <1>23. ASSUME NEW b \in bumps, BumpWrite(b)
        PROVE  Bookkeeping'
    BY <1>23, BumpWriteDoes, Numbers DEF Bookkeeping, At, Sent
  <1>24. CASE RequestDelete
    BY <1>24, Numbers DEF RequestDelete, Bookkeeping, At, TypeOK
  <1>25. CASE DeleteLook
    BY <1>25, Numbers DEF DeleteLook, Bookkeeping, At, TypeOK
  <1>26. CASE DeleteSend
    BY <1>26, Numbers DEF DeleteSend, Bookkeeping, At, TypeOK
  <1>27. CASE DeleteStore
    BY <1>27, Numbers DEF DeleteStore, Bookkeeping, At, TypeOK
  <1>28. CASE UNCHANGED vars
    BY <1>28 DEF vars, Bookkeeping, At
  <1> QED
    BY <1>1, <1>2, <1>3, <1>4, <1>5, <1>6, <1>7, <1>8, <1>9, <1>10, <1>11, <1>12, <1>13, <1>14, <1>15, <1>16, <1>17, <1>18, <1>19, <1>20, <1>21, <1>22, <1>23, <1>24, <1>25, <1>26, <1>27, <1>28 DEF Next, Process

\* One run at a time: a run that is not counted among the faults sends nothing
\* before the run that has the job, and a crash between send and store counts.
LEMMA AloneStep ==
  ASSUME TypeOK, TypeOK', Bookkeeping, Alone, Faultless, [Next]_vars
  PROVE  Alone'
  <1>1. CASE CreateMessage
    BY <1>1, RowSays, Numbers DEF CreateMessage, Alone, Live, At, Sent, Bookkeeping, Faultless
  <1>2. CASE Enqueue
    BY <1>2, Numbers DEF Enqueue, Alone, Live, At, Sent, Bookkeeping, Faultless, TypeOK
  <1>3. CASE EnqueueFails
    BY <1>3, Numbers DEF EnqueueFails, Fault, Alone, Live, At, Sent, Bookkeeping, Faultless
  <1>4. ASSUME NEW r \in Runner, Take(r)
        PROVE  Alone'
    BY <1>4, TakeDoes, Numbers DEF Others, Alone, Live, At, Sent, Bookkeeping, Faultless
  <1>5. ASSUME NEW r \in Runner, Complete(r)
        PROVE  Alone'
    BY <1>5, CompleteDoes, Numbers DEF Others, Alone, Live, At, Sent, Bookkeeping, Faultless
  <1>6. ASSUME NEW r \in Runner, Fail(r)
        PROVE  Alone'
    BY <1>6, FailDoes, Numbers DEF Others, Alone, Live, At, Sent, Bookkeeping, Faultless
  <1>7. ASSUME NEW r \in Runner, Look(r)
        PROVE  Alone'
    BY <1>7, Moves, Numbers DEF Look, Pc, Others, Alone, Live, At, Sent, Bookkeeping, Faultless
  <1>8. ASSUME NEW r \in Runner, CloseChat(r)
        PROVE  Alone'
    BY <1>8, Moves, RowSays, Numbers DEF CloseChat, Pc, Others, Alone, Live, At, Sent, Bookkeeping, Faultless
  <1>9. ASSUME NEW r \in Runner, Mark(r)
        PROVE  Alone'
    BY <1>9, Moves, RowSays, Numbers DEF Mark, Pc, Others, Alone, Live, At, Sent, Bookkeeping, Faultless
  <1>10. ASSUME NEW r \in Runner, Send(r)
        PROVE  Alone'
    <2> SUFFICES ASSUME ~twice
                 PROVE  Alone'
      BY <1>10, SendDoes DEF Alone
    <2>1. job.st = "active" /\ job.owner = r /\ \A s \in Runner : s # r => run[s].pc = "idle"
      BY <1>10, SendDoes DEF Alone, Live
    <2>2. Len(wire) <= unsure
      BY <1>10, SendDoes DEF Alone, At
    <2>3. Len(wire') <= 1 + unsure'
      BY <1>10, <2>2, SendDoes, Numbers
    <2>4. run'[r].pc = "store" /\ \A s \in Runner : s # r => run'[s].pc = "idle"
      BY <1>10, <2>1, SendDoes DEF Others
    <2>5. UNCHANGED <<row, job, twice>>
      BY <1>10, SendDoes
    <2> QED
      BY <2>1, <2>3, <2>4, <2>5 DEF Alone, Live, At
  <1>11. ASSUME NEW r \in Runner, SendFails(r)
        PROVE  Alone'
    BY <1>11, Moves, Numbers DEF SendFails, Pc, Others, Alone, Live, At, Sent, Bookkeeping, Faultless
  <1>12. ASSUME NEW r \in Runner, Store(r)
        PROVE  Alone'
    BY <1>12, StoreDoes, Numbers DEF Others, Alone, Live, At, Sent, Bookkeeping, Faultless
  <1>13. ASSUME NEW r \in Runner, Publish(r)
        PROVE  Alone'
    BY <1>13, Moves, Numbers DEF Publish, Pc, Others, Alone, Live, At, Sent, Bookkeeping, Faultless
  <1>14. ASSUME NEW r \in Runner, Catch(r)
        PROVE  Alone'
    BY <1>14, Moves, RowSays, Numbers DEF Catch, Pc, Others, Alone, Live, At, Sent, Bookkeeping, Faultless
  <1>15. ASSUME NEW r \in Runner, DbFails(r)
        PROVE  Alone'
    BY SMTT(30), <1>15, Moves, Numbers DEF DbFails, Fault, Pc, Others, Alone, Live, At, Sent, Bookkeeping, Faultless
  <1>16. ASSUME NEW r \in Runner, PublishFails(r)
        PROVE  Alone'
    BY <1>16, Moves, Numbers DEF PublishFails, Fault, Pc, Others, Alone, Live, At, Sent, Bookkeeping, Faultless
  <1>17. ASSUME NEW r \in Runner, Crash(r)
        PROVE  Alone'
    <2> SUFFICES ASSUME ~twice
                 PROVE  Alone'
      BY <1>17 DEF Alone, Crash
    <2>1. \A s \in Runner : s # r => run[s].pc = "idle"
      BY <1>17 DEF Alone, Live, Crash
    <2>2. \A s \in Runner : run'[s].pc = "idle"
      BY <1>17, <2>1, Rests DEF Crash
    <2>3. unsure' = IF run[r].pc = "store" THEN unsure + 1 ELSE unsure
      BY <1>17 DEF Crash
    <2>4. Len(wire) <= 1 + unsure'
      BY <2>3, Numbers DEF Alone
    <2>5. row.st \notin Sent => Len(wire) <= unsure'
      BY <2>1, <2>3, Numbers DEF Alone, At
    <2>6. UNCHANGED <<row, job, wire, twice>>
      BY <1>17 DEF Crash
    <2> QED
      BY <2>2, <2>4, <2>5, <2>6 DEF Alone, Live, At
  <1>18. CASE Stalled
    BY <1>18, StalledDoes, Numbers DEF Stalled, Alone, Live, At, Sent, Bookkeeping, Faultless
  <1>19. CASE LockLost
    BY <1>19, StalledDoes, Numbers DEF LockLost, Alone, Live, At, Sent, Bookkeeping, Faultless
  <1>20. ASSUME NEW c \in 1..Len(wire), Progress(c)
        PROVE  Alone'
    BY <1>20, ProgressDoes, Numbers DEF Progress, Alone, Live, At, Sent, Bookkeeping, Faultless
  <1>21. ASSUME NEW a \in acks, Ack(a)
        PROVE  Alone'
    BY <1>21, AckDoes, Numbers DEF Alone, Live, At, Sent, Bookkeeping, Faultless
  <1>22. ASSUME NEW to \in {"DELIVERED", "READ"}, BumpRead(to)
        PROVE  Alone'
    BY <1>22, Numbers DEF BumpRead, Alone, Live, At, Sent, Bookkeeping, Faultless
  <1>23. ASSUME NEW b \in bumps, BumpWrite(b)
        PROVE  Alone'
    BY <1>23, BumpWriteDoes, Numbers DEF Alone, Live, At, Sent, Bookkeeping, Faultless
  <1>24. CASE RequestDelete
    BY <1>24, Numbers DEF RequestDelete, Alone, Live, At, Sent, Bookkeeping, Faultless, TypeOK
  <1>25. CASE DeleteLook
    BY <1>25, Numbers DEF DeleteLook, Alone, Live, At, Sent, Bookkeeping, Faultless, TypeOK
  <1>26. CASE DeleteSend
    BY <1>26, Numbers DEF DeleteSend, Alone, Live, At, Sent, Bookkeeping, Faultless, TypeOK
  <1>27. CASE DeleteStore
    BY <1>27, Numbers DEF DeleteStore, Alone, Live, At, Sent, Bookkeeping, Faultless, TypeOK
  <1>28. CASE UNCHANGED vars
    BY <1>28 DEF vars, Alone, Live, At, Sent, Bookkeeping, Faultless
  <1> QED
    BY <1>1, <1>2, <1>3, <1>4, <1>5, <1>6, <1>7, <1>8, <1>9, <1>10, <1>11, <1>12, <1>13, <1>14, <1>15, <1>16, <1>17, <1>18, <1>19, <1>20, <1>21, <1>22, <1>23, <1>24, <1>25, <1>26, <1>27, <1>28 DEF Next, Process

\* Before any fault.
LEMMA FaultlessStep ==
  ASSUME TypeOK, TypeOK', Bookkeeping, Alone, Faultless, [Next]_vars
  PROVE  Faultless'
  <1>1. CASE CreateMessage
    BY <1>1, RowSays, Numbers DEF CreateMessage, Faultless, Live, At, Bookkeeping, Alone
  <1>2. CASE Enqueue
    BY <1>2, Numbers DEF Enqueue, Faultless, Live, At, Bookkeeping, Alone, TypeOK
  <1>3. CASE EnqueueFails
    BY <1>3, Numbers DEF EnqueueFails, Fault, Faultless, Live, At, Bookkeeping, Alone
  <1>4. ASSUME NEW r \in Runner, Take(r)
        PROVE  Faultless'
    BY <1>4, TakeDoes, Numbers DEF Others, Faultless, Live, At, Bookkeeping, Alone
  <1>5. ASSUME NEW r \in Runner, Complete(r)
        PROVE  Faultless'
    BY <1>5, CompleteDoes, Numbers DEF Others, Faultless, Live, At, Bookkeeping, Alone
  <1>6. ASSUME NEW r \in Runner, Fail(r)
        PROVE  Faultless'
    BY <1>6, FailDoes, Numbers DEF Others, Faultless, Live, At, Bookkeeping, Alone
  <1>7. ASSUME NEW r \in Runner, Look(r)
        PROVE  Faultless'
    BY <1>7, Moves, Numbers DEF Look, Pc, Others, Faultless, Live, At, Bookkeeping, Alone
  <1>8. ASSUME NEW r \in Runner, CloseChat(r)
        PROVE  Faultless'
    BY <1>8, Moves, RowSays, Numbers DEF CloseChat, Pc, Others, Faultless, Live, At, Bookkeeping, Alone
  <1>9. ASSUME NEW r \in Runner, Mark(r)
        PROVE  Faultless'
    BY <1>9, Moves, RowSays, Numbers DEF Mark, Pc, Others, Faultless, Live, At, Bookkeeping, Alone
  <1>10. ASSUME NEW r \in Runner, Send(r)
        PROVE  Faultless'
    BY <1>10, SendDoes, Numbers DEF Others, Faultless, Live, At, Bookkeeping, Alone
  <1>11. ASSUME NEW r \in Runner, SendFails(r)
        PROVE  Faultless'
    BY <1>11, Moves, Numbers DEF SendFails, Pc, Others, Faultless, Live, At, Bookkeeping, Alone
  <1>12. ASSUME NEW r \in Runner, Store(r)
        PROVE  Faultless'
    BY <1>12, StoreDoes, Numbers DEF Others, Faultless, Live, At, Bookkeeping, Alone
  <1>13. ASSUME NEW r \in Runner, Publish(r)
        PROVE  Faultless'
    BY <1>13, Moves, Numbers DEF Publish, Pc, Others, Faultless, Live, At, Bookkeeping, Alone
  <1>14. ASSUME NEW r \in Runner, Catch(r)
        PROVE  Faultless'
    BY <1>14, Moves, RowSays, Numbers DEF Catch, Pc, Others, Faultless, Live, At, Bookkeeping, Alone
  <1>15. ASSUME NEW r \in Runner, DbFails(r)
        PROVE  Faultless'
    BY <1>15, Moves, Numbers DEF DbFails, Fault, Pc, Others, Faultless, Live, At, Bookkeeping, Alone
  <1>16. ASSUME NEW r \in Runner, PublishFails(r)
        PROVE  Faultless'
    BY <1>16, Moves, Numbers DEF PublishFails, Fault, Pc, Others, Faultless, Live, At, Bookkeeping, Alone
  <1>17. ASSUME NEW r \in Runner, Crash(r)
        PROVE  Faultless'
    BY <1>17, Rests, Numbers DEF Crash, Fault, Others, Faultless, Live, At, Bookkeeping, Alone
  <1>18. CASE Stalled
    BY <1>18, StalledDoes, Numbers DEF Stalled, Faultless, Live, At, Bookkeeping, Alone
  <1>19. CASE LockLost
    BY <1>19, StalledDoes, Numbers DEF LockLost, Faultless, Live, At, Bookkeeping, Alone
  <1>20. ASSUME NEW c \in 1..Len(wire), Progress(c)
        PROVE  Faultless'
    BY <1>20, ProgressDoes, Numbers DEF Progress, Faultless, Live, At, Bookkeeping, Alone
  <1>21. ASSUME NEW a \in acks, Ack(a)
        PROVE  Faultless'
    BY <1>21, AckDoes, Numbers DEF Faultless, Live, At, Bookkeeping, Alone, Sent
  <1>22. ASSUME NEW to \in {"DELIVERED", "READ"}, BumpRead(to)
        PROVE  Faultless'
    BY <1>22, Numbers DEF BumpRead, Faultless, Live, At, Bookkeeping, Alone
  <1>23. ASSUME NEW b \in bumps, BumpWrite(b)
        PROVE  Faultless'
    BY <1>23, BumpWriteDoes, Numbers DEF Faultless, Live, At, Bookkeeping, Alone, Sent
  <1>24. CASE RequestDelete
    BY <1>24, Numbers DEF RequestDelete, Faultless, Live, At, Bookkeeping, Alone, TypeOK
  <1>25. CASE DeleteLook
    BY <1>25, Numbers DEF DeleteLook, Faultless, Live, At, Bookkeeping, Alone, TypeOK
  <1>26. CASE DeleteSend
    BY <1>26, Numbers DEF DeleteSend, Faultless, Live, At, Bookkeeping, Alone, TypeOK
  <1>27. CASE DeleteStore
    BY <1>27, Numbers DEF DeleteStore, Faultless, Live, At, Bookkeeping, Alone, TypeOK
  <1>28. CASE UNCHANGED vars
    BY <1>28 DEF vars, Faultless, Live, At, Bookkeeping, Alone
  <1> QED
    BY <1>1, <1>2, <1>3, <1>4, <1>5, <1>6, <1>7, <1>8, <1>9, <1>10, <1>11, <1>12, <1>13, <1>14, <1>15, <1>16, <1>17, <1>18, <1>19, <1>20, <1>21, <1>22, <1>23, <1>24, <1>25, <1>26, <1>27, <1>28 DEF Next, Process

\* Two runs at once: what either may still send is counted before it sends.
LEMMA TwoRunsStep ==
  ASSUME TypeOK, TypeOK', Bookkeeping, Alone, Faultless, TwoRuns, [Next]_vars
  PROVE  TwoRuns'
  <1>1. CASE CreateMessage
    BY <1>1, RowSays, Numbers DEF CreateMessage, TwoRuns, LoserMaySend, JobMaySend, Live, At, Bookkeeping, Alone, Faultless
  <1>2. CASE Enqueue
    BY <1>2, Numbers DEF Enqueue, TwoRuns, LoserMaySend, JobMaySend, Live, At, Bookkeeping, Alone, Faultless, TypeOK
  <1>3. CASE EnqueueFails
    BY <1>3, Numbers DEF EnqueueFails, Fault, TwoRuns, LoserMaySend, JobMaySend, Live, At, Bookkeeping, Alone, Faultless
  <1>4. ASSUME NEW r \in Runner, Take(r)
        PROVE  TwoRuns'
    <2> SUFFICES ASSUME twice
                 PROVE  TwoRuns'
      BY <1>4, TakeDoes DEF TwoRuns
    <2>1. JobMaySend /\ job.owner = None
      BY <1>4, TakeDoes DEF JobMaySend, Bookkeeping
    <2>2. \A s \in Runner : s # r => run'[s] = run[s]
      BY <1>4, TakeDoes DEF Others
    <2>3. LoserMaySend' => LoserMaySend
      BY ZenonT(60), <1>4, <2>1, <2>2, TakeDoes, Numbers DEF LoserMaySend, At
    <2>4. \A s, t \in Runner : s # job'.owner /\ t # job'.owner /\ run'[s].pc # "idle" /\ run'[t].pc # "idle" => s = t
      <3>1. \A s, t \in Runner : s # job.owner /\ t # job.owner /\ run[s].pc # "idle" /\ run[t].pc # "idle" => s = t
        BY DEF TwoRuns, Live
      <3>2. \A s \in Runner : s # job.owner
        BY <2>1, Numbers
      <3>3. job'.owner = r
        BY <1>4, TakeDoes
      <3> QED
        BY <2>2, <3>1, <3>2, <3>3
    <2>5. job'.st = "active" /\ run'[job'.owner].pc # "idle" /\ UNCHANGED <<wire, used, unsure, twice>>
      BY <1>4, TakeDoes DEF Live
    <2> QED
      BY <2>1, <2>3, <2>4, <2>5 DEF TwoRuns, Live
  <1>5. ASSUME NEW r \in Runner, Complete(r)
        PROVE  TwoRuns'
    <2> SUFFICES ASSUME twice
                 PROVE  TwoRuns'
      BY <1>5, CompleteDoes DEF TwoRuns
    <2>1. \A s \in Runner : s # r => run'[s] = run[s]
      BY <1>5, CompleteDoes DEF Others
    <2>2. LoserMaySend' => LoserMaySend
      <3>1. CASE job.owner = r
        BY <1>5, <2>1, <3>1, CompleteDoes DEF LoserMaySend, At
      <3>2. CASE job.owner # r
        BY <1>5, <2>1, <3>2, CompleteDoes DEF LoserMaySend, At
      <3> QED
        BY <3>1, <3>2
    <2>3. JobMaySend' => JobMaySend
      <3>1. CASE job.owner = r
        BY <1>5, <3>1, CompleteDoes DEF JobMaySend
      <3>2. CASE job.owner # r
        BY <1>5, <2>1, <3>2, CompleteDoes, Numbers DEF JobMaySend, At, Bookkeeping
      <3> QED
        BY <3>1, <3>2
    <2>4. \A s, t \in Runner : s # job'.owner /\ t # job'.owner /\ run'[s].pc # "idle" /\ run'[t].pc # "idle" => s = t
      <3>1. \A s, t \in Runner : s # job.owner /\ t # job.owner /\ run[s].pc # "idle" /\ run[t].pc # "idle" => s = t
        BY DEF TwoRuns, Live
      <3>2. run'[r].pc = "idle" /\ (job.owner # r => job'.owner = job.owner)
        BY <1>5, CompleteDoes
      <3> QED
        BY <2>1, <3>1, <3>2
    <2>5. job'.st # "none" /\ (job'.st = "active" => run'[job'.owner].pc # "idle")
      <3>1. CASE job.owner = r
        BY <1>5, <3>1, CompleteDoes
      <3>2. CASE job.owner # r
        <4>1. job.st # "none" /\ (job.st = "active" => run[job.owner].pc # "idle")
          BY DEF TwoRuns, Live
        <4>2. job' = job /\ (job.st = "active" => job.owner \in Runner)
          BY <1>5, <3>2, CompleteDoes, Numbers DEF Bookkeeping
        <4> QED
          BY <2>1, <3>2, <4>1, <4>2
      <3> QED
        BY <3>1, <3>2
    <2>6. UNCHANGED <<wire, used, unsure, twice>>
      BY <1>5, CompleteDoes
    <2> QED
      BY <2>2, <2>3, <2>4, <2>5, <2>6 DEF TwoRuns, Live
  <1>6. ASSUME NEW r \in Runner, Fail(r)
        PROVE  TwoRuns'
    <2> SUFFICES ASSUME twice
                 PROVE  TwoRuns'
      BY <1>6, FailDoes DEF TwoRuns
    <2>1. \A s \in Runner : s # r => run'[s] = run[s]
      BY <1>6, FailDoes DEF Others
    <2>2. LoserMaySend' => LoserMaySend
      <3>1. CASE job.owner = r
        BY <1>6, <2>1, <3>1, FailDoes DEF LoserMaySend, At
      <3>2. CASE job.owner # r
        BY <1>6, <2>1, <3>2, FailDoes DEF LoserMaySend, At
      <3> QED
        BY <3>1, <3>2
    <2>3. JobMaySend' => JobMaySend
      <3>1. CASE job.owner = r
        BY <1>6, <3>1, FailDoes, Numbers DEF JobMaySend, At, Bookkeeping
      <3>2. CASE job.owner # r
        BY <1>6, <2>1, <3>2, FailDoes, Numbers DEF JobMaySend, At, Bookkeeping
      <3> QED
        BY <3>1, <3>2
    <2>4. \A s, t \in Runner : s # job'.owner /\ t # job'.owner /\ run'[s].pc # "idle" /\ run'[t].pc # "idle" => s = t
      <3>1. \A s, t \in Runner : s # job.owner /\ t # job.owner /\ run[s].pc # "idle" /\ run[t].pc # "idle" => s = t
        BY DEF TwoRuns, Live
      <3>2. run'[r].pc = "idle" /\ (job.owner # r => job'.owner = job.owner)
        BY <1>6, FailDoes
      <3> QED
        BY <2>1, <3>1, <3>2
    <2>5. job'.st # "none" /\ (job'.st = "active" => run'[job'.owner].pc # "idle")
      <3>1. CASE job.owner = r
        BY <1>6, <3>1, FailDoes
      <3>2. CASE job.owner # r
        <4>1. job.st # "none" /\ (job.st = "active" => run[job.owner].pc # "idle")
          BY DEF TwoRuns, Live
        <4>2. job' = job /\ (job.st = "active" => job.owner \in Runner)
          BY <1>6, <3>2, FailDoes, Numbers DEF Bookkeeping
        <4> QED
          BY <2>1, <3>2, <4>1, <4>2
      <3> QED
        BY <3>1, <3>2
    <2>6. UNCHANGED <<wire, used, unsure, twice>>
      BY <1>6, FailDoes
    <2> QED
      BY <2>2, <2>3, <2>4, <2>5, <2>6 DEF TwoRuns, Live
  <1>7. ASSUME NEW r \in Runner, Look(r)
        PROVE  TwoRuns'
    BY <1>7, Moves, Numbers DEF Look, Pc, Others, TwoRuns, LoserMaySend, JobMaySend, Live, At, Bookkeeping, Alone, Faultless
  <1>8. ASSUME NEW r \in Runner, CloseChat(r)
        PROVE  TwoRuns'
    BY <1>8, Moves, RowSays, Numbers DEF CloseChat, Pc, Others, TwoRuns, LoserMaySend, JobMaySend, Live, At, Bookkeeping, Alone, Faultless
  <1>9. ASSUME NEW r \in Runner, Mark(r)
        PROVE  TwoRuns'
    BY <1>9, Moves, RowSays, Numbers DEF Mark, Pc, Others, TwoRuns, LoserMaySend, JobMaySend, Live, At, Bookkeeping, Alone, Faultless
  <1>10. ASSUME NEW r \in Runner, Send(r)
        PROVE  TwoRuns'
    <2> SUFFICES ASSUME twice
                 PROVE  TwoRuns'
      BY <1>10, SendDoes DEF TwoRuns
    <2>1. Len(wire) <= 1 /\ (LoserMaySend /\ JobMaySend => Len(wire) = 0)
      BY <1>10, SendDoes, Numbers DEF TwoRuns, LoserMaySend, JobMaySend, At, Bookkeeping
    <2>2. UNCHANGED <<job, used, unsure, twice>> /\ Len(wire') = Len(wire) + 1
      BY <1>10, SendDoes
    <2>3. \A s \in Runner : Live(s)' <=> Live(s)
      BY <1>10, SendDoes DEF Live, Others
    <2>4. CASE job.owner = r
      <3>1. ~JobMaySend' /\ JobMaySend
        BY <1>10, <2>4, SendDoes, Numbers DEF JobMaySend, At, Bookkeeping
      <3>2. LoserMaySend' => LoserMaySend
        BY <1>10, <2>4, SendDoes DEF LoserMaySend, At, Others
      <3>3. LoserMaySend' => Len(wire') <= 1
        BY <2>1, <2>2, <3>1, <3>2, Numbers
      <3>4. Len(wire') <= 2
        BY <2>1, <2>2, Numbers
      <3> QED
        BY <2>2, <2>3, <2>4, <3>1, <3>3, <3>4, Numbers DEF TwoRuns
    <2>5. CASE job.owner # r
      <3>1. LoserMaySend
        BY <1>10, <2>5, SendDoes DEF LoserMaySend, At
      <3>2. \A s \in Runner : s # job.owner /\ Live(s) => s = r
        BY <1>10, <2>5, SendDoes DEF TwoRuns, Live
      <3>3. ~LoserMaySend'
        BY <1>10, <2>2, <2>5, <3>2, SendDoes DEF LoserMaySend, At, Others, Live
      <3>4. JobMaySend' => JobMaySend
        BY <1>10, <2>5, SendDoes, Numbers DEF JobMaySend, At, Others, Bookkeeping
      <3>5. JobMaySend' => Len(wire') <= 1
        BY <2>1, <2>2, <3>1, <3>4, Numbers
      <3>6. Len(wire') <= 2
        BY <2>1, <2>2, Numbers
      <3> QED
        BY <2>2, <2>3, <2>5, <3>3, <3>5, <3>6, Numbers DEF TwoRuns, Bookkeeping
    <2> QED
      BY <2>4, <2>5
  <1>11. ASSUME NEW r \in Runner, SendFails(r)
        PROVE  TwoRuns'
    BY <1>11, Moves, Numbers DEF SendFails, Pc, Others, TwoRuns, LoserMaySend, JobMaySend, Live, At, Bookkeeping, Alone, Faultless
  <1>12. ASSUME NEW r \in Runner, Store(r)
        PROVE  TwoRuns'
    <2> SUFFICES ASSUME twice
                 PROVE  TwoRuns'
      BY <1>12, StoreDoes DEF TwoRuns
    <2>1. UNCHANGED <<job, wire, used, unsure, twice>>
      BY <1>12, StoreDoes
    <2>2. (LoserMaySend' => LoserMaySend) /\ \A s \in Runner : Live(s)' <=> Live(s)
      BY <1>12, <2>1, StoreDoes DEF LoserMaySend, At, Others, Live
    <2>3. JobMaySend' => JobMaySend
      BY <1>12, <2>1, StoreDoes, Numbers DEF JobMaySend, At, Others, Bookkeeping
    <2> QED
      BY <2>1, <2>2, <2>3, Numbers DEF TwoRuns, Bookkeeping
  <1>13. ASSUME NEW r \in Runner, Publish(r)
        PROVE  TwoRuns'
    BY <1>13, Moves, Numbers DEF Publish, Pc, Others, TwoRuns, LoserMaySend, JobMaySend, Live, At, Bookkeeping, Alone, Faultless
  <1>14. ASSUME NEW r \in Runner, Catch(r)
        PROVE  TwoRuns'
    BY <1>14, Moves, RowSays, Numbers DEF Catch, Pc, Others, TwoRuns, LoserMaySend, JobMaySend, Live, At, Bookkeeping, Alone, Faultless
  <1>15. ASSUME NEW r \in Runner, DbFails(r)
        PROVE  TwoRuns'
    BY <1>15, Moves, Numbers DEF DbFails, Fault, Pc, Others, TwoRuns, LoserMaySend, JobMaySend, Live, At, Bookkeeping, Alone, Faultless
  <1>16. ASSUME NEW r \in Runner, PublishFails(r)
        PROVE  TwoRuns'
    BY <1>16, Moves, Numbers DEF PublishFails, Fault, Pc, Others, TwoRuns, LoserMaySend, JobMaySend, Live, At, Bookkeeping, Alone, Faultless
  <1>17. ASSUME NEW r \in Runner, Crash(r)
        PROVE  TwoRuns'
    BY <1>17, Rests, Numbers DEF Crash, Fault, Others, TwoRuns, LoserMaySend, JobMaySend, Live, At, Bookkeeping, Alone, Faultless
  <1>18. CASE Stalled
    BY <1>18, StalledDoes, Numbers DEF Stalled, TwoRuns, LoserMaySend, JobMaySend, Live, At, Bookkeeping, Alone, Faultless
  <1>19. CASE LockLost
    BY <1>19, StalledDoes, Numbers DEF LockLost, TwoRuns, LoserMaySend, JobMaySend, Live, At, Bookkeeping, Alone, Faultless
  <1>20. ASSUME NEW c \in 1..Len(wire), Progress(c)
        PROVE  TwoRuns'
    BY <1>20, ProgressDoes, Numbers DEF Progress, TwoRuns, LoserMaySend, JobMaySend, Live, At, Bookkeeping, Alone, Faultless
  <1>21. ASSUME NEW a \in acks, Ack(a)
        PROVE  TwoRuns'
    <2>1. UNCHANGED <<job, run, wire, used, unsure, twice>>
      BY <1>21, AckDoes
    <2> QED
      BY <2>1 DEF TwoRuns, LoserMaySend, JobMaySend, Live, At
  <1>22. ASSUME NEW to \in {"DELIVERED", "READ"}, BumpRead(to)
        PROVE  TwoRuns'
    BY <1>22, Numbers DEF BumpRead, TwoRuns, LoserMaySend, JobMaySend, Live, At, Bookkeeping, Alone, Faultless
  <1>23. ASSUME NEW b \in bumps, BumpWrite(b)
        PROVE  TwoRuns'
    <2>1. UNCHANGED <<job, run, wire, used, unsure, twice>>
      BY <1>23, BumpWriteDoes
    <2> QED
      BY <2>1 DEF TwoRuns, LoserMaySend, JobMaySend, Live, At
  <1>24. CASE RequestDelete
    BY <1>24, Numbers DEF RequestDelete, TwoRuns, LoserMaySend, JobMaySend, Live, At, Bookkeeping, Alone, Faultless, TypeOK
  <1>25. CASE DeleteLook
    BY <1>25, Numbers DEF DeleteLook, TwoRuns, LoserMaySend, JobMaySend, Live, At, Bookkeeping, Alone, Faultless, TypeOK
  <1>26. CASE DeleteSend
    BY <1>26, Numbers DEF DeleteSend, TwoRuns, LoserMaySend, JobMaySend, Live, At, Bookkeeping, Alone, Faultless, TypeOK
  <1>27. CASE DeleteStore
    BY <1>27, Numbers DEF DeleteStore, TwoRuns, LoserMaySend, JobMaySend, Live, At, Bookkeeping, Alone, Faultless, TypeOK
  <1>28. CASE UNCHANGED vars
    BY <1>28 DEF vars, TwoRuns, LoserMaySend, JobMaySend, Live, At, Bookkeeping, Alone, Faultless
  <1> QED
    BY <1>1, <1>2, <1>3, <1>4, <1>5, <1>6, <1>7, <1>8, <1>9, <1>10, <1>11, <1>12, <1>13, <1>14, <1>15, <1>16, <1>17, <1>18, <1>19, <1>20, <1>21, <1>22, <1>23, <1>24, <1>25, <1>26, <1>27, <1>28 DEF Next, Process

\* Receipts: a copy only gets further.
LEMMA ReceiptsStep ==
  ASSUME TypeOK, TypeOK', Bookkeeping, Receipts, [Next]_vars
  PROVE  Receipts'
  <1>1. CASE CreateMessage
    BY <1>1, RowSays, Numbers DEF CreateMessage, Receipts, ReceiptsAreTrue, Bookkeeping, At, Sent
  <1>2. CASE Enqueue
    BY <1>2, Numbers DEF Enqueue, Receipts, ReceiptsAreTrue, Bookkeeping, At, Sent, TypeOK
  <1>3. CASE EnqueueFails
    BY <1>3, Numbers DEF EnqueueFails, Fault, Receipts, ReceiptsAreTrue, Bookkeeping, At, Sent
  <1>4. ASSUME NEW r \in Runner, Take(r)
        PROVE  Receipts'
    BY <1>4, TakeDoes, Numbers DEF Others, Receipts, ReceiptsAreTrue, Bookkeeping, At, Sent
  <1>5. ASSUME NEW r \in Runner, Complete(r)
        PROVE  Receipts'
    BY <1>5, CompleteDoes, Numbers DEF Others, Receipts, ReceiptsAreTrue, Bookkeeping, At, Sent
  <1>6. ASSUME NEW r \in Runner, Fail(r)
        PROVE  Receipts'
    BY <1>6, FailDoes, Numbers DEF Others, Receipts, ReceiptsAreTrue, Bookkeeping, At, Sent
  <1>7. ASSUME NEW r \in Runner, Look(r)
        PROVE  Receipts'
    BY <1>7, Moves, Numbers DEF Look, Pc, Others, Receipts, ReceiptsAreTrue, Bookkeeping, At, Sent
  <1>8. ASSUME NEW r \in Runner, CloseChat(r)
        PROVE  Receipts'
    BY <1>8, Moves, RowSays, Numbers DEF CloseChat, Pc, Others, Receipts, ReceiptsAreTrue, Bookkeeping, At, Sent
  <1>9. ASSUME NEW r \in Runner, Mark(r)
        PROVE  Receipts'
    BY <1>9, Moves, RowSays, Numbers DEF Mark, Pc, Others, Receipts, ReceiptsAreTrue, Bookkeeping, At, Sent
  <1>10. ASSUME NEW r \in Runner, Send(r)
        PROVE  Receipts'
    <2>1. /\ row.wa \in 0..Len(wire) /\ \A a \in acks : a.copy \in 1..Len(wire)
      BY DEF TypeOK
    <2>2. \A a \in acks : wire'[a.copy] = wire[a.copy]
      BY <1>10, <2>1, SendDoes
    <2>3. row.wa # 0 => wire'[row.wa] = wire[row.wa]
      BY <1>10, <2>1, SendDoes, Numbers
    <2>4. UNCHANGED <<provider, row, acks>>
      BY <1>10, SendDoes
    <2> QED
      BY <2>2, <2>3, <2>4 DEF Receipts, ReceiptsAreTrue
  <1>11. ASSUME NEW r \in Runner, SendFails(r)
        PROVE  Receipts'
    BY <1>11, Moves, Numbers DEF SendFails, Pc, Others, Receipts, ReceiptsAreTrue, Bookkeeping, At, Sent
  <1>12. ASSUME NEW r \in Runner, Store(r)
        PROVE  Receipts'
    BY <1>12, StoreDoes, Numbers DEF Others, Receipts, ReceiptsAreTrue, Bookkeeping, At, Sent
  <1>13. ASSUME NEW r \in Runner, Publish(r)
        PROVE  Receipts'
    BY <1>13, Moves, Numbers DEF Publish, Pc, Others, Receipts, ReceiptsAreTrue, Bookkeeping, At, Sent
  <1>14. ASSUME NEW r \in Runner, Catch(r)
        PROVE  Receipts'
    BY <1>14, Moves, RowSays, Numbers DEF Catch, Pc, Others, Receipts, ReceiptsAreTrue, Bookkeeping, At, Sent
  <1>15. ASSUME NEW r \in Runner, DbFails(r)
        PROVE  Receipts'
    BY <1>15, Moves, Numbers DEF DbFails, Fault, Pc, Others, Receipts, ReceiptsAreTrue, Bookkeeping, At, Sent
  <1>16. ASSUME NEW r \in Runner, PublishFails(r)
        PROVE  Receipts'
    BY <1>16, Moves, Numbers DEF PublishFails, Fault, Pc, Others, Receipts, ReceiptsAreTrue, Bookkeeping, At, Sent
  <1>17. ASSUME NEW r \in Runner, Crash(r)
        PROVE  Receipts'
    BY <1>17, Rests, Numbers DEF Crash, Fault, Others, Receipts, ReceiptsAreTrue, Bookkeeping, At, Sent
  <1>18. CASE Stalled
    BY <1>18, StalledDoes, Numbers DEF Stalled, Receipts, ReceiptsAreTrue, Bookkeeping, At, Sent
  <1>19. CASE LockLost
    BY <1>19, StalledDoes, Numbers DEF LockLost, Receipts, ReceiptsAreTrue, Bookkeeping, At, Sent
  <1>20. ASSUME NEW c \in 1..Len(wire), Progress(c)
        PROVE  Receipts'
    <2>1. /\ row.wa \in 0..Len(wire) /\ \A a \in acks : a.copy \in 1..Len(wire)
      BY DEF TypeOK
    <2>2. \A a \in acks : /\ a.st = "DELIVERED" => wire'[a.copy] \in {"DELIVERED", "READ"}
                          /\ a.st = "READ" => wire'[a.copy] = "READ"
      BY <1>20, <2>1, ProgressDoes DEF Receipts
    <2>3. ReceiptsAreTrue'
      <3>1. UNCHANGED <<provider, row>>
        BY <1>20 DEF Progress
      <3>2. row.wa # 0 => row.wa \in 1..Len(wire)
        BY <2>1, Numbers
      <3> QED
        BY <1>20, <3>1, <3>2, ProgressDoes DEF Receipts, ReceiptsAreTrue
    <2>4. acks' = acks \cup {[copy |-> c, st |-> wire'[c]]}
      BY <1>20, ProgressDoes
    <2>5. \A a \in acks' : /\ a.st = "DELIVERED" => wire'[a.copy] \in {"DELIVERED", "READ"}
                           /\ a.st = "READ" => wire'[a.copy] = "READ"
      BY <2>2, <2>4
    <2> QED
      BY <2>3, <2>5 DEF Receipts
  <1>21. ASSUME NEW a \in acks, Ack(a)
        PROVE  Receipts'
    BY <1>21, AckDoes, Numbers DEF Receipts, ReceiptsAreTrue, Bookkeeping, At, Sent
  <1>22. ASSUME NEW to \in {"DELIVERED", "READ"}, BumpRead(to)
        PROVE  Receipts'
    BY <1>22, Numbers DEF BumpRead, Receipts, ReceiptsAreTrue, Bookkeeping, At, Sent
  <1>23. ASSUME NEW b \in bumps, BumpWrite(b)
        PROVE  Receipts'
    BY <1>23, BumpWriteDoes, Numbers DEF Receipts, ReceiptsAreTrue, Bookkeeping, At, Sent
  <1>24. CASE RequestDelete
    BY <1>24, Numbers DEF RequestDelete, Receipts, ReceiptsAreTrue, Bookkeeping, At, Sent, TypeOK
  <1>25. CASE DeleteLook
    BY <1>25, Numbers DEF DeleteLook, Receipts, ReceiptsAreTrue, Bookkeeping, At, Sent, TypeOK
  <1>26. CASE DeleteSend
    BY <1>26, Numbers DEF DeleteSend, Receipts, ReceiptsAreTrue, Bookkeeping, At, Sent, TypeOK
  <1>27. CASE DeleteStore
    BY <1>27, Numbers DEF DeleteStore, Receipts, ReceiptsAreTrue, Bookkeeping, At, Sent, TypeOK
  <1>28. CASE UNCHANGED vars
    BY <1>28 DEF vars, Receipts, ReceiptsAreTrue, Bookkeeping, At, Sent
  <1> QED
    BY <1>1, <1>2, <1>3, <1>4, <1>5, <1>6, <1>7, <1>8, <1>9, <1>10, <1>11, <1>12, <1>13, <1>14, <1>15, <1>16, <1>17, <1>18, <1>19, <1>20, <1>21, <1>22, <1>23, <1>24, <1>25, <1>26, <1>27, <1>28 DEF Next, Process

\* What is deleted was sent, and revoked.
LEMMA DeletionStep ==
  ASSUME TypeOK, TypeOK', Bookkeeping, Receipts, Deletion, [Next]_vars
  PROVE  Deletion'
  <1>1. CASE CreateMessage
    BY <1>1, RowSays, Numbers DEF CreateMessage, Deletion, ReceiptsAreTrue, Receipts, Sent
  <1>2. CASE Enqueue
    BY <1>2, Numbers DEF Enqueue, Deletion, ReceiptsAreTrue, Receipts, Sent, TypeOK
  <1>3. CASE EnqueueFails
    BY <1>3, Numbers DEF EnqueueFails, Fault, Deletion, ReceiptsAreTrue, Receipts, Sent
  <1>4. ASSUME NEW r \in Runner, Take(r)
        PROVE  Deletion'
    BY <1>4, TakeDoes, Numbers DEF Others, Deletion, ReceiptsAreTrue, Receipts, Sent
  <1>5. ASSUME NEW r \in Runner, Complete(r)
        PROVE  Deletion'
    BY <1>5, CompleteDoes, Numbers DEF Others, Deletion, ReceiptsAreTrue, Receipts, Sent
  <1>6. ASSUME NEW r \in Runner, Fail(r)
        PROVE  Deletion'
    BY <1>6, FailDoes, Numbers DEF Others, Deletion, ReceiptsAreTrue, Receipts, Sent
  <1>7. ASSUME NEW r \in Runner, Look(r)
        PROVE  Deletion'
    BY <1>7, Moves, Numbers DEF Look, Pc, Others, Deletion, ReceiptsAreTrue, Receipts, Sent
  <1>8. ASSUME NEW r \in Runner, CloseChat(r)
        PROVE  Deletion'
    BY <1>8, Moves, RowSays, Numbers DEF CloseChat, Pc, Others, Deletion, ReceiptsAreTrue, Receipts, Sent
  <1>9. ASSUME NEW r \in Runner, Mark(r)
        PROVE  Deletion'
    BY <1>9, Moves, RowSays, Numbers DEF Mark, Pc, Others, Deletion, ReceiptsAreTrue, Receipts, Sent
  <1>10. ASSUME NEW r \in Runner, Send(r)
        PROVE  Deletion'
    BY <1>10, SendDoes, Numbers DEF Others, Deletion, ReceiptsAreTrue, Receipts, Sent
  <1>11. ASSUME NEW r \in Runner, SendFails(r)
        PROVE  Deletion'
    BY <1>11, Moves, Numbers DEF SendFails, Pc, Others, Deletion, ReceiptsAreTrue, Receipts, Sent
  <1>12. ASSUME NEW r \in Runner, Store(r)
        PROVE  Deletion'
    <2>1. run[r].copy # 0
      BY <1>12, StoreDoes DEF Bookkeeping, At
    <2>2. row'.wa # 0 /\ row'.deleted = row.deleted /\ UNCHANGED <<del, revoked>>
      BY <1>12, <2>1, StoreDoes
    <2> QED
      BY <2>2 DEF Deletion
  <1>13. ASSUME NEW r \in Runner, Publish(r)
        PROVE  Deletion'
    BY <1>13, Moves, Numbers DEF Publish, Pc, Others, Deletion, ReceiptsAreTrue, Receipts, Sent
  <1>14. ASSUME NEW r \in Runner, Catch(r)
        PROVE  Deletion'
    BY <1>14, Moves, RowSays, Numbers DEF Catch, Pc, Others, Deletion, ReceiptsAreTrue, Receipts, Sent
  <1>15. ASSUME NEW r \in Runner, DbFails(r)
        PROVE  Deletion'
    BY <1>15, Moves, Numbers DEF DbFails, Fault, Pc, Others, Deletion, ReceiptsAreTrue, Receipts, Sent
  <1>16. ASSUME NEW r \in Runner, PublishFails(r)
        PROVE  Deletion'
    BY <1>16, Moves, Numbers DEF PublishFails, Fault, Pc, Others, Deletion, ReceiptsAreTrue, Receipts, Sent
  <1>17. ASSUME NEW r \in Runner, Crash(r)
        PROVE  Deletion'
    BY <1>17, Rests, Numbers DEF Crash, Fault, Others, Deletion, ReceiptsAreTrue, Receipts, Sent
  <1>18. CASE Stalled
    BY <1>18, StalledDoes, Numbers DEF Stalled, Deletion, ReceiptsAreTrue, Receipts, Sent
  <1>19. CASE LockLost
    BY <1>19, StalledDoes, Numbers DEF LockLost, Deletion, ReceiptsAreTrue, Receipts, Sent
  <1>20. ASSUME NEW c \in 1..Len(wire), Progress(c)
        PROVE  Deletion'
    BY <1>20, ProgressDoes, Numbers DEF Progress, Deletion, ReceiptsAreTrue, Receipts, Sent
  <1>21. ASSUME NEW a \in acks, Ack(a)
        PROVE  Deletion'
    BY <1>21, AckDoes, Numbers DEF Deletion, ReceiptsAreTrue, Receipts, Sent
  <1>22. ASSUME NEW to \in {"DELIVERED", "READ"}, BumpRead(to)
        PROVE  Deletion'
    BY <1>22, Numbers DEF BumpRead, Deletion, ReceiptsAreTrue, Receipts, Sent
  <1>23. ASSUME NEW b \in bumps, BumpWrite(b)
        PROVE  Deletion'
    BY <1>23, BumpWriteDoes, Numbers DEF Deletion, ReceiptsAreTrue, Receipts, Sent
  <1>24. CASE RequestDelete
    BY <1>24, Numbers DEF RequestDelete, Deletion, ReceiptsAreTrue, Receipts, Sent, TypeOK
  <1>25. CASE DeleteLook
    BY <1>25, Numbers DEF DeleteLook, Deletion, ReceiptsAreTrue, Receipts, Sent, TypeOK
  <1>26. CASE DeleteSend
    BY <1>26, Numbers DEF DeleteSend, Deletion, ReceiptsAreTrue, Receipts, Sent, TypeOK
  <1>27. CASE DeleteStore
    BY <1>27, Numbers DEF DeleteStore, Deletion, ReceiptsAreTrue, Receipts, Sent, TypeOK
  <1>28. CASE UNCHANGED vars
    BY <1>28 DEF vars, Deletion, ReceiptsAreTrue, Receipts, Sent
  <1> QED
    BY <1>1, <1>2, <1>3, <1>4, <1>5, <1>6, <1>7, <1>8, <1>9, <1>10, <1>11, <1>12, <1>13, <1>14, <1>15, <1>16, <1>17, <1>18, <1>19, <1>20, <1>21, <1>22, <1>23, <1>24, <1>25, <1>26, <1>27, <1>28 DEF Next, Process

LEMMA IInvInit ==
  ASSUME Init PROVE IInv
  <1>1. /\ row.st = "none" /\ row.wa = 0 /\ row.deleted = FALSE
        /\ job.st = "none" /\ job.made = 0 /\ job.owner = None
        /\ \A r \in Runner : run[r].pc = "idle"
        /\ wire = <<>> /\ acks = {} /\ bumps = {} /\ del.pc = "none" /\ used = 0 /\ twice = FALSE
    BY DEF Init, Resting
  <1>2. Bookkeeping
    BY <1>1, DeliveryAssumption DEF Bookkeeping, At
  <1>3. Len(wire) = 0 /\ unsure = 0
    BY DEF Init
  <1>4. Alone
    BY <1>1, <1>3 DEF Alone, Live, At, Sent
  <1>5. Faultless /\ TwoRuns
    BY <1>1 DEF Faultless, TwoRuns, At
  <1>6. Receipts /\ Deletion
    BY <1>1 DEF Receipts, ReceiptsAreTrue, Deletion, Sent
  <1> QED
    BY <1>2, <1>4, <1>5, <1>6, TypeInit DEF IInv

LEMMA IInvStep ==
  ASSUME IInv, [Next]_vars PROVE IInv'
  <1>1. TypeOK /\ Bookkeeping /\ Alone /\ Faultless /\ TwoRuns /\ Receipts /\ Deletion
    BY DEF IInv
  <1>2. TypeOK'
    BY <1>1, TypeStep
  <1>3. Bookkeeping'
    BY <1>1, <1>2, BookkeepingStep
  <1>4. Alone'
    BY <1>1, <1>2, AloneStep
  <1>5. Faultless'
    BY <1>1, <1>2, FaultlessStep
  <1>6. TwoRuns'
    BY <1>1, <1>2, TwoRunsStep
  <1>7. Receipts'
    BY <1>1, <1>2, ReceiptsStep
  <1>8. Deletion'
    BY <1>1, <1>2, DeletionStep
  <1> QED
    BY <1>2, <1>3, <1>4, <1>5, <1>6, <1>7, <1>8 DEF IInv

LEMMA IInvHolds == Spec => []IInv
  <1> QED
    BY IInvInit, IInvStep, PTL DEF Spec

-----------------------------------------------------------------------------
(***************************************************************************)
(* The theorems, for any number of runs, attempts, stalls and faults.      *)
(***************************************************************************)
\* The state of a message, its job, its runs and its copies is well formed
\* (outbound-worker.ts and the handlers of receipts and deletions).
THEOREM DeliveryTyped == Spec => []TypeOK
  <1>1. IInv => TypeOK
    BY DEF IInv
  <1> QED
    BY <1>1, IInvHolds, PTL

\* The contact gets the message once, and once more at most for each time the
\* record of a copy was lost, however the runs of the job interleave.
THEOREM CopiesCounted == Spec => []CopiesExplained
  <1>1. IInv => CopiesExplained
    BY Numbers DEF IInv, Alone, TwoRuns, CopiesExplained
  <1> QED
    BY <1>1, IInvHolds, PTL

\* SENT, DELIVERED and READ of a WhatsApp message are true of the copy its row
\* names, in whatever order the handlers of messages.update write.
THEOREM ReceiptsHold == Spec => []ReceiptsAreTrue
  <1>1. IInv => ReceiptsAreTrue
    BY DEF IInv, Receipts
  <1> QED
    BY <1>1, IInvHolds, PTL

\* A completed job leaves a message that was sent, unless it ran twice at once.
THEOREM CompletedHolds == Spec => []CompletedIsSent
  <1>1. IInv => CompletedIsSent
    BY DEF IInv, Alone, CompletedIsSent
  <1> QED
    BY <1>1, IInvHolds, PTL

\* "Eliminar" revokes every copy of a message none of whose copies was lost.
THEOREM DeletedHolds == Spec => []DeletedIsRevoked
  <1>1. ASSUME IInv PROVE DeletedIsRevoked
    <2> SUFFICES ASSUME row.deleted, unsure = 0
                 PROVE  1..Len(wire) \subseteq revoked
      BY DEF DeletedIsRevoked
    <2>1. Len(wire) \in Nat /\ Len(wire) <= 1
      BY <1>1, Numbers DEF IInv, Alone, TwoRuns
    <2>2. PICK c \in revoked : c # 0
      BY <1>1 DEF IInv, Deletion
    <2>3. c \in 0..Len(wire)
      BY <1>1, <2>2 DEF IInv, TypeOK
    <2> QED
      BY <2>1, <2>2, <2>3
  <1> QED
    BY <1>1, IInvHolds, PTL
=============================================================================
