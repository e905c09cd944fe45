----------------------------- MODULE OfficeProofs -----------------------------
(***************************************************************************)
(* Proofs about the requests of the panel, for any company, any number of  *)
(* requests at once and in all: the defaults, the conversion of prospects, *)
(* the stages of deals and chats, and what a delete takes along.           *)
(***************************************************************************)
EXTENDS Office, FiniteSetTheorems, WellFoundedInduction, TLAPS

Table == {"user", "dept", "stage", "project", "chat", "lead", "deal"}
Tables == [user : [User -> Opt(UserRow)], dept : [Dept -> Opt(DeptRow)], stage : [Stage -> Opt(StageRow)],
           project : [Project -> Opt({"row"})], chat : Opt(ChatRow),
           lead : [Lead -> Opt(LeadRow)], deal : [Deal -> Opt(DealRow)]]

Whole(r) == task[r] = [op |-> task[r].op, step |-> task[r].step, arg |-> task[r].arg,
                       seen |-> task[r].seen, since |-> task[r].since]

Shape ==
  /\ db \in Tables /\ kanban \in BOOLEAN
  /\ task = [r \in Slot |-> task[r]] /\ \A r \in Slot : Whole(r)
  /\ gone = [t \in Numbered |-> gone[t]]

\* What requests were asked for, as far as their write relies on it.
Following == {"updateStage", "updateChat"}
FollowUps == [todo : SUBSET {"stage", "dept"}, stage : Opt(Stage), dept : Opt(Dept), found : Opt(Lead \cup Deal)]

AskedTeam(r) ==
  LET arg == task[r].arg  seen == task[r].seen
  IN /\ At(r, "clearDefaultAgent", 1) => arg \in Live("user")
     /\ At(r, "createUser", 1) => arg \in User
     /\ At(r, "updateUser", 1) => arg.user \in Live("user") /\ arg.change \in UserChange /\ seen \in BOOLEAN
     /\ At(r, "createDepartment", 1) => arg \in Dept
     /\ At(r, "updateDepartment", 1) => arg.active \in BOOLEAN /\ seen \in BOOLEAN
     /\ At(r, "deleteDepartment", 1) => arg \in Dept
     /\ At(r, "setDepartmentMembers", 1) => arg.dept \in Dept
     /\ At(r, "createProject", 1) => arg \in Project
     /\ At(r, "deleteProject", 1) => arg \in Project
     /\ At(r, "createStage", 1) => arg.stage \in Stage /\ seen \in Nat
     /\ At(r, "updateStageRow", 1) => arg.order \in Nat

AskedCrm(r) ==
  LET arg == task[r].arg  seen == task[r].seen
  IN /\ At(r, "createLead", 1) => arg \in Lead /\ seen \in LeadRow /\ seen.deal = None /\ ~seen.here
     /\ At(r, "convert", 1) => arg \in Lead /\ seen \in DealRow /\ seen.from = arg
     /\ At(r, "createDeal", 1) => seen \in DealRow /\ seen.from = None
     /\ At(r, "convert", 1) \/ At(r, "createDeal", 1) => (seen.here => db.chat # None)
     /\ At(r, "updateDeal", 1) => seen \in BOOLEAN /\ (seen => db.chat # None)
     /\ At(r, "updateDeal", 2) => db.chat # None

AskedDesk(r) ==
  LET arg == task[r].arg  seen == task[r].seen
  IN /\ At(r, "openChat", 1) \/ At(r, "openChat", 2) => arg \in Lead
     /\ At(r, "openChat", 2) => db.chat # None
     /\ At(r, "updateStage", 1) => db.chat # None
     /\ At(r, "updateChat", 1) => db.chat # None /\ seen.moved \in BOOLEAN /\ (seen.moved => arg.dept # Same)
     /\ task[r].step \in {3, 4} => task[r].op \in Following
     /\ task[r].op \in Following /\ task[r].step \in {2, 3, 4} => seen \in FollowUps

AskedAt(r) == AskedTeam(r) /\ AskedCrm(r) /\ AskedDesk(r)

\* Only a chat that is there has deals and prospects.
Asked ==
  /\ \A k \in Live("deal") : db.deal[k].here => db.chat # None
  /\ \A l \in Live("lead") : db.lead[l].here => db.chat # None
  /\ \A r \in Slot : AskedAt(r)

\* A default is one and active: whoever sets one clears all there are and saw its row
\* active, whoever deactivates a row saw whether it was the default.
Update == [user |-> "updateUser", dept |-> "updateDepartment"]
Target(t, arg) == IF t = "user" THEN arg.user ELSE arg.dept

MarksAt(t, r) ==
  LET set == DefaultOp[t]  update == Update[t]
  IN /\ At(r, set, 2) => set \in task[r].since \/ Defaults(t) \subseteq task[r].seen
     /\ At(r, set, 1) \/ At(r, set, 2) =>
          update \in task[r].since \/ task[r].arg \notin Live(t) \/ db[t][task[r].arg].active
     /\ At(r, update, 1) =>
          set \in task[r].since \/ task[r].seen \/ Target(t, task[r].arg) \notin Defaults(t)

OneDefault(t) == Overlapped(DefaultOp[t], DefaultOp[t]) \/ \A x, y \in Defaults(t) : x = y
ActiveDefault(t) ==
  \/ Overlapped(DefaultOp[t], Update[t]) \/ Overlapped(Update[t], DefaultOp[t])
  \/ \A x \in Defaults(t) : db[t][x].active

MarksSound(t) == OneDefault(t) /\ ActiveDefault(t) /\ \A r \in Slot : MarksAt(t, r)

\* A prospect becomes one deal: the one it is marked with, or is about to be.
Marking(l, k) == \E r \in Slot : At(r, "convert", 2) /\ task[r].arg = l /\ task[r].seen = k

ConvertAt(r) ==
  /\ At(r, "convert", 1) =>
       /\ task[r].arg \in Live("lead") \cup gone["lead"]
       /\ \/ Overlapped("convert", "convert") \/ "convert" \in task[r].since
          \/ task[r].arg \notin Live("lead") \ torn
          \/ \A k \in Live("deal") : db.deal[k].from # task[r].arg
  /\ At(r, "convert", 2) =>
       /\ task[r].seen \in Live("deal") \cup gone["deal"]
       /\ task[r].seen \in Live("deal") => db.deal[task[r].seen].from = task[r].arg

FromLeads == \A k \in Live("deal") : db.deal[k].from # None => db.deal[k].from \in Live("lead") \cup gone["lead"]
MarkedBack == \A l \in Live("lead") : db.lead[l].deal # None =>
                db.lead[l].deal \in Live("deal") /\ db.deal[db.lead[l].deal].from = l
OneDeal == Overlapped("convert", "convert") \/
  \A k \in Live("deal"), l \in Live("lead") \ torn : db.deal[k].from = l =>
    /\ db.lead[l].deal = k \/ Marking(l, k)
    /\ \A j \in Live("deal") : db.deal[j].from = l => j = k

ConversionSound == FromLeads /\ MarkedBack /\ OneDeal /\ \A r \in Slot : ConvertAt(r)

\* A stage that was there is of its department, or gone for good.
Pair(s, d) ==
  s \in Live("stage") \cup gone["stage"] /\ (s \in Live("stage") => db.stage[s].dept = d)
Suits(s, k) ==
  k \in Live("deal") \cup gone["deal"] /\ (k \in Live("deal") => Pair(s, db.deal[k].dept))

StageAt(r) ==
  LET arg == task[r].arg  seen == task[r].seen  since == task[r].since
  IN /\ At(r, "convert", 1) \/ At(r, "createDeal", 1) => Pair(seen.stage, seen.dept)
     /\ At(r, "updateDeal", 1) => Suits(arg.stage, arg.deal)
     /\ task[r].step = 3 => Suits(seen.stage, seen.found)
     /\ At(r, "updateStage", 1) /\ arg # None =>
          /\ arg \in Live("stage") \cup gone["stage"]
          /\ "updateChat" \in since \/ arg \notin Live("stage") \/ db.stage[arg].dept = db.chat.dept
     /\ At(r, "updateChat", 1) => (seen.moved /\ seen.stage # None => Pair(seen.stage, arg.dept))
     /\ At(r, "updateChat", 1) => seen.moved \/
          arg.dept = Same \/ "updateChat" \in since \/ db.chat.dept \in {None, arg.dept}

StagesSound == DealInPipeline /\ StageOfItsDepartment /\ \A r \in Slot : StageAt(r)

\* What is to be deleted was empty.
Joining == {"createUser", "updateUser", "setDepartmentMembers"}
Moving  == {"updateChat", "openChat"}
DeleteAt(r) ==
  LET arg == task[r].arg  since == task[r].since
  IN /\ At(r, "deleteDepartment", 1) =>
          /\ Members(arg) = {} \/ since \cap Joining # {}
          /\ db.chat = None \/ db.chat.dept # arg \/ since \cap Moving # {}
     /\ At(r, "deleteProject", 1) => db.chat = None \/ db.chat.project # arg \/ "updateChat" \in since

DeletesSound == \A r \in Slot : DeleteAt(r)

IInv == Shape /\ Asked /\ (\A t \in {"user", "dept"} : MarksSound(t)) /\ ConversionSound /\ StagesSound /\ DeletesSound
-----------------------------------------------------------------------------
(***************************************************************************)
(* What a step does to the requests and to the tables.                     *)
(***************************************************************************)
Kept(q) == /\ task'[q].op = task[q].op /\ task'[q].step = task[q].step /\ task'[q].arg = task[q].arg
           /\ task'[q].seen = task[q].seen /\ task[q].since \subseteq task'[q].since
Others(r) == \A q \in Slot : q # r => Kept(q)
Missed(r) == \A q \in Slot : q # r => task[q].step = 0 \/ task[r].op \in task'[q].since
Done(r) == task'[r] = Free
Onward(r, n, seen) ==
  /\ task'[r].op = task[r].op /\ task'[r].step = n /\ task'[r].arg = task[r].arg /\ task'[r].seen = seen
  /\ task'[r].since = task[r].since

TaskShape == task' = [r \in Slot |-> task'[r]] /\ \A r \in Slot : Whole(r)'
Still == UNCHANGED <<db, gone, overlaps, kanban>>

\* The tables are what they were but for some.
Only(names) == \A t \in Table : t \notin names => db'[t] = db[t]

\* A write: ids that go are remembered, and so is what the request had missed.
Wrote(r) ==
  /\ TaskShape /\ Others(r) /\ Missed(r) /\ torn' = torn
  /\ gone' = [t \in Numbered |-> gone'[t]]
  /\ \A t \in Numbered : gone'[t] = gone[t] \cup {x \in Live(t) : db'[t][x] = None}
  /\ overlaps' = overlaps \cup {<<task[r].op, o>> : o \in task[r].since}

LEMMA FreeIs == Free.step = 0 /\ Free.since = {}
                /\ Free = [op |-> Free.op, step |-> Free.step, arg |-> Free.arg, seen |-> Free.seen, since |-> Free.since]
  BY DEF Free

LEMMA RecordOnward ==
  ASSUME NEW t, NEW n, NEW s, t = [op |-> t.op, step |-> t.step, arg |-> t.arg, seen |-> t.seen, since |-> t.since]
  PROVE  [[t EXCEPT !.step = n] EXCEPT !.seen = s] = [op |-> t.op, step |-> n, arg |-> t.arg, seen |-> s, since |-> t.since]
  <1> DEFINE op == t.op
             step == t.step
             arg == t.arg
             seen == t.seen
             since == t.since
  <1>1. t = [op |-> op, step |-> step, arg |-> arg, seen |-> seen, since |-> since]
    OBVIOUS
  <1> HIDE DEF op, step, arg, seen, since
  <1>2. [[op |-> op, step |-> step, arg |-> arg, seen |-> seen, since |-> since] EXCEPT !.step = n]
        = [op |-> op, step |-> n, arg |-> arg, seen |-> seen, since |-> since]
    OBVIOUS
  <1>3. [[op |-> op, step |-> n, arg |-> arg, seen |-> seen, since |-> since] EXCEPT !.seen = s]
        = [op |-> op, step |-> n, arg |-> arg, seen |-> s, since |-> since]
    OBVIOUS
  <1> QED
    BY <1>1, <1>2, <1>3, Zenon DEF op, step, arg, seen, since

LEMMA SlotOnward ==
  ASSUME Shape, NEW r \in Slot, NEW n, NEW s
  PROVE  [[task[r] EXCEPT !.step = n] EXCEPT !.seen = s]
         = [op |-> task[r].op, step |-> n, arg |-> task[r].arg, seen |-> s, since |-> task[r].since]
  <1> DEFINE t == task[r]
  <1>1. t = [op |-> t.op, step |-> t.step, arg |-> t.arg, seen |-> t.seen, since |-> t.since]
    BY DEF Shape, Whole
  <1> HIDE DEF t
  <1>2. [[t EXCEPT !.step = n] EXCEPT !.seen = s] = [op |-> t.op, step |-> n, arg |-> t.arg, seen |-> s, since |-> t.since]
    BY <1>1, RecordOnward, Zenon
  <1> QED
    BY <1>2 DEF t

LEMMA WritesDoes ==
  ASSUME Shape, NEW r \in Slot, NEW tables, NEW next, Writes(r, tables, next),
         next = [op |-> next.op, step |-> next.step, arg |-> next.arg, seen |-> next.seen, since |-> next.since]
  PROVE  Wrote(r) /\ task'[r] = next /\ db' = tables
  <1>1. task' = [q \in Slot |-> IF q = r THEN next
                             ELSE IF task[q] = Free THEN Free ELSE [task[q] EXCEPT !.since = @ \cup {task[r].op}]]
    BY DEF Writes
  <1>2. task'[r] = next /\ task' = [q \in Slot |-> task'[q]]
    BY <1>1
  <1>3. ASSUME NEW q \in Slot, q # r PROVE Kept(q) /\ (task[q].step = 0 \/ task[r].op \in task'[q].since) /\ Whole(q)'
    <2>1. CASE task[q] = Free
      <3>1. task'[q] = Free
        BY <1>1, <1>3, <2>1
      <3> QED
        BY <2>1, <3>1, FreeIs DEF Kept, Whole
    <2>2. CASE task[q] # Free
      <3>1. task'[q] = [task[q] EXCEPT !.since = @ \cup {task[r].op}]
        BY <1>1, <1>3, <2>2
      <3>2. Whole(q)
        BY DEF Shape
      <3>3. task'[q] = [op |-> task[q].op, step |-> task[q].step, arg |-> task[q].arg,
                       seen |-> task[q].seen, since |-> task[q].since \cup {task[r].op}]
        BY <3>1, <3>2 DEF Whole
      <3> QED
        BY <3>3 DEF Kept, Whole
    <2> QED
      BY <2>1, <2>2
  <1>4. Whole(r)'
    BY <1>2 DEF Whole
  <1>5. TaskShape /\ Others(r) /\ Missed(r)
    BY <1>2, <1>3, <1>4 DEF TaskShape, Others, Missed
  <1>6. db' = tables /\ torn' = torn /\ overlaps' = overlaps \cup {<<task[r].op, o>> : o \in task[r].since}
        /\ gone' = [t \in Numbered |-> gone[t] \cup {x \in Live(t) : tables[t][x] = None}]
    BY DEF Writes
  <1>7. gone' = [t \in Numbered |-> gone'[t]]
    BY <1>6
  <1>8. \A t \in Numbered : gone'[t] = gone[t] \cup {x \in Live(t) : db'[t][x] = None}
    BY <1>6
  <1> QED
    BY <1>2, <1>5, <1>6, <1>7, <1>8 DEF Wrote

LEMMA RefusedDoes ==
  ASSUME Shape, NEW r \in Slot, Refused(r)
  PROVE  TaskShape /\ Others(r) /\ Done(r) /\ Still /\ torn' = torn
  <1>1. task' = [task EXCEPT ![r] = Free] /\ task = [q \in Slot |-> task[q]] /\ \A q \in Slot : Whole(q)
    BY DEF Refused, Shape
  <1>2. task'[r] = Free /\ (\A q \in Slot : q # r => task'[q] = task[q]) /\ task' = [q \in Slot |-> task'[q]]
    BY <1>1
  <1>3. \A q \in Slot : Whole(q)'
    BY <1>1, <1>2, FreeIs DEF Whole
  <1> QED
    BY <1>2, <1>3 DEF TaskShape, Others, Kept, Done, Still, Refused

LEMMA GoesDoes ==
  ASSUME Shape, NEW r \in Slot, NEW n, NEW seen, Goes(r, n, seen)
  PROVE  TaskShape /\ Others(r) /\ Onward(r, n, seen) /\ Still /\ torn' = torn
  <1>1. task' = [task EXCEPT ![r].step = n, ![r].seen = seen] /\ task = [q \in Slot |-> task[q]] /\ \A q \in Slot : Whole(q)
    BY DEF Goes, Shape
  <1>2. \A q \in Slot : q # r => task'[q] = task[q]
    BY <1>1
  <1>3. task'[r] = [[task[r] EXCEPT !.step = n] EXCEPT !.seen = seen] /\ task' = [q \in Slot |-> task'[q]]
    BY <1>1
  <1>4. task'[r] = [op |-> task[r].op, step |-> n, arg |-> task[r].arg, seen |-> seen, since |-> task[r].since]
    BY <1>1, <1>3 DEF Whole
  <1>5. \A q \in Slot : Whole(q)'
    BY <1>1, <1>2, <1>4 DEF Whole
  <1> QED
    BY <1>2, <1>3, <1>4, <1>5 DEF TaskShape, Others, Kept, Onward, Still, Goes

\* A look: the request knows what it read, and what others have still to write.
Looked(r, op, arg, seen) ==
  /\ TaskShape /\ Others(r) /\ Still /\ torn' = torn
  /\ task'[r].op = op /\ task'[r].step = 1 /\ task'[r].arg = arg /\ task'[r].seen = seen
  /\ \A q \in Slot : task[q].step = 2 => task[q].op \in task'[r].since

LEMMA LookDoes ==
  ASSUME Shape, NEW r \in Slot, NEW op, NEW arg, NEW seen, Look(r, op, arg, seen)
  PROVE  Looked(r, op, arg, seen)
  <1> DEFINE since == {task[q].op : q \in {x \in Slot : task[x].step > 1}}
             new == [op |-> op, step |-> 1, arg |-> arg, seen |-> seen, since |-> since]
  <1>1. task' = [task EXCEPT ![r] = new] /\ task = [q \in Slot |-> task[q]] /\ \A q \in Slot : Whole(q)
    BY DEF Look, Shape
  <1>2. new.op = op /\ new.step = 1 /\ new.arg = arg /\ new.seen = seen /\ new.since = since
        /\ new = [op |-> new.op, step |-> new.step, arg |-> new.arg, seen |-> new.seen, since |-> new.since]
    OBVIOUS
  <1>3. \A q \in Slot : task[q].step = 2 => task[q].op \in since
    OBVIOUS
  <1> HIDE DEF new, since
  <1>4. task'[r] = new /\ (\A q \in Slot : q # r => task'[q] = task[q]) /\ task' = [q \in Slot |-> task'[q]]
    BY <1>1
  <1>5. \A q \in Slot : Whole(q)'
    BY <1>1, <1>2, <1>4 DEF Whole
  <1>6. UNCHANGED <<db, gone, overlaps, kanban>> /\ torn' = torn
    BY DEF Look
  <1> QED
    BY <1>2, <1>3, <1>4, <1>5, <1>6 DEF TaskShape, Others, Kept, Looked, Still

\* Every request is lost: the API dies.
Lost ==
  /\ TaskShape /\ Still /\ \A q \in Slot : Done(q)
  /\ torn' = torn \cup {task[r].arg : r \in {x \in Slot : At(x, "convert", 2)}}

LEMMA LostDoes ==
  ASSUME Shape, AllLost
  PROVE  Lost
  <1>1. task' = [r \in Slot |-> Free]
    BY DEF AllLost
  <1>2. \A q \in Slot : Done(q) /\ Whole(q)'
    BY <1>1, FreeIs DEF Done, Whole
  <1> QED
    BY <1>1, <1>2 DEF AllLost, Lost, TaskShape, Still

-----------------------------------------------------------------------------
(***************************************************************************)
(* What a request has read when it goes ahead.                             *)
(***************************************************************************)
LEMMA LeastExists ==
  ASSUME NEW S, S \subseteq Nat, S # {}
  PROVE  \E i \in S : \A k \in S : i <= k
  <1> DEFINE R == OpToRel(<, Nat)
  <1>1. IsWellFoundedOn(R, Nat)
    BY NatLessThanWellFounded
  <1>2. \A i, k \in Nat : k < i => <<k, i>> \in R
    BY DEF OpToRel
  <1> HIDE DEF R
  <1>3. PICK i \in S : \A k \in S : ~(<<k, i>> \in R)
    BY <1>1, WFMin
  <1>4. ASSUME NEW k \in S PROVE i <= k
    <2>1. i \in Nat /\ k \in Nat
      OBVIOUS
    <2>2. ~(k < i)
      BY <1>2, <1>3, <2>1, Zenon
    <2> QED
      BY <2>1, <2>2
  <1> QED
    BY <1>4

LEMMA StagesAreStages ==
  ASSUME Shape
  PROVE  /\ \A s \in Live("stage") : s \in Stage /\ s \in Nat /\ s # None /\ db.stage[s] \in StageRow
         /\ \A d : StagesOf(d) \subseteq Live("stage")
         /\ \A d : \A s \in StagesOf(d) : db.stage[s].dept = d
  <1>1. db.stage \in [Stage -> Opt(StageRow)] /\ db["stage"] = db.stage
    BY DEF Shape, Tables
  <1> QED
    BY <1>1, TablesAssumption DEF Live, Opt, StagesOf

\* The first stage of a department is one of its stages, when it has any.
LEMMA FirstIsOfDept ==
  ASSUME Shape, NEW d, FirstStage(d) # None
  PROVE  FirstStage(d) \in StagesOf(d)
  <1> DEFINE S == StagesOf(d)
             O == {db.stage[s].order : s \in S}
  <1>1. S # {}
    BY DEF FirstStage
  <1>2. \A s \in S : s \in Nat /\ db.stage[s].order \in Nat
    BY StagesAreStages DEF StageRow
  <1>3. O \subseteq Nat /\ O # {}
    BY <1>1, <1>2
  <1>4. PICK o \in O : \A k \in O : o <= k
    BY <1>3, LeastExists
  <1> DEFINE F == {s \in S : db.stage[s].order = o}
  <1>5. F \subseteq Nat /\ F # {}
    BY <1>2, <1>4
  <1>6. PICK f \in F : \A k \in F : f <= k
    BY <1>5, LeastExists
  <1>7. ASSUME NEW t \in S \ {f}
        PROVE  db.stage[f].order < db.stage[t].order \/ (db.stage[f].order = db.stage[t].order /\ f < t)
    <2>1. o \in Nat /\ db.stage[t].order \in Nat /\ o <= db.stage[t].order /\ db.stage[f].order = o /\ f \in Nat /\ t \in Nat
      BY <1>2, <1>3, <1>4, <1>6
    <2>2. CASE db.stage[t].order = o
      <3>1. t \in F
        BY <2>2
      <3>2. f <= t /\ f # t
        BY <1>6, <3>1
      <3> QED
        BY <2>1, <2>2, <3>2
    <2>3. CASE db.stage[t].order # o
      BY <2>1, <2>3
    <2> QED
      BY <2>2, <2>3
  <1>8. \E s \in StagesOf(d) : \A t \in StagesOf(d) \ {s} :
         \/ db.stage[s].order < db.stage[t].order
         \/ db.stage[s].order = db.stage[t].order /\ s < t
    BY <1>6, <1>7
  <1>9. FirstStage(d) = CHOOSE s \in StagesOf(d) : \A t \in StagesOf(d) \ {s} :
         \/ db.stage[s].order < db.stage[t].order
         \/ db.stage[s].order = db.stage[t].order /\ s < t
    BY <1>1 DEF FirstStage
  <1> HIDE DEF S, O, F
  <1> QED
    BY <1>8, <1>9, Zenon

\* The grounds of each request: what its look found.
TeamGrounds(op, arg, seen) ==
  /\ \A t \in {"user", "dept"} : op = DefaultOp[t] => arg \in Live(t) /\ db[t][arg].active
  /\ op = "clearDefaultAgent" => arg \in Live("user")
  /\ op = "createUser" => arg \in User
  /\ op = "updateUser" => arg.user \in Live("user") /\ arg.change \in UserChange /\ seen = db.user[arg.user].dft
  /\ op = "createDepartment" => arg \in Dept
  /\ op = "updateDepartment" => arg.dept \in Live("dept") /\ arg.active \in BOOLEAN /\ seen = db.dept[arg.dept].dft
  /\ op = "deleteDepartment" => arg \in Dept /\ Members(arg) = {} /\ (db.chat # None => db.chat.dept # arg)
  /\ op = "setDepartmentMembers" => arg.dept \in Dept
  /\ op = "createProject" => arg \in Project
  /\ op = "deleteProject" => arg \in Project /\ (db.chat # None => db.chat.project # arg)
  /\ op = "createStage" => arg.stage \in Stage /\ seen \in Nat
  /\ op = "updateStageRow" => arg.order \in Nat

CrmGrounds(op, arg, seen) ==
  /\ op = "createLead" => arg \in Lead /\ seen \in LeadRow /\ seen.deal = None /\ ~seen.here
  /\ op = "convert" => /\ arg \in Live("lead") /\ db.lead[arg].deal = None /\ seen \in DealRow /\ seen.from = arg
                       /\ seen.here = db.lead[arg].here /\ seen.stage \in StagesOf(seen.dept)
  /\ op = "createDeal" => /\ seen \in DealRow /\ seen.from = None /\ seen.stage \in StagesOf(seen.dept)
                          /\ seen.here => db.chat # None
  /\ op = "updateDeal" => /\ arg.deal \in Live("deal") /\ arg.stage \in StagesOf(db.deal[arg.deal].dept)
                          /\ seen = db.deal[arg.deal].here

DeskGrounds(op, arg, seen) ==
  /\ op = "updateStage" => db.chat # None /\ (arg # None => arg \in Live("stage") /\ db.stage[arg].dept = db.chat.dept)
  /\ op = "updateChat" =>
       /\ db.chat # None /\ seen.moved = (arg.dept # Same /\ arg.dept # db.chat.dept)
       /\ seen.moved /\ seen.stage # None => seen.stage \in StagesOf(arg.dept)
  /\ op = "openChat" => arg \in Lead

Looks(r) == TeamLooks(r) \/ CrmLooks(r) \/ DeskLooks(r)
Grounds(op, arg, seen) == TeamGrounds(op, arg, seen) /\ CrmGrounds(op, arg, seen) /\ DeskGrounds(op, arg, seen)
LooksSoundly(r) == \E op, arg, seen : Looked(r, op, arg, seen) /\ Grounds(op, arg, seen)

LEMMA RowsAreRows ==
  ASSUME Shape
  PROVE  /\ \A u \in Live("user") : u \in User /\ db.user[u] \in UserRow
         /\ \A d \in Live("dept") : d \in Dept /\ db.dept[d] \in DeptRow
         /\ \A l \in Live("lead") : l \in Lead /\ db.lead[l] \in LeadRow
         /\ \A k \in Live("deal") : k \in Deal /\ db.deal[k] \in DealRow
         /\ \A p \in Live("project") : p \in Project
         /\ db["user"] = db.user /\ db["dept"] = db.dept
  <1>1. db.user \in [User -> Opt(UserRow)] /\ db.dept \in [Dept -> Opt(DeptRow)] /\ db.lead \in [Lead -> Opt(LeadRow)]
        /\ db.deal \in [Deal -> Opt(DealRow)] /\ db.project \in [Project -> Opt({"row"})]
    BY DEF Shape, Tables
  <1> QED
    BY <1>1 DEF Live, Opt
LEMMA LookIsSound ==
  ASSUME Shape, NEW r \in Slot, NEW op, NEW arg, NEW seen, Look(r, op, arg, seen), Grounds(op, arg, seen)
  PROVE  LooksSoundly(r)
  BY LookDoes DEF LooksSoundly

LEMMA TeamLooksSound ==
  ASSUME Shape, NEW r \in Slot, TeamLooks(r)
  PROVE  LooksSoundly(r)
  <1>1. ASSUME NEW u, SetDefault(r, "user", u) PROVE LooksSoundly(r)
    <2> DEFINE arg == u
               seen == None
    <2>1. Look(r, DefaultOp["user"], arg, seen)
      BY <1>1 DEF SetDefault
    <2>2. Grounds(DefaultOp["user"], arg, seen)
      BY <1>1, RowsAreRows, NoRowAssumption, TablesAssumption DEF Grounds, TeamGrounds, CrmGrounds, DeskGrounds, DefaultOp, SetDefault
    <2> QED
      BY <2>1, <2>2, LookIsSound
  <1>2. ASSUME NEW d, SetDefault(r, "dept", d) PROVE LooksSoundly(r)
    <2> DEFINE arg == d
               seen == None
    <2>1. Look(r, DefaultOp["dept"], arg, seen)
      BY <1>2 DEF SetDefault
    <2>2. Grounds(DefaultOp["dept"], arg, seen)
      BY <1>2, RowsAreRows, NoRowAssumption, TablesAssumption DEF Grounds, TeamGrounds, CrmGrounds, DeskGrounds, DefaultOp, SetDefault
    <2> QED
      BY <2>1, <2>2, LookIsSound
  <1>3. ASSUME NEW u, ClearDefaultAgent(r, u) PROVE LooksSoundly(r)
    <2> DEFINE arg == u
               seen == None
    <2>1. Look(r, "clearDefaultAgent", arg, seen)
      BY <1>3 DEF ClearDefaultAgent
    <2>2. Grounds("clearDefaultAgent", arg, seen)
      BY <1>3, RowsAreRows, NoRowAssumption, TablesAssumption DEF Grounds, TeamGrounds, CrmGrounds, DeskGrounds, DefaultOp, ClearDefaultAgent
    <2> QED
      BY <2>1, <2>2, LookIsSound
  <1>4. ASSUME NEW u \in User, NEW in, CreateUser(r, u, in) PROVE LooksSoundly(r)
    <2> DEFINE arg == u
               seen == in
    <2>1. Look(r, "createUser", arg, seen)
      BY <1>4 DEF CreateUser
    <2>2. Grounds("createUser", arg, seen)
      BY <1>4, RowsAreRows, NoRowAssumption, TablesAssumption DEF Grounds, TeamGrounds, CrmGrounds, DeskGrounds, DefaultOp, CreateUser
    <2> QED
      BY <2>1, <2>2, LookIsSound
  <1>5. ASSUME NEW u, NEW c \in UserChange, UpdateUser(r, u, c) PROVE LooksSoundly(r)
    <2> DEFINE arg == [user |-> u, change |-> c]
               seen == db.user[u].dft
    <2>1. Look(r, "updateUser", arg, seen)
      BY <1>5 DEF UpdateUser
    <2>2. Grounds("updateUser", arg, seen)
      BY <1>5, RowsAreRows, NoRowAssumption, TablesAssumption DEF Grounds, TeamGrounds, CrmGrounds, DeskGrounds, DefaultOp, UpdateUser
    <2> QED
      BY <2>1, <2>2, LookIsSound
  <1>6. ASSUME NEW d \in Dept, CreateDepartment(r, d) PROVE LooksSoundly(r)
    <2> DEFINE arg == d
               seen == None
    <2>1. Look(r, "createDepartment", arg, seen)
      BY <1>6 DEF CreateDepartment
    <2>2. Grounds("createDepartment", arg, seen)
      BY <1>6, RowsAreRows, NoRowAssumption, TablesAssumption DEF Grounds, TeamGrounds, CrmGrounds, DeskGrounds, DefaultOp, CreateDepartment
    <2> QED
      BY <2>1, <2>2, LookIsSound
  <1>7. ASSUME NEW d \in Dept, DeleteDepartment(r, d) PROVE LooksSoundly(r)
    <2> DEFINE arg == d
               seen == None
    <2>1. Look(r, "deleteDepartment", arg, seen)
      BY <1>7 DEF DeleteDepartment
    <2>2. Grounds("deleteDepartment", arg, seen)
      BY <1>7, RowsAreRows, NoRowAssumption, TablesAssumption DEF Grounds, TeamGrounds, CrmGrounds, DeskGrounds, DefaultOp, DeleteDepartment
    <2> QED
      BY <2>1, <2>2, LookIsSound
  <1>8. ASSUME NEW d, NEW active \in BOOLEAN, UpdateDepartment(r, d, active) PROVE LooksSoundly(r)
    <2> DEFINE arg == [dept |-> d, active |-> active]
               seen == db.dept[d].dft
    <2>1. Look(r, "updateDepartment", arg, seen)
      BY <1>8 DEF UpdateDepartment
    <2>2. Grounds("updateDepartment", arg, seen)
      BY <1>8, RowsAreRows, NoRowAssumption, TablesAssumption DEF Grounds, TeamGrounds, CrmGrounds, DeskGrounds, DefaultOp, UpdateDepartment
    <2> QED
      BY <2>1, <2>2, LookIsSound
  <1>9. ASSUME NEW d \in Dept, NEW us, SetDepartmentMembers(r, d, us) PROVE LooksSoundly(r)
    <2> DEFINE arg == [dept |-> d, users |-> us]
               seen == None
    <2>1. Look(r, "setDepartmentMembers", arg, seen)
      BY <1>9 DEF SetDepartmentMembers
    <2>2. Grounds("setDepartmentMembers", arg, seen)
      BY <1>9, RowsAreRows, NoRowAssumption, TablesAssumption DEF Grounds, TeamGrounds, CrmGrounds, DeskGrounds, DefaultOp, SetDepartmentMembers
    <2> QED
      BY <2>1, <2>2, LookIsSound
  <1>10. ASSUME NEW p \in Project, CreateProject(r, p) PROVE LooksSoundly(r)
    <2> DEFINE arg == p
               seen == None
    <2>1. Look(r, "createProject", arg, seen)
      BY <1>10 DEF CreateProject
    <2>2. Grounds("createProject", arg, seen)
      BY <1>10, RowsAreRows, NoRowAssumption, TablesAssumption DEF Grounds, TeamGrounds, CrmGrounds, DeskGrounds, DefaultOp, CreateProject
    <2> QED
      BY <2>1, <2>2, LookIsSound
  <1>11. ASSUME NEW p \in Project, DeleteProject(r, p) PROVE LooksSoundly(r)
    <2> DEFINE arg == p
               seen == None
    <2>1. Look(r, "deleteProject", arg, seen)
      BY <1>11 DEF DeleteProject
    <2>2. Grounds("deleteProject", arg, seen)
      BY <1>11, RowsAreRows, NoRowAssumption, TablesAssumption DEF Grounds, TeamGrounds, CrmGrounds, DeskGrounds, DefaultOp, DeleteProject
    <2> QED
      BY <2>1, <2>2, LookIsSound
  <1>12. ASSUME NEW s \in Stage, NEW d, CreateStage(r, s, d) PROVE LooksSoundly(r)
    <2> DEFINE arg == [stage |-> s, dept |-> d]
               seen == Cardinality(StagesOf(d))
    <2>1. Look(r, "createStage", arg, seen)
      BY <1>12 DEF CreateStage
    <2>2. Grounds("createStage", arg, seen)
      <3>1. StagesOf(d) \subseteq Stage
        BY StagesAreStages
      <3>2. Cardinality(StagesOf(d)) \in Nat
        BY <3>1, TablesAssumption, FS_Subset, FS_CardinalityType
      <3> QED
        BY <1>12, <3>2 DEF Grounds, TeamGrounds, CrmGrounds, DeskGrounds, DefaultOp
    <2> QED
      BY <2>1, <2>2, LookIsSound
  <1>13. ASSUME NEW s, NEW n \in 0..1, UpdateStageRow(r, s, n) PROVE LooksSoundly(r)
    <2> DEFINE arg == [stage |-> s, order |-> n]
               seen == None
    <2>1. Look(r, "updateStageRow", arg, seen)
      BY <1>13 DEF UpdateStageRow
    <2>2. Grounds("updateStageRow", arg, seen)
      BY <1>13, RowsAreRows, NoRowAssumption, TablesAssumption DEF Grounds, TeamGrounds, CrmGrounds, DeskGrounds, DefaultOp, UpdateStageRow
    <2> QED
      BY <2>1, <2>2, LookIsSound
  <1>14. ASSUME NEW s, DeleteStage(r, s) PROVE LooksSoundly(r)
    <2> DEFINE arg == s
               seen == None
    <2>1. Look(r, "deleteStage", arg, seen)
      BY <1>14 DEF DeleteStage
    <2>2. Grounds("deleteStage", arg, seen)
      BY <1>14, RowsAreRows, NoRowAssumption, TablesAssumption DEF Grounds, TeamGrounds, CrmGrounds, DeskGrounds, DefaultOp, DeleteStage
    <2> QED
      BY <2>1, <2>2, LookIsSound
  <1> QED
    BY <1>1, <1>2, <1>3, <1>4, <1>5, <1>6, <1>7, <1>8, <1>9, <1>10, <1>11, <1>12, <1>13, <1>14 DEF TeamLooks

LEMMA CrmLooksSound ==
  ASSUME Shape, NEW r \in Slot, CrmLooks(r)
  PROVE  LooksSoundly(r)
  <1>1. ASSUME NEW l \in Lead, NEW d \in Dept \cup {None}, CreateLead(r, l, d) PROVE LooksSoundly(r)
    <2> DEFINE arg == l
               seen == [dept |-> d, deal |-> None, here |-> FALSE]
    <2>1. Look(r, "createLead", arg, seen)
      BY <1>1 DEF CreateLead
    <2>2. Grounds("createLead", arg, seen)
      BY DEF LeadRow, Grounds, TeamGrounds, CrmGrounds, DeskGrounds, DefaultOp
    <2> QED
      BY <2>1, <2>2, LookIsSound
  <1>2. ASSUME NEW l, NEW d, UpdateLead(r, l, d) PROVE LooksSoundly(r)
    <2> DEFINE arg == [lead |-> l, dept |-> d]
               seen == None
    <2>1. Look(r, "updateLead", arg, seen)
      BY <1>2 DEF UpdateLead
    <2>2. Grounds("updateLead", arg, seen)
      BY <1>2, RowsAreRows, NoRowAssumption, TablesAssumption DEF Grounds, TeamGrounds, CrmGrounds, DeskGrounds, DefaultOp, UpdateLead
    <2> QED
      BY <2>1, <2>2, LookIsSound
  <1>3. ASSUME NEW l, RemoveLead(r, l) PROVE LooksSoundly(r)
    <2> DEFINE arg == l
               seen == None
    <2>1. Look(r, "removeLead", arg, seen)
      BY <1>3 DEF RemoveLead
    <2>2. Grounds("removeLead", arg, seen)
      BY <1>3, RowsAreRows, NoRowAssumption, TablesAssumption DEF Grounds, TeamGrounds, CrmGrounds, DeskGrounds, DefaultOp, RemoveLead
    <2> QED
      BY <2>1, <2>2, LookIsSound
  <1>4. ASSUME NEW l, Convert(r, l) PROVE LooksSoundly(r)
    <2> DEFINE arg == l
               seen == [dept |-> db.lead[l].dept, stage |-> FirstStage(db.lead[l].dept), here |-> db.lead[l].here, from |-> l]
    <2>1. Look(r, "convert", arg, seen)
      BY <1>4 DEF Convert
    <2>2. Grounds("convert", arg, seen)
      <3>1. l \in Live("lead") /\ db.lead[l].deal = None /\ db.lead[l].dept # None /\ FirstStage(db.lead[l].dept) # None
        BY <1>4 DEF Convert
      <3>2. l \in Lead /\ db.lead[l].dept \in Dept /\ db.lead[l].here \in BOOLEAN
        BY <3>1, RowsAreRows DEF LeadRow
      <3>3. FirstStage(db.lead[l].dept) \in StagesOf(db.lead[l].dept)
        BY <3>1, FirstIsOfDept
      <3>4. FirstStage(db.lead[l].dept) \in Stage
        BY <3>3, StagesAreStages
      <3>5. seen \in DealRow
        BY <3>2, <3>4 DEF DealRow
      <3> QED
        BY <3>1, <3>3, <3>5 DEF Grounds, TeamGrounds, CrmGrounds, DeskGrounds, DefaultOp
    <2> QED
      BY <2>1, <2>2, LookIsSound
  <1>5. ASSUME NEW d \in Dept, NEW s, NEW here \in BOOLEAN, CreateDeal(r, d, s, here) PROVE LooksSoundly(r)
    <2> DEFINE arg == None
               seen == [dept |-> d, stage |-> s, here |-> here, from |-> None]
    <2>1. Look(r, "createDeal", arg, seen)
      BY <1>5 DEF CreateDeal, InPipeline
    <2>2. Grounds("createDeal", arg, seen)
      <3>1. s \in StagesOf(d) /\ (here => db.chat # None)
        BY <1>5 DEF CreateDeal, InPipeline
      <3>2. s \in Stage
        BY <3>1, StagesAreStages
      <3>3. seen \in DealRow
        BY <1>5, <3>2 DEF DealRow
      <3> QED
        BY <3>1, <3>3 DEF Grounds, TeamGrounds, CrmGrounds, DeskGrounds, DefaultOp
    <2> QED
      BY <2>1, <2>2, LookIsSound
  <1>6. ASSUME NEW k, NEW s, UpdateDeal(r, k, s) PROVE LooksSoundly(r)
    <2> DEFINE arg == [deal |-> k, stage |-> s]
               seen == db.deal[k].here
    <2>1. Look(r, "updateDeal", arg, seen)
      BY <1>6 DEF UpdateDeal, InPipeline
    <2>2. Grounds("updateDeal", arg, seen)
      BY <1>6, RowsAreRows, NoRowAssumption, TablesAssumption DEF Grounds, TeamGrounds, CrmGrounds, DeskGrounds, DefaultOp, UpdateDeal, InPipeline
    <2> QED
      BY <2>1, <2>2, LookIsSound
  <1>7. ASSUME NEW k, RemoveDeal(r, k) PROVE LooksSoundly(r)
    <2> DEFINE arg == k
               seen == None
    <2>1. Look(r, "removeDeal", arg, seen)
      BY <1>7 DEF RemoveDeal
    <2>2. Grounds("removeDeal", arg, seen)
      BY <1>7, RowsAreRows, NoRowAssumption, TablesAssumption DEF Grounds, TeamGrounds, CrmGrounds, DeskGrounds, DefaultOp, RemoveDeal
    <2> QED
      BY <2>1, <2>2, LookIsSound
  <1> QED
    BY <1>1, <1>2, <1>3, <1>4, <1>5, <1>6, <1>7 DEF CrmLooks

LEMMA DeskLooksSound ==
  ASSUME Shape, NEW r \in Slot, DeskLooks(r)
  PROVE  LooksSoundly(r)
  <1>1. ASSUME NEW s, UpdateStage(r, s) PROVE LooksSoundly(r)
    <2> DEFINE arg == s
               seen == None
    <2>1. Look(r, "updateStage", arg, seen)
      BY <1>1 DEF UpdateStage
    <2>2. Grounds("updateStage", arg, seen)
      BY <1>1, RowsAreRows, NoRowAssumption, TablesAssumption DEF Grounds, TeamGrounds, CrmGrounds, DeskGrounds, DefaultOp, UpdateStage
    <2> QED
      BY <2>1, <2>2, LookIsSound
  <1>2. ASSUME NEW c, UpdateChat(r, c) PROVE LooksSoundly(r)
    <2> DEFINE arg == [dept |-> DeptOf(c), project |-> c.project]
               seen == [moved |-> DeptOf(c) # Same /\ DeptOf(c) # db.chat.dept, stage |-> IF DeptOf(c) # Same /\ DeptOf(c) # db.chat.dept /\ DeptOf(c) # None THEN FirstStage(DeptOf(c)) ELSE None]
    <2>1. Look(r, "updateChat", arg, seen)
      BY <1>2 DEF UpdateChat
    <2>2. Grounds("updateChat", arg, seen)
      <3>1. db.chat # None
        BY <1>2 DEF UpdateChat
      <3>2. seen.stage # None => seen.stage \in StagesOf(DeptOf(c))
        BY FirstIsOfDept
      <3> QED
        BY <3>1, <3>2 DEF Grounds, TeamGrounds, CrmGrounds, DeskGrounds, DefaultOp
    <2> QED
      BY <2>1, <2>2, LookIsSound
  <1>3. ASSUME NEW l \in Lead, OpenChat(r, l) PROVE LooksSoundly(r)
    <2>1. PICK d : Look(r, "openChat", l, d)
      BY <1>3 DEF OpenChat
    <2>2. Grounds("openChat", l, d)
      BY DEF Grounds, TeamGrounds, CrmGrounds, DeskGrounds, DefaultOp
    <2> QED
      BY <2>1, <2>2, LookIsSound
  <1> QED
    BY <1>1, <1>2, <1>3 DEF DeskLooks

-----------------------------------------------------------------------------
(***************************************************************************)
(* What each write does to the rows, as far as the invariant reads them.   *)
(***************************************************************************)
Attached ==
  /\ \A k \in Live("deal") : db.deal[k].here => db.chat # None
  /\ \A l \in Live("lead") : db.lead[l].here => db.chat # None

\* A write leaves tables behind; users and the chat never go.
Sets(r, names) ==
  /\ Wrote(r) /\ db' \in Tables /\ Only(names) /\ Attached'
  /\ \A u \in Live("user") : u \in Live("user")'
  /\ db.chat # None => db'.chat # None

\* Nobody becomes a default, and who is there is active or was not.
Mild(t) ==
  /\ \A x \in Defaults(t)' : x \in Defaults(t)
  /\ \A x \in Live(t)' : db'[t][x].active \/ (x \in Live(t) /\ ~db[t][x].active)

NoneJoins == \A d : Members(d)' \subseteq Members(d)

LEMMA TablesAre ==
  ASSUME Shape
  PROVE  /\ db = [user |-> db.user, dept |-> db.dept, stage |-> db.stage, project |-> db.project,
                  chat |-> db.chat, lead |-> db.lead, deal |-> db.deal]
         /\ db.user \in [User -> Opt(UserRow)] /\ db.dept \in [Dept -> Opt(DeptRow)]
         /\ db.stage \in [Stage -> Opt(StageRow)] /\ db.project \in [Project -> Opt({"row"})]
         /\ db.chat \in Opt(ChatRow) /\ db.lead \in [Lead -> Opt(LeadRow)] /\ db.deal \in [Deal -> Opt(DealRow)]
  BY DEF Shape, Tables

LEMMA RowsLive ==
  ASSUME Shape, Asked
  PROVE  /\ \A u \in Live("user") : db.user[u] # None
         /\ \A k \in Deal : db.deal[k] # None /\ db.deal[k].here => db.chat # None
         /\ \A l \in Lead : db.lead[l] # None /\ db.lead[l].here => db.chat # None
  BY TablesAre DEF Asked, Live

\* The tables after a write are tables, and those not named are as before.
NewTables(names) ==
  /\ db' = [user |-> db'.user, dept |-> db'.dept, stage |-> db'.stage, project |-> db'.project,
            chat |-> db'.chat, lead |-> db'.lead, deal |-> db'.deal]
  /\ IF "user" \in names THEN db'.user \in [User -> Opt(UserRow)] ELSE db'.user = db.user
  /\ IF "dept" \in names THEN db'.dept \in [Dept -> Opt(DeptRow)] ELSE db'.dept = db.dept
  /\ IF "stage" \in names THEN db'.stage \in [Stage -> Opt(StageRow)] ELSE db'.stage = db.stage
  /\ IF "project" \in names THEN db'.project \in [Project -> Opt({"row"})] ELSE db'.project = db.project
  /\ IF "chat" \in names THEN db'.chat \in Opt(ChatRow) ELSE db'.chat = db.chat
  /\ IF "lead" \in names THEN db'.lead \in [Lead -> Opt(LeadRow)] ELSE db'.lead = db.lead
  /\ IF "deal" \in names THEN db'.deal \in [Deal -> Opt(DealRow)] ELSE db'.deal = db.deal

LEMMA TablesSet ==
  ASSUME Shape, Asked, NEW r \in Slot, Wrote(r), NEW names, NewTables(names),
         \A u \in Live("user") : db'.user[u] # None, db.chat # None => db'.chat # None,
         "deal" \in names => \A k \in Deal : db'.deal[k] # None /\ db'.deal[k].here => db'.chat # None,
         "lead" \in names => \A l \in Lead : db'.lead[l] # None /\ db'.lead[l].here => db'.chat # None
  PROVE  Sets(r, names)
  <1>1. db' \in Tables
    BY TablesAre DEF Tables, NewTables
  <1>2. Only(names)
    BY DEF Only, Table, NewTables
  <1>3. db'.lead \in [Lead -> Opt(LeadRow)] /\ db'.deal \in [Deal -> Opt(DealRow)] /\ db'.user \in [User -> Opt(UserRow)]
    BY <1>1 DEF Tables
  <1>4. /\ \A k \in Deal : db'.deal[k] # None /\ db'.deal[k].here => db'.chat # None
        /\ \A l \in Lead : db'.lead[l] # None /\ db'.lead[l].here => db'.chat # None
    BY RowsLive DEF NewTables
  <1>5. Attached'
    BY <1>3, <1>4 DEF Attached, Live
  <1>6. \A u \in Live("user") : u \in Live("user")'
    BY <1>3, TablesAre DEF Live
  <1> QED
    BY <1>1, <1>2, <1>5, <1>6 DEF Sets

LEMMA UserSet ==
  ASSUME Shape, Asked, NEW r \in Slot, Wrote(r), NEW x \in User, NEW row \in UserRow, db' = [db EXCEPT !.user[x] = row]
  PROVE  /\ Sets(r, {"user"}) /\ Live("user")' = Live("user") \cup {x}
         /\ db'.user[x] = row /\ \A y \in Live("user") : y # x => db'.user[y] = db.user[y]
  <1> DEFINE T == [db.user EXCEPT ![x] = row]
  <1>1. row # None
    BY NoRowAssumption
  <1>2. T \in [User -> Opt(UserRow)] /\ T[x] = row /\ \A y \in User : y # x => T[y] = db.user[y]
    BY TablesAre DEF Opt
  <1>3. db' = [user |-> T, dept |-> db.dept, stage |-> db.stage, project |-> db.project, chat |-> db.chat, lead |-> db.lead, deal |-> db.deal]
    BY TablesAre
  <1> HIDE DEF T
  <1>4. db'.user = T /\ NewTables({"user"}) /\ db'.chat = db.chat /\ db'.user = T
    <2>1. db'.user = T /\ db'.dept = db.dept /\ db'.stage = db.stage /\ db'.project = db.project /\ db'.chat = db.chat /\ db'.lead = db.lead /\ db'.deal = db.deal
      BY <1>3
    <2>2. db' = [user |-> db'.user, dept |-> db'.dept, stage |-> db'.stage, project |-> db'.project,
                 chat |-> db'.chat, lead |-> db'.lead, deal |-> db'.deal]
      BY <1>3, <2>1
    <2> QED
      BY <1>2, <2>1, <2>2 DEF NewTables
  <1>5. Live("user")' = Live("user") \cup {x}
    BY <1>1, <1>2, <1>4, TablesAre DEF Live
  <1>6. Sets(r, {"user"})
    <2>1. \A u \in Live("user") : db'.user[u] # None
      BY <1>1, <1>2, <1>4, RowsLive, RowsAreRows
    <2>2. db.chat # None => db'.chat # None
      BY <1>4
    <2> QED
      BY <1>4, <2>1, <2>2, TablesSet
  <1> QED
    BY <1>2, <1>4, <1>5, <1>6, RowsAreRows, StagesAreStages

LEMMA DeptSet ==
  ASSUME Shape, Asked, NEW r \in Slot, Wrote(r), NEW x \in Dept, NEW row \in DeptRow, db' = [db EXCEPT !.dept[x] = row]
  PROVE  /\ Sets(r, {"dept"}) /\ Live("dept")' = Live("dept") \cup {x}
         /\ db'.dept[x] = row /\ \A y \in Live("dept") : y # x => db'.dept[y] = db.dept[y]
  <1> DEFINE T == [db.dept EXCEPT ![x] = row]
  <1>1. row # None
    BY NoRowAssumption
  <1>2. T \in [Dept -> Opt(DeptRow)] /\ T[x] = row /\ \A y \in Dept : y # x => T[y] = db.dept[y]
    BY TablesAre DEF Opt
  <1>3. db' = [user |-> db.user, dept |-> T, stage |-> db.stage, project |-> db.project, chat |-> db.chat, lead |-> db.lead, deal |-> db.deal]
    BY TablesAre
  <1> HIDE DEF T
  <1>4. db'.dept = T /\ NewTables({"dept"}) /\ db'.chat = db.chat /\ db'.user = db.user
    <2>1. db'.user = db.user /\ db'.dept = T /\ db'.stage = db.stage /\ db'.project = db.project /\ db'.chat = db.chat /\ db'.lead = db.lead /\ db'.deal = db.deal
      BY <1>3
    <2>2. db' = [user |-> db'.user, dept |-> db'.dept, stage |-> db'.stage, project |-> db'.project,
                 chat |-> db'.chat, lead |-> db'.lead, deal |-> db'.deal]
      BY <1>3, <2>1
    <2> QED
      BY <1>2, <2>1, <2>2 DEF NewTables
  <1>5. Live("dept")' = Live("dept") \cup {x}
    BY <1>1, <1>2, <1>4, TablesAre DEF Live
  <1>6. Sets(r, {"dept"})
    <2>1. \A u \in Live("user") : db'.user[u] # None
      BY <1>1, <1>2, <1>4, RowsLive, RowsAreRows
    <2>2. db.chat # None => db'.chat # None
      BY <1>4
    <2> QED
      BY <1>4, <2>1, <2>2, TablesSet
  <1> QED
    BY <1>2, <1>4, <1>5, <1>6, RowsAreRows, StagesAreStages

LEMMA StageSet ==
  ASSUME Shape, Asked, NEW r \in Slot, Wrote(r), NEW x \in Stage, NEW row \in StageRow, db' = [db EXCEPT !.stage[x] = row]
  PROVE  /\ Sets(r, {"stage"}) /\ Live("stage")' = Live("stage") \cup {x}
         /\ db'.stage[x] = row /\ \A y \in Live("stage") : y # x => db'.stage[y] = db.stage[y]
  <1> DEFINE T == [db.stage EXCEPT ![x] = row]
  <1>1. row # None
    BY NoRowAssumption
  <1>2. T \in [Stage -> Opt(StageRow)] /\ T[x] = row /\ \A y \in Stage : y # x => T[y] = db.stage[y]
    BY TablesAre DEF Opt
  <1>3. db' = [user |-> db.user, dept |-> db.dept, stage |-> T, project |-> db.project, chat |-> db.chat, lead |-> db.lead, deal |-> db.deal]
    BY TablesAre
  <1> HIDE DEF T
  <1>4. db'.stage = T /\ NewTables({"stage"}) /\ db'.chat = db.chat /\ db'.user = db.user
    <2>1. db'.user = db.user /\ db'.dept = db.dept /\ db'.stage = T /\ db'.project = db.project /\ db'.chat = db.chat /\ db'.lead = db.lead /\ db'.deal = db.deal
      BY <1>3
    <2>2. db' = [user |-> db'.user, dept |-> db'.dept, stage |-> db'.stage, project |-> db'.project,
                 chat |-> db'.chat, lead |-> db'.lead, deal |-> db'.deal]
      BY <1>3, <2>1
    <2> QED
      BY <1>2, <2>1, <2>2 DEF NewTables
  <1>5. Live("stage")' = Live("stage") \cup {x}
    BY <1>1, <1>2, <1>4, TablesAre DEF Live
  <1>6. Sets(r, {"stage"})
    <2>1. \A u \in Live("user") : db'.user[u] # None
      BY <1>1, <1>2, <1>4, RowsLive, RowsAreRows
    <2>2. db.chat # None => db'.chat # None
      BY <1>4
    <2> QED
      BY <1>4, <2>1, <2>2, TablesSet
  <1> QED
    BY <1>2, <1>4, <1>5, <1>6, RowsAreRows, StagesAreStages

LEMMA ProjectSet ==
  ASSUME Shape, Asked, NEW r \in Slot, Wrote(r), NEW x \in Project, NEW row \in {"row"}, db' = [db EXCEPT !.project[x] = row]
  PROVE  /\ Sets(r, {"project"}) /\ Live("project")' = Live("project") \cup {x}
         /\ db'.project[x] = row /\ \A y \in Live("project") : y # x => db'.project[y] = db.project[y]
  <1> DEFINE T == [db.project EXCEPT ![x] = row]
  <1>1. row # None
    BY NoRowAssumption
  <1>2. T \in [Project -> Opt({"row"})] /\ T[x] = row /\ \A y \in Project : y # x => T[y] = db.project[y]
    BY TablesAre DEF Opt
  <1>3. db' = [user |-> db.user, dept |-> db.dept, stage |-> db.stage, project |-> T, chat |-> db.chat, lead |-> db.lead, deal |-> db.deal]
    BY TablesAre
  <1> HIDE DEF T
  <1>4. db'.project = T /\ NewTables({"project"}) /\ db'.chat = db.chat /\ db'.user = db.user
    <2>1. db'.user = db.user /\ db'.dept = db.dept /\ db'.stage = db.stage /\ db'.project = T /\ db'.chat = db.chat /\ db'.lead = db.lead /\ db'.deal = db.deal
      BY <1>3
    <2>2. db' = [user |-> db'.user, dept |-> db'.dept, stage |-> db'.stage, project |-> db'.project,
                 chat |-> db'.chat, lead |-> db'.lead, deal |-> db'.deal]
      BY <1>3, <2>1
    <2> QED
      BY <1>2, <2>1, <2>2 DEF NewTables
  <1>5. Live("project")' = Live("project") \cup {x}
    BY <1>1, <1>2, <1>4, TablesAre DEF Live
  <1>6. Sets(r, {"project"})
    <2>1. \A u \in Live("user") : db'.user[u] # None
      BY <1>1, <1>2, <1>4, RowsLive, RowsAreRows
    <2>2. db.chat # None => db'.chat # None
      BY <1>4
    <2> QED
      BY <1>4, <2>1, <2>2, TablesSet
  <1> QED
    BY <1>2, <1>4, <1>5, <1>6, RowsAreRows, StagesAreStages

LEMMA LeadSet ==
  ASSUME Shape, Asked, NEW r \in Slot, Wrote(r), NEW x \in Lead, NEW row \in LeadRow, db' = [db EXCEPT !.lead[x] = row], row.here => db.chat # None
  PROVE  /\ Sets(r, {"lead"}) /\ Live("lead")' = Live("lead") \cup {x}
         /\ db'.lead[x] = row /\ \A y \in Live("lead") : y # x => db'.lead[y] = db.lead[y]
  <1> DEFINE T == [db.lead EXCEPT ![x] = row]
  <1>1. row # None
    BY NoRowAssumption
  <1>2. T \in [Lead -> Opt(LeadRow)] /\ T[x] = row /\ \A y \in Lead : y # x => T[y] = db.lead[y]
    BY TablesAre DEF Opt
  <1>3. db' = [user |-> db.user, dept |-> db.dept, stage |-> db.stage, project |-> db.project, chat |-> db.chat, lead |-> T, deal |-> db.deal]
    BY TablesAre
  <1> HIDE DEF T
  <1>4. db'.lead = T /\ NewTables({"lead"}) /\ db'.chat = db.chat /\ db'.user = db.user
    <2>1. db'.user = db.user /\ db'.dept = db.dept /\ db'.stage = db.stage /\ db'.project = db.project /\ db'.chat = db.chat /\ db'.lead = T /\ db'.deal = db.deal
      BY <1>3
    <2>2. db' = [user |-> db'.user, dept |-> db'.dept, stage |-> db'.stage, project |-> db'.project,
                 chat |-> db'.chat, lead |-> db'.lead, deal |-> db'.deal]
      BY <1>3, <2>1
    <2> QED
      BY <1>2, <2>1, <2>2 DEF NewTables
  <1>5. Live("lead")' = Live("lead") \cup {x}
    BY <1>1, <1>2, <1>4, TablesAre DEF Live
  <1>6. Sets(r, {"lead"})
    <2>1. \A u \in Live("user") : db'.user[u] # None
      BY <1>1, <1>2, <1>4, RowsLive, RowsAreRows
    <2>2. db.chat # None => db'.chat # None
      BY <1>4
    <2>3. \A y \in Lead : db'.lead[y] # None /\ db'.lead[y].here => db'.chat # None
      BY <1>2, <1>4, RowsLive
    <2> QED
      BY <1>4, <2>1, <2>2, <2>3, TablesSet
  <1> QED
    BY <1>2, <1>4, <1>5, <1>6, RowsAreRows, StagesAreStages

LEMMA DealSet ==
  ASSUME Shape, Asked, NEW r \in Slot, Wrote(r), NEW x \in Deal, NEW row \in DealRow, db' = [db EXCEPT !.deal[x] = row], row.here => db.chat # None
  PROVE  /\ Sets(r, {"deal"}) /\ Live("deal")' = Live("deal") \cup {x}
         /\ db'.deal[x] = row /\ \A y \in Live("deal") : y # x => db'.deal[y] = db.deal[y]
  <1> DEFINE T == [db.deal EXCEPT ![x] = row]
  <1>1. row # None
    BY NoRowAssumption
  <1>2. T \in [Deal -> Opt(DealRow)] /\ T[x] = row /\ \A y \in Deal : y # x => T[y] = db.deal[y]
    BY TablesAre DEF Opt
  <1>3. db' = [user |-> db.user, dept |-> db.dept, stage |-> db.stage, project |-> db.project, chat |-> db.chat, lead |-> db.lead, deal |-> T]
    BY TablesAre
  <1> HIDE DEF T
  <1>4. db'.deal = T /\ NewTables({"deal"}) /\ db'.chat = db.chat /\ db'.user = db.user
    <2>1. db'.user = db.user /\ db'.dept = db.dept /\ db'.stage = db.stage /\ db'.project = db.project /\ db'.chat = db.chat /\ db'.lead = db.lead /\ db'.deal = T
      BY <1>3
    <2>2. db' = [user |-> db'.user, dept |-> db'.dept, stage |-> db'.stage, project |-> db'.project,
                 chat |-> db'.chat, lead |-> db'.lead, deal |-> db'.deal]
      BY <1>3, <2>1
    <2> QED
      BY <1>2, <2>1, <2>2 DEF NewTables
  <1>5. Live("deal")' = Live("deal") \cup {x}
    BY <1>1, <1>2, <1>4, TablesAre DEF Live
  <1>6. Sets(r, {"deal"})
    <2>1. \A u \in Live("user") : db'.user[u] # None
      BY <1>1, <1>2, <1>4, RowsLive, RowsAreRows
    <2>2. db.chat # None => db'.chat # None
      BY <1>4
    <2>3. \A y \in Deal : db'.deal[y] # None /\ db'.deal[y].here => db'.chat # None
      BY <1>2, <1>4, RowsLive
    <2> QED
      BY <1>4, <2>1, <2>2, <2>3, TablesSet
  <1> QED
    BY <1>2, <1>4, <1>5, <1>6, RowsAreRows, StagesAreStages

LEMMA ChatSet ==
  ASSUME Shape, Asked, NEW r \in Slot, Wrote(r), NEW row \in ChatRow, db' = [db EXCEPT !.chat = row]
  PROVE  Sets(r, {"chat"}) /\ db'.chat = row /\ db'.chat # None
  <1>1. row # None
    BY NoRowAssumption
  <1>2. db' = [user |-> db.user, dept |-> db.dept, stage |-> db.stage, project |-> db.project, chat |-> row,
               lead |-> db.lead, deal |-> db.deal]
    BY TablesAre
  <1>3. db'.chat = row /\ NewTables({"chat"}) /\ db'.user = db.user
    BY <1>2 DEF NewTables, Opt
  <1> QED
    BY <1>1, <1>3, TablesSet, RowsLive

Ended(r, names) == Done(r) /\ Sets(r, names) /\ kanban' = kanban

LEMMA EndsDoes ==
  ASSUME Shape, NEW r \in Slot, NEW tables, Ends(r, tables)
  PROVE  Wrote(r) /\ Done(r) /\ db' = tables /\ kanban' = kanban
  BY WritesDoes, FreeIs DEF Ends, Done

LEMMA WriteClearDefaultAgentDoes ==
  ASSUME Shape, Asked, NEW r \in Slot, WriteClearDefaultAgent(r)
  PROVE  Ended(r, {"user"}) /\ Mild("user") /\ NoneJoins
  <1> DEFINE u == task[r].arg
             row == [db.user[u] EXCEPT !.dft = FALSE]
  <1>1. u \in Live("user") /\ u \in User /\ db.user[u] \in UserRow
    BY RowsAreRows DEF Asked, AskedAt, AskedTeam, AskedCrm, AskedDesk, WriteClearDefaultAgent
  <1>2. Wrote(r) /\ Done(r) /\ db' = [db EXCEPT !.user[u] = row] /\ kanban' = kanban
    BY EndsDoes DEF WriteClearDefaultAgent
  <1>3. row \in UserRow /\ ~row.dft /\ row.active = db.user[u].active /\ row.in = db.user[u].in
    BY <1>1 DEF UserRow
  <1> HIDE DEF row
  <1>4. /\ Sets(r, {"user"}) /\ Live("user")' = Live("user")
        /\ db'.user[u] = row /\ \A y \in Live("user") : y # u => db'.user[y] = db.user[y]
    BY <1>1, <1>2, <1>3, UserSet
  <1>5. Mild("user")
    BY <1>1, <1>3, <1>4 DEF Mild, Defaults
  <1>6. NoneJoins
    BY <1>1, <1>3, <1>4 DEF NoneJoins, Members
  <1> QED
    BY <1>2, <1>4, <1>5, <1>6 DEF Ended

LEMMA WriteUserDoes ==
  ASSUME Shape, Asked, NEW r \in Slot, WriteUser(r), ~Refused(r)
  PROVE  Ended(r, {"user"}) /\ Mild("user")
  <1> DEFINE u == task[r].arg
             in == task[r].seen
             row == [active |-> TRUE, dft |-> FALSE, in |-> in]
  <1>1. u \in User /\ u \notin Live("user") /\ in \subseteq Live("dept")
    BY DEF Asked, AskedAt, AskedTeam, AskedCrm, AskedDesk, WriteUser, EndsIf
  <1>2. Wrote(r) /\ Done(r) /\ db' = [db EXCEPT !.user[u] = row] /\ kanban' = kanban
    BY EndsDoes DEF WriteUser, EndsIf
  <1>3. row \in UserRow /\ ~row.dft /\ row.active
    BY <1>1, RowsAreRows DEF UserRow
  <1> HIDE DEF row
  <1>4. /\ Sets(r, {"user"}) /\ Live("user")' = Live("user") \cup {u}
        /\ db'.user[u] = row /\ \A y \in Live("user") : y # u => db'.user[y] = db.user[y]
    BY <1>1, <1>2, <1>3, UserSet
  <1>5. Mild("user")
    BY <1>1, <1>3, <1>4 DEF Mild, Defaults
  <1> QED
    BY <1>2, <1>4, <1>5 DEF Ended

LEMMA WriteUserUpdateDoes ==
  ASSUME Shape, Asked, NEW r \in Slot, WriteUserUpdate(r), ~Refused(r)
  PROVE  /\ Ended(r, {"user"}) /\ Live("user")' = Live("user")
         /\ \A x \in Live("user") : x # task[r].arg.user => db'.user[x] = db.user[x]
         /\ task[r].arg.user \in Live("user") /\ task[r].seen \in BOOLEAN
         /\ db'.user[task[r].arg.user].dft => db.user[task[r].arg.user].dft
         /\ db'.user[task[r].arg.user].dft /\ task[r].seen =>
              db'.user[task[r].arg.user].active \/ ~db.user[task[r].arg.user].active
  <1> DEFINE u == task[r].arg.user
             c == task[r].arg.change
             row == [active |-> IF c.active = None THEN db.user[u].active ELSE c.active,
                     dft |-> db.user[u].dft /\ ~(c.active = FALSE /\ task[r].seen),
                     in |-> IF c.in = None THEN db.user[u].in ELSE c.in]
  <1>1. u \in Live("user") /\ u \in User /\ db.user[u] \in UserRow /\ c \in UserChange /\ task[r].seen \in BOOLEAN
    BY RowsAreRows DEF Asked, AskedAt, AskedTeam, AskedCrm, AskedDesk, WriteUserUpdate
  <1>2. Wrote(r) /\ Done(r) /\ db' = [db EXCEPT !.user[u] = row] /\ kanban' = kanban
    BY EndsDoes DEF WriteUserUpdate, EndsIf
  <1>3. row \in UserRow
    <2>1. CASE c \in [active : BOOLEAN, in : {None}]
      <3>1. c.in = None /\ c.active \in BOOLEAN
        BY <2>1
      <3>2. (IF c.active = None THEN db.user[u].active ELSE c.active) \in BOOLEAN
        BY <1>1, <3>1 DEF UserRow
      <3> QED
        BY <1>1, <3>1, <3>2 DEF UserRow
    <2>2. CASE c \in [active : {None}, in : SUBSET Dept]
      <3>1. c.active = None /\ c.in \in SUBSET Dept
        BY <2>2
      <3> QED
        BY <1>1, <3>1 DEF UserRow
    <2> QED
      BY <1>1, <2>1, <2>2 DEF UserChange
  <1>4. (row.dft => db.user[u].dft) /\ (row.dft /\ task[r].seen => row.active \/ ~db.user[u].active)
    BY <1>1, <1>3 DEF UserRow, UserChange
  <1> HIDE DEF row
  <1>5. /\ Sets(r, {"user"}) /\ Live("user")' = Live("user")
        /\ db'.user[u] = row /\ \A y \in Live("user") : y # u => db'.user[y] = db.user[y]
    <2>1. u \in User /\ u \in Live("user") /\ Wrote(r) /\ db' = [db EXCEPT !.user[u] = row]
      BY <1>1, <1>2
    <2> HIDE DEF u, c
    <2>2. /\ Sets(r, {"user"}) /\ Live("user")' = Live("user") \cup {u}
          /\ db'.user[u] = row /\ \A y \in Live("user") : y # u => db'.user[y] = db.user[y]
      BY <1>3, <2>1, UserSet
    <2> QED
      BY <2>1, <2>2
  <1> QED
    BY <1>1, <1>2, <1>4, <1>5 DEF Ended

LEMMA WriteDepartmentDoes ==
  ASSUME Shape, Asked, NEW r \in Slot, WriteDepartment(r), ~Refused(r)
  PROVE  Ended(r, {"dept"}) /\ Mild("dept") /\ \A d \in Live("dept") : d \in Live("dept")'
  <1> DEFINE d == task[r].arg
             row == [active |-> TRUE, dft |-> FALSE]
  <1>1. d \in Dept /\ d \notin Live("dept")
    BY DEF Asked, AskedAt, AskedTeam, AskedCrm, AskedDesk, WriteDepartment, EndsIf
  <1>2. Wrote(r) /\ Done(r) /\ db' = [db EXCEPT !.dept[d] = row] /\ kanban' = kanban
    BY EndsDoes DEF WriteDepartment, EndsIf
  <1>3. row \in DeptRow /\ ~row.dft /\ row.active
    BY DEF DeptRow
  <1> HIDE DEF row
  <1>4. /\ Sets(r, {"dept"}) /\ Live("dept")' = Live("dept") \cup {d}
        /\ db'.dept[d] = row /\ \A y \in Live("dept") : y # d => db'.dept[y] = db.dept[y]
    BY <1>1, <1>2, <1>3, DeptSet
  <1>5. Mild("dept")
    BY <1>1, <1>3, <1>4 DEF Mild, Defaults
  <1> QED
    BY <1>2, <1>4, <1>5 DEF Ended

LEMMA WriteDepartmentUpdateDoes ==
  ASSUME Shape, Asked, NEW r \in Slot, WriteDepartmentUpdate(r), ~Refused(r)
  PROVE  /\ Ended(r, {"dept"}) /\ Live("dept")' = Live("dept")
         /\ \A x \in Live("dept") : x # task[r].arg.dept => db'.dept[x] = db.dept[x]
         /\ task[r].arg.dept \in Live("dept") /\ task[r].seen \in BOOLEAN
         /\ db'.dept[task[r].arg.dept].dft => db.dept[task[r].arg.dept].dft
         /\ db'.dept[task[r].arg.dept].dft /\ task[r].seen => db'.dept[task[r].arg.dept].active
  <1> DEFINE d == task[r].arg.dept
             active == task[r].arg.active
             row == [active |-> active, dft |-> db.dept[d].dft /\ (active \/ ~task[r].seen)]
  <1>1. d \in Live("dept") /\ d \in Dept /\ db.dept[d] \in DeptRow /\ active \in BOOLEAN /\ task[r].seen \in BOOLEAN
    BY RowsAreRows DEF Asked, AskedAt, AskedTeam, AskedCrm, AskedDesk, WriteDepartmentUpdate, EndsIf
  <1>2. Wrote(r) /\ Done(r) /\ db' = [db EXCEPT !.dept[d] = row] /\ kanban' = kanban
    BY EndsDoes DEF WriteDepartmentUpdate, EndsIf
  <1>3. row \in DeptRow
    BY <1>1 DEF DeptRow
  <1>4. (row.dft => db.dept[d].dft) /\ (row.dft /\ task[r].seen => row.active)
    BY <1>1 DEF DeptRow
  <1> HIDE DEF row
  <1>5. /\ Sets(r, {"dept"}) /\ Live("dept")' = Live("dept")
        /\ db'.dept[d] = row /\ \A y \in Live("dept") : y # d => db'.dept[y] = db.dept[y]
    BY <1>1, <1>2, <1>3, DeptSet
  <1> QED
    BY <1>1, <1>2, <1>4, <1>5 DEF Ended

LEMMA CommitDefaultDoes ==
  ASSUME Shape, Asked, NEW r \in Slot, NEW t \in {"user", "dept"}, CommitDefault(r, t), ~Refused(r)
  PROVE  /\ Ended(r, {t}) /\ Live(t)' = Live(t) /\ task[r].arg \in Live(t)
         /\ \A x \in Live(t) : db'[t][x].active = db[t][x].active
         /\ \A x \in Defaults(t)' : x = task[r].arg \/ (x \in Defaults(t) /\ x \notin task[r].seen)
         /\ NoneJoins
  <1> DEFINE Next(row, x) == [row EXCEPT !.dft = x = task[r].arg \/ x \in Defaults(t) \ task[r].seen]
  <1>1. Wrote(r) /\ Done(r) /\ kanban' = kanban /\ task[r].arg \in Live(t)
    BY EndsDoes DEF CommitDefault, EndsIf
  <1>2. db' = [db EXCEPT ![t] = [x \in DOMAIN @ |-> IF @[x] = None THEN None
          ELSE [@[x] EXCEPT !.dft = x = task[r].arg \/ x \in Defaults(t) \ task[r].seen]]]
    BY EndsDoes DEF CommitDefault, EndsIf
  <1>3. CASE t = "user"
    <2> DEFINE T == [x \in User |-> IF db.user[x] = None THEN None ELSE Next(db.user[x], x)]
               T0 == [x \in DOMAIN db.user |-> IF db.user[x] = None THEN None ELSE Next(db.user[x], x)]
    <2>0. db' = [db EXCEPT !.user = T0]
      BY <1>2, <1>3
    <2>01. T0 = T
      BY TablesAre
    <2>1. db' = [user |-> T, dept |-> db.dept, stage |-> db.stage, project |-> db.project, chat |-> db.chat, lead |-> db.lead, deal |-> db.deal]
      <3> HIDE DEF T0, T
      <3> QED
        BY <2>0, <2>01, TablesAre
    <2>2. \A x \in Live("user") : /\ T[x] \in UserRow /\ T[x] # None /\ T[x].active = db.user[x].active
                                  /\ T[x].in = db.user[x].in
                                  /\ T[x].dft = (x = task[r].arg \/ x \in Defaults(t) \ task[r].seen)
      BY RowsAreRows, RowsLive, NoRowAssumption DEF UserRow
    <2>3. \A x \in User : x \notin Live("user") => T[x] = None
      BY TablesAre DEF Live
    <2>4. T \in [User -> Opt(UserRow)] /\ DOMAIN T = User
      BY <2>2, <2>3 DEF Opt
    <2> HIDE DEF T
    <2>5. /\ db'.user = T /\ db'.dept = db.dept /\ db'.stage = db.stage /\ db'.project = db.project
          /\ db'.chat = db.chat /\ db'.lead = db.lead /\ db'.deal = db.deal
      BY <2>1
    <2>6. NewTables({"user"})
      BY <2>1, <2>4, <2>5 DEF NewTables
    <2>7. Sets(r, {"user"})
      BY <1>1, <2>2, <2>5, <2>6, TablesSet
    <2>8. Live("user")' = Live("user")
      BY <2>2, <2>3, <2>4, <2>5, RowsAreRows DEF Live
    <2>9. NoneJoins
      BY <2>2, <2>5, <2>8 DEF NoneJoins, Members
    <2>10. \A x \in Live("user") : db'["user"][x] = T[x] /\ db["user"][x] = db.user[x]
      BY <2>5, RowsAreRows
    <2>11. \A x \in Defaults("user")' : x = task[r].arg \/ (x \in Defaults("user") /\ x \notin task[r].seen)
      <3>1. Defaults("user")' = {x \in Live("user") : T[x].dft}
        BY <2>8, <2>10 DEF Defaults
      <3> QED
        BY <1>3, <2>2, <3>1
    <2>12. \A x \in Live("user") : db'["user"][x].active = db["user"][x].active
      BY <2>2, <2>10
    <2> QED
      BY <1>1, <1>3, <2>7, <2>8, <2>9, <2>11, <2>12 DEF Ended
  <1>4. CASE t = "dept"
    <2> DEFINE T == [x \in Dept |-> IF db.dept[x] = None THEN None ELSE Next(db.dept[x], x)]
               T0 == [x \in DOMAIN db.dept |-> IF db.dept[x] = None THEN None ELSE Next(db.dept[x], x)]
    <2>0. db' = [db EXCEPT !.dept = T0]
      BY <1>2, <1>4
    <2>01. T0 = T
      BY TablesAre
    <2>1. db' = [user |-> db.user, dept |-> T, stage |-> db.stage, project |-> db.project, chat |-> db.chat, lead |-> db.lead, deal |-> db.deal]
      <3> HIDE DEF T0, T
      <3> QED
        BY <2>0, <2>01, TablesAre
    <2>2. \A x \in Live("dept") : /\ T[x] \in DeptRow /\ T[x] # None /\ T[x].active = db.dept[x].active
                                  /\ T[x].dft = (x = task[r].arg \/ x \in Defaults(t) \ task[r].seen)
      BY RowsAreRows, TablesAre, NoRowAssumption DEF DeptRow, Live
    <2>3. \A x \in Dept : x \notin Live("dept") => T[x] = None
      BY TablesAre DEF Live
    <2>4. T \in [Dept -> Opt(DeptRow)] /\ DOMAIN T = Dept
      BY <2>2, <2>3 DEF Opt
    <2> HIDE DEF T
    <2>5. /\ db'.dept = T /\ db'.user = db.user /\ db'.stage = db.stage /\ db'.project = db.project
          /\ db'.chat = db.chat /\ db'.lead = db.lead /\ db'.deal = db.deal
      BY <2>1
    <2>6. NewTables({"dept"})
      BY <2>1, <2>4, <2>5 DEF NewTables
    <2>7. Sets(r, {"dept"})
      BY <1>1, <2>5, <2>6, TablesSet, RowsLive
    <2>8. Live("dept")' = Live("dept")
      BY <2>2, <2>3, <2>4, <2>5, RowsAreRows DEF Live
    <2>9. NoneJoins
      BY <2>5 DEF NoneJoins, Members, Live
    <2>10. \A x \in Live("dept") : db'["dept"][x] = T[x] /\ db["dept"][x] = db.dept[x]
      BY <2>5, RowsAreRows
    <2>11. \A x \in Defaults("dept")' : x = task[r].arg \/ (x \in Defaults("dept") /\ x \notin task[r].seen)
      <3>1. Defaults("dept")' = {x \in Live("dept") : T[x].dft}
        BY <2>8, <2>10 DEF Defaults
      <3> QED
        BY <1>4, <2>2, <3>1
    <2>12. \A x \in Live("dept") : db'["dept"][x].active = db["dept"][x].active
      BY <2>2, <2>10
    <2> QED
      BY <1>1, <1>4, <2>7, <2>8, <2>9, <2>11, <2>12 DEF Ended
  <1> QED
    BY <1>3, <1>4

LEMMA WriteMembersDoes ==
  ASSUME Shape, Asked, NEW r \in Slot, WriteMembers(r), ~Refused(r)
  PROVE  Ended(r, {"user"}) /\ Mild("user")
  <1> DEFINE d == task[r].arg.dept
             us == task[r].arg.users
             T == [u \in User |-> IF db.user[u] = None THEN None
                                  ELSE [db.user[u] EXCEPT !.in = IF u \in us THEN db.user[u].in \cup {d} ELSE db.user[u].in \ {d}]]
  <1>1. Wrote(r) /\ Done(r) /\ kanban' = kanban /\ db' = [db EXCEPT !.user = T] /\ d \in Dept
    <2>1. At(r, "setDepartmentMembers", 1) /\ d \in Dept
      BY DEF WriteMembers, Asked, AskedAt, AskedTeam
    <2>2. Ends(r, [db EXCEPT !.user = T])
      BY DEF WriteMembers, EndsIf
    <2> QED
      BY <2>1, <2>2, EndsDoes
  <1>2. \A x \in Live("user") : /\ T[x] \in UserRow /\ T[x] # None /\ T[x].active = db.user[x].active
                                /\ T[x].dft = db.user[x].dft
    BY <1>1, RowsAreRows, RowsLive, NoRowAssumption DEF UserRow
  <1>3. \A x \in User : x \notin Live("user") => T[x] = None
    BY TablesAre DEF Live
  <1>4. T \in [User -> Opt(UserRow)] /\ DOMAIN T = User
    BY <1>2, <1>3 DEF Opt
  <1>5. db' = [user |-> T, dept |-> db.dept, stage |-> db.stage, project |-> db.project,
               chat |-> db.chat, lead |-> db.lead, deal |-> db.deal]
    BY <1>1, TablesAre
  <1> HIDE DEF T
  <1>6. /\ db'.user = T /\ db'.dept = db.dept /\ db'.stage = db.stage /\ db'.project = db.project
        /\ db'.chat = db.chat /\ db'.lead = db.lead /\ db'.deal = db.deal
    BY <1>5
  <1>7. NewTables({"user"})
    BY <1>4, <1>5, <1>6 DEF NewTables
  <1>8. Sets(r, {"user"})
    BY <1>1, <1>2, <1>6, <1>7, TablesSet
  <1>9. Live("user")' = Live("user")
    BY <1>2, <1>3, <1>4, <1>6, RowsAreRows DEF Live
  <1>10. Mild("user")
    BY <1>2, <1>6, <1>9 DEF Mild, Defaults
  <1> QED
    BY <1>1, <1>8, <1>10 DEF Ended

LEMMA WriteProjectDoes ==
  ASSUME Shape, Asked, NEW r \in Slot, WriteProject(r)
  PROVE  Ended(r, {"project"}) /\ \A p \in Live("project") : p \in Live("project")'
  <1>1. task[r].arg \in Project
    BY DEF Asked, AskedAt, AskedTeam, AskedCrm, AskedDesk, WriteProject
  <1>2. Wrote(r) /\ Done(r) /\ db' = [db EXCEPT !.project[task[r].arg] = "row"] /\ kanban' = kanban
    BY EndsDoes DEF WriteProject
  <1> QED
    BY <1>1, <1>2, ProjectSet DEF Ended

\* What may happen to the chat when a row it names goes: it loses the name.
Loses(p, s) ==
  /\ db.chat = None <=> db'.chat = None
  /\ db.chat # None =>
       /\ db'.chat.project = IF db.chat.project = p THEN None ELSE db.chat.project
       /\ db'.chat.stage = IF db.chat.stage \in s THEN None ELSE db.chat.stage

LEMMA WriteProjectDeleteDoes ==
  ASSUME Shape, Asked, NEW r \in Slot, WriteProjectDelete(r), ~Refused(r)
  PROVE  /\ Ended(r, {"project", "chat"}) /\ Loses(task[r].arg, {})
         /\ db.chat # None => db'.chat.dept = db.chat.dept
         /\ \A p \in Live("project") : p # task[r].arg => p \in Live("project")'
  <1> DEFINE p == task[r].arg
             P == [db.project EXCEPT ![p] = None]
             C == IF db.chat # None /\ db.chat.project = p THEN [db.chat EXCEPT !.project = None] ELSE db.chat
  <1>1. Wrote(r) /\ Done(r) /\ kanban' = kanban /\ p \in Project
        /\ db' = [db EXCEPT !.project[p] = None,
                     !.chat = IF @ # None /\ @.project = p THEN [@ EXCEPT !.project = None] ELSE @]
    BY EndsDoes, RowsAreRows DEF WriteProjectDelete, EndsIf
  <1>2. P \in [Project -> Opt({"row"})] /\ \A x \in Project : x # p => P[x] = db.project[x]
    BY <1>1, TablesAre DEF Opt
  <1>3. C \in Opt(ChatRow)
    BY <1>1, TablesAre DEF Opt, ChatRow
  <1>4. /\ db.chat = None <=> C = None
        /\ db.chat # None => /\ C.project = IF db.chat.project = p THEN None ELSE db.chat.project
                             /\ C.stage = db.chat.stage /\ C.dept = db.chat.dept
    BY TablesAre, NoRowAssumption DEF Opt, ChatRow
  <1>5. db' = [user |-> db.user, dept |-> db.dept, stage |-> db.stage, project |-> P,
               chat |-> C, lead |-> db.lead, deal |-> db.deal]
    BY <1>1, TablesAre
  <1> HIDE DEF P, C
  <1>6. /\ db'.user = db.user /\ db'.dept = db.dept /\ db'.stage = db.stage /\ db'.project = P
        /\ db'.chat = C /\ db'.lead = db.lead /\ db'.deal = db.deal
    BY <1>5
  <1>7. NewTables({"project", "chat"})
    BY <1>2, <1>3, <1>5, <1>6 DEF NewTables
  <1>8. Sets(r, {"project", "chat"})
    BY <1>1, <1>4, <1>6, <1>7, TablesSet, RowsLive
  <1>9. \A x \in Live("project") : x # p => x \in Live("project")'
    BY <1>2, <1>6, TablesAre DEF Live
  <1> QED
    BY <1>1, <1>4, <1>6, <1>8, <1>9 DEF Ended, Loses

LEMMA WriteStageDoes ==
  ASSUME Shape, Asked, NEW r \in Slot, WriteStage(r), ~Refused(r)
  PROVE  /\ Ended(r, {"stage"}) /\ Fresh("stage", task[r].arg.stage)
         /\ Live("stage")' = Live("stage") \cup {task[r].arg.stage}
         /\ \A s \in Live("stage") : db'.stage[s] = db.stage[s]
  <1> DEFINE s == task[r].arg.stage
             row == [dept |-> task[r].arg.dept, order |-> task[r].seen]
  <1>1. s \in Stage /\ task[r].arg.dept \in Live("dept") /\ Fresh("stage", s) /\ task[r].seen \in Nat
    BY DEF Asked, AskedAt, AskedTeam, AskedCrm, AskedDesk, WriteStage, EndsIf
  <1>2. Wrote(r) /\ Done(r) /\ db' = [db EXCEPT !.stage[s] = row] /\ kanban' = kanban
    BY EndsDoes DEF WriteStage, EndsIf
  <1>3. row \in StageRow
    BY <1>1, RowsAreRows DEF StageRow
  <1>4. s \notin Live("stage")
    BY <1>1 DEF Fresh
  <1> HIDE DEF row
  <1>5. /\ Sets(r, {"stage"}) /\ Live("stage")' = Live("stage") \cup {s}
        /\ db'.stage[s] = row /\ \A y \in Live("stage") : y # s => db'.stage[y] = db.stage[y]
    BY <1>1, <1>2, <1>3, StageSet
  <1> QED
    BY <1>1, <1>2, <1>4, <1>5 DEF Ended

LEMMA WriteStageUpdateDoes ==
  ASSUME Shape, Asked, NEW r \in Slot, WriteStageUpdate(r), ~Refused(r)
  PROVE  /\ Ended(r, {"stage"}) /\ Live("stage")' = Live("stage")
         /\ \A s \in Live("stage") : db'.stage[s].dept = db.stage[s].dept
  <1> DEFINE s == task[r].arg.stage
             row == [db.stage[s] EXCEPT !.order = task[r].arg.order]
  <1>1. s \in Live("stage") /\ s \in Stage /\ db.stage[s] \in StageRow /\ task[r].arg.order \in Nat
    BY StagesAreStages DEF Asked, AskedAt, AskedTeam, AskedCrm, AskedDesk, WriteStageUpdate, EndsIf
  <1>2. Wrote(r) /\ Done(r) /\ db' = [db EXCEPT !.stage[s] = row] /\ kanban' = kanban
    BY EndsDoes DEF WriteStageUpdate, EndsIf
  <1>3. row \in StageRow /\ row.dept = db.stage[s].dept
    BY <1>1 DEF StageRow
  <1> HIDE DEF row
  <1>4. /\ Sets(r, {"stage"}) /\ Live("stage")' = Live("stage") \cup {s}
        /\ db'.stage[s] = row /\ \A y \in Live("stage") : y # s => db'.stage[y] = db.stage[y]
    BY <1>1, <1>2, <1>3, StageSet
  <1> QED
    BY <1>1, <1>2, <1>3, <1>4 DEF Ended

\* The stages in ss go, and the chat forgets the one it was in.
StagesGo(ss) ==
  /\ Live("stage")' = Live("stage") \ ss
  /\ \A s \in Live("stage")' : db'.stage[s] = db.stage[s]

LEMMA SansStagesIs ==
  ASSUME Shape, NEW ss
  PROVE  \E S \in [Stage -> Opt(StageRow)], C \in Opt(ChatRow) :
           /\ SansStages(db, ss) = [user |-> db.user, dept |-> db.dept, stage |-> S, project |-> db.project,
                                    chat |-> C, lead |-> db.lead, deal |-> db.deal]
           /\ \A s \in Stage : S[s] = IF s \in ss THEN None ELSE db.stage[s]
           /\ db.chat = None <=> C = None
           /\ db.chat # None => /\ C.stage = IF db.chat.stage \in ss THEN None ELSE db.chat.stage
                                /\ C.dept = db.chat.dept /\ C.project = db.chat.project
  <1> DEFINE S == [s \in Stage |-> IF s \in ss THEN None ELSE db.stage[s]]
             C == IF db.chat # None /\ db.chat.stage \in ss THEN [db.chat EXCEPT !.stage = None] ELSE db.chat
  <1>1. SansStages(db, ss) = [[db EXCEPT !.stage = S] EXCEPT !.chat = C]
    BY TablesAre DEF SansStages
  <1>2. S \in [Stage -> Opt(StageRow)] /\ \A s \in Stage : S[s] = IF s \in ss THEN None ELSE db.stage[s]
    BY TablesAre DEF Opt
  <1>3. C \in Opt(ChatRow)
    BY TablesAre DEF Opt, ChatRow
  <1>4. /\ db.chat = None <=> C = None
        /\ db.chat # None => /\ C.stage = IF db.chat.stage \in ss THEN None ELSE db.chat.stage
                             /\ C.dept = db.chat.dept /\ C.project = db.chat.project
    BY TablesAre, NoRowAssumption DEF Opt, ChatRow
  <1> HIDE DEF S, C
  <1>5. SansStages(db, ss) = [user |-> db.user, dept |-> db.dept, stage |-> S, project |-> db.project,
                              chat |-> C, lead |-> db.lead, deal |-> db.deal]
    BY <1>1, TablesAre
  <1> QED
    BY <1>2, <1>3, <1>4, <1>5

LEMMA WriteStageDeleteDoes ==
  ASSUME Shape, Asked, NEW r \in Slot, WriteStageDelete(r), ~Refused(r)
  PROVE  /\ Ended(r, {"stage", "chat"}) /\ StagesGo({task[r].arg})
         /\ \A k \in Live("deal") : db.deal[k].stage # task[r].arg
         /\ db.chat = None <=> db'.chat = None
         /\ db.chat # None => /\ db'.chat.stage = IF db.chat.stage = task[r].arg THEN None ELSE db.chat.stage
                              /\ db'.chat.dept = db.chat.dept /\ db'.chat.project = db.chat.project
  <1> DEFINE s == task[r].arg
  <1>1. Wrote(r) /\ Done(r) /\ kanban' = kanban /\ db' = SansStages(db, {s})
        /\ \A k \in Live("deal") : db.deal[k].stage # s
    BY EndsDoes DEF WriteStageDelete, EndsIf
  <1> HIDE DEF s
  <1>2. PICK S \in [Stage -> Opt(StageRow)], C \in Opt(ChatRow) :
           /\ SansStages(db, {s}) = [user |-> db.user, dept |-> db.dept, stage |-> S, project |-> db.project,
                                    chat |-> C, lead |-> db.lead, deal |-> db.deal]
           /\ \A x \in Stage : S[x] = IF x \in {s} THEN None ELSE db.stage[x]
           /\ db.chat = None <=> C = None
           /\ db.chat # None => /\ C.stage = IF db.chat.stage \in {s} THEN None ELSE db.chat.stage
                                /\ C.dept = db.chat.dept /\ C.project = db.chat.project
    BY SansStagesIs
  <1>3. db' = [user |-> db.user, dept |-> db.dept, stage |-> S, project |-> db.project,
               chat |-> C, lead |-> db.lead, deal |-> db.deal]
    BY <1>1, <1>2
  <1>4. /\ db'.user = db.user /\ db'.dept = db.dept /\ db'.stage = S /\ db'.project = db.project
        /\ db'.chat = C /\ db'.lead = db.lead /\ db'.deal = db.deal
    BY <1>3
  <1>5. NewTables({"stage", "chat"})
    BY <1>3, <1>4 DEF NewTables
  <1>6. Sets(r, {"stage", "chat"})
    BY <1>1, <1>2, <1>4, <1>5, TablesSet, RowsLive
  <1>7. StagesGo({s})
    BY <1>2, <1>4, TablesAre DEF StagesGo, Live
  <1> QED
    BY <1>1, <1>2, <1>4, <1>6, <1>7 DEF Ended, s

LEMMA WriteDepartmentDeleteDoes ==
  ASSUME Shape, Asked, NEW r \in Slot, WriteDepartmentDelete(r), ~Refused(r)
  PROVE  /\ Ended(r, {"user", "dept", "stage", "chat", "lead"})
         /\ Mild("user") /\ Mild("dept") /\ NoneJoins
         /\ \A d \in Live("dept") : d # task[r].arg => d \in Live("dept")'
         /\ StagesGo(StagesOf(task[r].arg))
         /\ \A k \in Live("deal") : db.deal[k].dept # task[r].arg
         /\ db.chat = None <=> db'.chat = None
         /\ db.chat # None => /\ db'.chat.stage = IF db.chat.stage \in StagesOf(task[r].arg) THEN None ELSE db.chat.stage
                              /\ db'.chat.dept = IF db.chat.dept = task[r].arg THEN None ELSE db.chat.dept
                              /\ db'.chat.project = db.chat.project
         /\ Live("lead")' = Live("lead") /\ \A l \in Live("lead") : db'.lead[l].deal = db.lead[l].deal
  <1> DEFINE d == task[r].arg
             D == [db.dept EXCEPT ![d] = None]
             U == [u \in User |-> IF db.user[u] = None THEN None ELSE [db.user[u] EXCEPT !.in = db.user[u].in \ {d}]]
             L == [l \in Lead |-> IF db.lead[l] # None /\ db.lead[l].dept = d THEN [db.lead[l] EXCEPT !.dept = None] ELSE db.lead[l]]
  <1>1. Wrote(r) /\ Done(r) /\ kanban' = kanban /\ db' = SansDept(d) /\ d \in Dept
        /\ \A k \in Live("deal") : db.deal[k].dept # d
    BY EndsDoes, RowsAreRows DEF WriteDepartmentDelete, EndsIf
  <1>2. PICK S \in [Stage -> Opt(StageRow)], C0 \in Opt(ChatRow) :
           /\ SansStages(db, StagesOf(d)) = [user |-> db.user, dept |-> db.dept, stage |-> S, project |-> db.project,
                                    chat |-> C0, lead |-> db.lead, deal |-> db.deal]
           /\ \A x \in Stage : S[x] = IF x \in StagesOf(d) THEN None ELSE db.stage[x]
           /\ db.chat = None <=> C0 = None
           /\ db.chat # None => /\ C0.stage = IF db.chat.stage \in StagesOf(d) THEN None ELSE db.chat.stage
                                /\ C0.dept = db.chat.dept /\ C0.project = db.chat.project
    <2> HIDE DEF d, D, U, L
    <2> QED
      BY SansStagesIs
  <1> DEFINE C == IF C0 # None /\ C0.dept = d THEN [C0 EXCEPT !.dept = None] ELSE C0
             t == [user |-> db.user, dept |-> db.dept, stage |-> S, project |-> db.project,
                   chat |-> C0, lead |-> db.lead, deal |-> db.deal]
  <1>3. db' = [[[[t EXCEPT !.dept[d] = None] EXCEPT !.user = U] EXCEPT !.chat = C] EXCEPT !.lead = L]
    <2> HIDE DEF d
    <2>1. db' = [t EXCEPT !.dept[d] = None,
               !.user = [u \in User |-> IF @[u] = None THEN None ELSE [@[u] EXCEPT !.in = db.user[u].in \ {d}]],
               !.chat = IF @ # None /\ @.dept = d THEN [@ EXCEPT !.dept = None] ELSE @,
               !.lead = [l \in Lead |-> IF @[l] # None /\ @[l].dept = d THEN [@[l] EXCEPT !.dept = None] ELSE @[l]]]
      BY <1>1, <1>2 DEF SansDept
    <2> QED
      BY <2>1
  <1>4. db' = [user |-> U, dept |-> D, stage |-> S, project |-> db.project, chat |-> C, lead |-> L, deal |-> db.deal]
    <2> HIDE DEF U, C, L
    <2> QED
      BY <1>3
  <1>5. C \in Opt(ChatRow)
    BY <1>2 DEF Opt, ChatRow
  <1>6. /\ db.chat = None <=> C = None
        /\ db.chat # None => /\ C.stage = IF db.chat.stage \in StagesOf(d) THEN None ELSE db.chat.stage
                             /\ C.dept = IF db.chat.dept = d THEN None ELSE db.chat.dept
                             /\ C.project = db.chat.project
    BY <1>2, NoRowAssumption DEF Opt, ChatRow
  <1>7. D \in [Dept -> Opt(DeptRow)] /\ D[d] = None /\ \A x \in Dept : x # d => D[x] = db.dept[x]
    BY <1>1, TablesAre DEF Opt
  <1>8. \A x \in Live("user") : /\ U[x] \in UserRow /\ U[x] # None /\ U[x].active = db.user[x].active
                                /\ U[x].dft = db.user[x].dft /\ U[x].in \subseteq db.user[x].in
    BY <1>1, RowsAreRows, RowsLive, NoRowAssumption DEF UserRow
  <1>9. \A x \in User : x \notin Live("user") => U[x] = None
    BY TablesAre DEF Live
  <1>10. U \in [User -> Opt(UserRow)] /\ DOMAIN U = User
    BY <1>8, <1>9 DEF Opt
  <1>11. \A x \in Live("lead") : /\ L[x] \in LeadRow /\ L[x] # None /\ L[x].deal = db.lead[x].deal /\ L[x].here = db.lead[x].here
    BY <1>1, RowsAreRows, NoRowAssumption DEF LeadRow
  <1>12. \A x \in Lead : x \notin Live("lead") => L[x] = None
    BY TablesAre DEF Live
  <1>13. L \in [Lead -> Opt(LeadRow)] /\ DOMAIN L = Lead
    BY <1>11, <1>12 DEF Opt
  <1> HIDE DEF d, D, U, L, C
  <1>14. /\ db'.user = U /\ db'.dept = D /\ db'.stage = S /\ db'.project = db.project
         /\ db'.chat = C /\ db'.lead = L /\ db'.deal = db.deal
    BY <1>4
  <1>15. NewTables({"user", "dept", "stage", "chat", "lead"})
    BY <1>2, <1>4, <1>5, <1>7, <1>10, <1>13, <1>14 DEF NewTables
  <1>16. Sets(r, {"user", "dept", "stage", "chat", "lead"})
    <2>1. \A u \in Live("user") : db'.user[u] # None
      BY <1>8, <1>14
    <2>2. \A l \in Lead : db'.lead[l] # None /\ db'.lead[l].here => db.chat # None
      BY <1>11, <1>12, <1>14, RowsLive, TablesAre DEF Live
    <2> QED
      BY <1>1, <1>6, <1>14, <1>15, <2>1, <2>2, TablesSet
  <1>17. StagesGo(StagesOf(d))
    BY <1>2, <1>14, TablesAre DEF StagesGo, Live
  <1>18. Live("user")' = Live("user") /\ Live("lead")' = Live("lead") /\ Live("dept")' = Live("dept") \ {d}
    BY <1>7, <1>8, <1>9, <1>10, <1>11, <1>12, <1>13, <1>14, TablesAre, RowsAreRows DEF Live
  <1>19. Mild("user")
    BY <1>8, <1>14, <1>18 DEF Mild, Defaults
  <1>20. Mild("dept")
    BY <1>7, <1>14, <1>18, RowsAreRows DEF Mild, Defaults
  <1>21. NoneJoins
    BY <1>8, <1>14, <1>18 DEF NoneJoins, Members
  <1>22. \A l \in Live("lead") : db'.lead[l].deal = db.lead[l].deal
    BY <1>11, <1>14
  <1>23. Ended(r, {"user", "dept", "stage", "chat", "lead"})
    BY <1>1, <1>16 DEF Ended
  <1> QED
    BY <1>1, <1>6, <1>14, <1>17, <1>18, <1>19, <1>20, <1>21, <1>22, <1>23 DEF d

\* A prospect that was not there is; it has no deal.
LeadAppears(r) ==
  /\ Ended(r, {"lead"}) /\ Fresh("lead", task[r].arg)
  /\ Live("lead")' = Live("lead") \cup {task[r].arg}
  /\ \A l \in Live("lead") : db'.lead[l] = db.lead[l]
  /\ db'.lead[task[r].arg].deal = None

LEMMA WriteLeadDoes ==
  ASSUME Shape, Asked, NEW r \in Slot, WriteLead(r), ~Refused(r)
  PROVE  LeadAppears(r)
  <1> DEFINE l == task[r].arg
             row == task[r].seen
  <1>1. l \in Lead /\ Fresh("lead", l) /\ row \in LeadRow /\ row.deal = None /\ ~row.here
    BY DEF Asked, AskedAt, AskedTeam, AskedCrm, AskedDesk, WriteLead, EndsIf
  <1>2. Wrote(r) /\ Done(r) /\ db' = [db EXCEPT !.lead[l] = row] /\ kanban' = kanban
    BY EndsDoes DEF WriteLead, EndsIf
  <1>3. l \notin Live("lead")
    BY <1>1 DEF Fresh
  <1> HIDE DEF l, row
  <1>4. /\ Sets(r, {"lead"}) /\ Live("lead")' = Live("lead") \cup {l}
        /\ db'.lead[l] = row /\ \A y \in Live("lead") : y # l => db'.lead[y] = db.lead[y]
    BY <1>1, <1>2, LeadSet
  <1> QED
    BY <1>1, <1>2, <1>3, <1>4 DEF Ended, LeadAppears, l

LEMMA WriteLeadOfChatDoes ==
  ASSUME Shape, Asked, NEW r \in Slot, WriteLeadOfChat(r), ~Refused(r)
  PROVE  LeadAppears(r)
  <1> DEFINE l == task[r].arg
             row == [dept |-> task[r].seen, deal |-> None, here |-> TRUE]
  <1>1. l \in Lead /\ Fresh("lead", l) /\ Refers(task[r].seen, "dept") /\ db.chat # None
    BY DEF Asked, AskedAt, AskedTeam, AskedCrm, AskedDesk, WriteLeadOfChat, EndsIf
  <1>2. Wrote(r) /\ Done(r) /\ db' = [db EXCEPT !.lead[l] = row] /\ kanban' = kanban
    BY EndsDoes DEF WriteLeadOfChat, EndsIf
  <1>3. l \notin Live("lead") /\ row \in LeadRow /\ row.deal = None
    BY <1>1, RowsAreRows DEF Fresh, LeadRow, Refers
  <1> HIDE DEF l, row
  <1>4. /\ Sets(r, {"lead"}) /\ Live("lead")' = Live("lead") \cup {l}
        /\ db'.lead[l] = row /\ \A y \in Live("lead") : y # l => db'.lead[y] = db.lead[y]
    BY <1>1, <1>2, <1>3, LeadSet
  <1> QED
    BY <1>1, <1>2, <1>3, <1>4 DEF Ended, LeadAppears, l

\* The prospects are those that were there, each with its deal.
LeadsStay ==
  Live("lead")' = Live("lead") /\ \A l \in Live("lead") : db'.lead[l].deal = db.lead[l].deal

LEMMA LeadMoves ==
  ASSUME Shape, Asked, NEW r \in Slot, NEW l \in Live("lead"), NEW d, Refers(d, "dept"),
         Wrote(r), db' = [db EXCEPT !.lead[l].dept = d]
  PROVE  Sets(r, {"lead"}) /\ LeadsStay
  <1> DEFINE row == [db.lead[l] EXCEPT !.dept = d]
  <1>1. l \in Lead /\ db.lead[l] \in LeadRow /\ d \in Dept \cup {None}
    BY RowsAreRows DEF Refers
  <1>2. row \in LeadRow /\ row.deal = db.lead[l].deal /\ (row.here => db.chat # None)
    BY <1>1 DEF LeadRow, Asked
  <1>3. db' = [db EXCEPT !.lead[l] = row]
    OBVIOUS
  <1> HIDE DEF row
  <1>4. /\ Sets(r, {"lead"}) /\ Live("lead")' = Live("lead") \cup {l}
        /\ db'.lead[l] = row /\ \A y \in Live("lead") : y # l => db'.lead[y] = db.lead[y]
    BY <1>1, <1>2, <1>3, LeadSet
  <1> QED
    BY <1>2, <1>4 DEF LeadsStay

LEMMA WriteLeadUpdateDoes ==
  ASSUME Shape, Asked, NEW r \in Slot, WriteLeadUpdate(r), ~Refused(r)
  PROVE  Ended(r, {"lead"}) /\ LeadsStay
  <1>1. task[r].arg.lead \in Live("lead") /\ Refers(task[r].arg.dept, "dept")
    BY DEF WriteLeadUpdate, EndsIf
  <1>2. Wrote(r) /\ Done(r) /\ db' = [db EXCEPT !.lead[task[r].arg.lead].dept = task[r].arg.dept] /\ kanban' = kanban
    BY EndsDoes DEF WriteLeadUpdate, EndsIf
  <1> QED
    BY <1>1, <1>2, LeadMoves DEF Ended

\* A follow-up goes on to the next, or that was all.
Follows2(r) ==
  \/ Done(r)
  \/ \E seen \in FollowUps : Onward(r, 2, seen)

LEMMA FollowUpDoes ==
  ASSUME Shape, Asked, NEW r \in Slot, NEW kind, NEW tables, FollowUpWrites(r, kind, tables), task[r].seen \in FollowUps
  PROVE  Wrote(r) /\ db' = tables /\ kanban' = kanban /\ Follows2(r)
  <1> DEFINE left == task[r].seen.todo \ {kind}
             seen == [task[r].seen EXCEPT !.todo = left]
             on == [op |-> task[r].op, step |-> 2, arg |-> task[r].arg, seen |-> seen, since |-> task[r].since]
  <1>1. seen \in FollowUps
    BY DEF FollowUps
  <1>2. [task[r] EXCEPT !.step = 2, !.seen.todo = left] = on
    <2>1. [[task[r] EXCEPT !.step = 2] EXCEPT !.seen = seen] = on
      BY SlotOnward, Zenon
    <2> HIDE DEF left
    <2>2. [task[r] EXCEPT !.step = 2].seen = task[r].seen
      BY DEF Shape, Whole
    <2> QED
      BY <2>1, <2>2
  <1>3. kanban' = kanban /\ Writes(r, tables, IF left = {} THEN Free ELSE on)
    BY <1>2 DEF FollowUpWrites
  <1> HIDE DEF left, seen
  <1>4. CASE left = {}
    BY <1>3, <1>4, WritesDoes, FreeIs DEF Follows2, Done
  <1>5. CASE left # {}
    <2>1. Wrote(r) /\ task'[r] = on /\ db' = tables
      BY <1>3, <1>5, WritesDoes
    <2>2. Onward(r, 2, seen)
      BY <2>1 DEF Onward
    <2> QED
      BY <1>1, <1>3, <2>1, <2>2 DEF Follows2
  <1> QED
    BY <1>4, <1>5

LEMMA SyncDeptWritesDoes ==
  ASSUME Shape, Asked, NEW r \in Slot, SyncDeptWrites(r), ~Dies(r)
  PROVE  Sets(r, {"lead"}) /\ LeadsStay /\ Follows2(r) /\ kanban' = kanban /\ task[r].op \in Following
  <1>1. task[r].seen \in FollowUps /\ task[r].op \in Following
    BY DEF Asked, AskedAt, AskedTeam, AskedCrm, AskedDesk, SyncDeptWrites
  <1>2. task[r].seen.found \in Live("lead") /\ Refers(task[r].seen.dept, "dept")
        /\ FollowUpWrites(r, "dept", [db EXCEPT !.lead[task[r].seen.found].dept = task[r].seen.dept])
    BY DEF SyncDeptWrites
  <1>3. Wrote(r) /\ kanban' = kanban /\ Follows2(r)
        /\ db' = [db EXCEPT !.lead[task[r].seen.found].dept = task[r].seen.dept]
    BY <1>1, <1>2, FollowUpDoes
  <1> QED
    BY <1>1, <1>2, <1>3, LeadMoves

LEMMA WriteLeadRemovalDoes ==
  ASSUME Shape, Asked, NEW r \in Slot, WriteLeadRemoval(r), ~Refused(r)
  PROVE  /\ Ended(r, {"lead"}) /\ Live("lead")' = Live("lead") \ {task[r].arg}
         /\ \A l \in Live("lead")' : db'.lead[l] = db.lead[l]
  <1> DEFINE l == task[r].arg
             L == [db.lead EXCEPT ![l] = None]
  <1>1. Wrote(r) /\ Done(r) /\ db' = [db EXCEPT !.lead[l] = None] /\ kanban' = kanban /\ l \in Lead
    BY EndsDoes, RowsAreRows DEF WriteLeadRemoval, EndsIf
  <1>2. L \in [Lead -> Opt(LeadRow)] /\ L[l] = None /\ \A x \in Lead : x # l => L[x] = db.lead[x]
    BY <1>1, TablesAre DEF Opt
  <1>3. db' = [user |-> db.user, dept |-> db.dept, stage |-> db.stage, project |-> db.project,
               chat |-> db.chat, lead |-> L, deal |-> db.deal]
    BY <1>1, TablesAre
  <1> HIDE DEF L, l
  <1>4. /\ db'.user = db.user /\ db'.dept = db.dept /\ db'.stage = db.stage /\ db'.project = db.project
        /\ db'.chat = db.chat /\ db'.lead = L /\ db'.deal = db.deal
    BY <1>3
  <1>5. NewTables({"lead"})
    BY <1>2, <1>3, <1>4 DEF NewTables
  <1>6. Sets(r, {"lead"})
    <2>1. \A x \in Lead : db'.lead[x] # None /\ db'.lead[x].here => db'.chat # None
      BY <1>2, <1>4, RowsLive
    <2> QED
      BY <1>1, <1>4, <1>5, <2>1, TablesSet, RowsLive
  <1>7. Live("lead")' = Live("lead") \ {l} /\ \A x \in Live("lead")' : db'.lead[x] = db.lead[x]
    BY <1>1, <1>2, <1>4, TablesAre DEF Live
  <1> QED
    BY <1>1, <1>6, <1>7 DEF Ended, l

LEMMA MarkDoes ==
  ASSUME Shape, Asked, NEW r \in Slot, MarkConverted(r),
         task[r].arg \in Live("lead"), task[r].seen \in Live("deal")
  PROVE  /\ Ended(r, {"lead"}) /\ Live("lead")' = Live("lead")
         /\ task[r].arg \in Live("lead") /\ task[r].seen \in Live("deal")
         /\ \A l \in Live("lead") : l # task[r].arg => db'.lead[l] = db.lead[l]
         /\ db'.lead[task[r].arg].deal = task[r].seen
  <1> DEFINE l == task[r].arg
             k == task[r].seen
             row == [db.lead[l] EXCEPT !.deal = k]
  <1>1. l \in Live("lead") /\ l \in Lead /\ db.lead[l] \in LeadRow /\ k \in Live("deal") /\ k \in Deal
    BY RowsAreRows DEF MarkConverted, EndsIf
  <1>2. Wrote(r) /\ Done(r) /\ db' = [db EXCEPT !.lead[l] = row] /\ kanban' = kanban
    BY EndsDoes DEF MarkConverted, EndsIf
  <1>3. row \in LeadRow /\ row.deal = k /\ (row.here => db.chat # None)
    BY <1>1 DEF LeadRow, Asked
  <1> HIDE DEF row, l, k
  <1>4. /\ Sets(r, {"lead"}) /\ Live("lead")' = Live("lead") \cup {l}
        /\ db'.lead[l] = row /\ \A y \in Live("lead") : y # l => db'.lead[y] = db.lead[y]
    BY <1>1, <1>2, <1>3, LeadSet
  <1> QED
    BY <1>1, <1>2, <1>3, <1>4 DEF Ended, l, k

LEMMA MarkConvertedDoes ==
  ASSUME Shape, Asked, NEW r \in Slot, MarkConverted(r), ~Refused(r)
  PROVE  /\ Ended(r, {"lead"}) /\ Live("lead")' = Live("lead")
         /\ task[r].arg \in Live("lead") /\ task[r].seen \in Live("deal")
         /\ \A l \in Live("lead") : l # task[r].arg => db'.lead[l] = db.lead[l]
         /\ db'.lead[task[r].arg].deal = task[r].seen
  <1>1. task[r].arg \in Live("lead") /\ task[r].seen \in Live("deal")
    BY DEF MarkConverted, EndsIf
  <1> QED
    BY <1>1, MarkDoes

\* A deal that was not there is, in a stage that is.
DealAppears(r, k) ==
  /\ Sets(r, {"deal"}) /\ kanban' = kanban /\ k \in Deal /\ Fresh("deal", k)
  /\ Live("deal")' = Live("deal") \cup {k} /\ db'.deal[k] = task[r].seen
  /\ task[r].seen.stage \in Live("stage")
  /\ \A j \in Live("deal") : db'.deal[j] = db.deal[j]

LEMMA DealIsMade ==
  ASSUME Shape, Asked, NEW r \in Slot, NEW k \in Deal, NewDeal(k), Wrote(r), db' = [db EXCEPT !.deal[k] = task[r].seen],
         kanban' = kanban, task[r].seen \in DealRow, task[r].seen.here => db.chat # None, task[r].seen.stage \in Live("stage")
  PROVE  DealAppears(r, k)
  <1> DEFINE row == task[r].seen
  <1>1. Fresh("deal", k) /\ k \notin Live("deal")
    BY DEF NewDeal, Fresh
  <1>2. row \in DealRow /\ (row.here => db.chat # None) /\ db' = [db EXCEPT !.deal[k] = row]
    OBVIOUS
  <1> HIDE DEF row
  <1>3. /\ Sets(r, {"deal"}) /\ Live("deal")' = Live("deal") \cup {k}
        /\ db'.deal[k] = row /\ \A y \in Live("deal") : y # k => db'.deal[y] = db.deal[y]
    BY <1>2, DealSet
  <1> QED
    BY <1>1, <1>3 DEF DealAppears, row

LEMMA CreateDealOfDoes ==
  ASSUME Shape, Asked, NEW r \in Slot, NEW k \in Deal, CreateDealOf(r, k), ~Refused(r)
  PROVE  DealAppears(r, k) /\ Onward(r, 2, k)
  <1> DEFINE on == [op |-> task[r].op, step |-> 2, arg |-> task[r].arg, seen |-> k, since |-> task[r].since]
  <1>1. [task[r] EXCEPT !.step = 2, !.seen = k] = on
    BY SlotOnward, Zenon
  <1>2. NewDeal(k) /\ task[r].seen.stage \in Live("stage") /\ At(r, "convert", 1) /\ kanban' = kanban
        /\ Writes(r, [db EXCEPT !.deal[k] = task[r].seen], on)
    BY <1>1 DEF CreateDealOf
  <1>3. task[r].seen \in DealRow /\ (task[r].seen.here => db.chat # None)
    BY <1>2 DEF Asked, AskedAt, AskedTeam, AskedCrm, AskedDesk
  <1>4. Wrote(r) /\ task'[r] = on /\ db' = [db EXCEPT !.deal[k] = task[r].seen]
    BY <1>2, WritesDoes
  <1>5. Onward(r, 2, k)
    BY <1>4 DEF Onward
  <1> QED
    BY <1>2, <1>3, <1>4, <1>5, DealIsMade

LEMMA WriteDealDoes ==
  ASSUME Shape, Asked, NEW r \in Slot, NEW k \in Deal, WriteDeal(r, k), ~Refused(r)
  PROVE  DealAppears(r, k) /\ Done(r)
  <1>1. NewDeal(k) /\ task[r].seen.stage \in Live("stage") /\ At(r, "createDeal", 1)
    BY DEF WriteDeal
  <1>2. task[r].seen \in DealRow /\ (task[r].seen.here => db.chat # None)
    BY <1>1 DEF Asked, AskedAt, AskedTeam, AskedCrm, AskedDesk
  <1>3. Wrote(r) /\ Done(r) /\ db' = [db EXCEPT !.deal[k] = task[r].seen] /\ kanban' = kanban
    BY EndsDoes DEF WriteDeal
  <1> QED
    BY <1>1, <1>2, <1>3, DealIsMade

\* A deal of the department of a stage moves to that stage.
DealMovesTo(k, s) ==
  /\ Live("deal")' = Live("deal") /\ k \in Live("deal") /\ s \in Live("stage")
  /\ \A j \in Live("deal") : /\ db'.deal[j].from = db.deal[j].from /\ db'.deal[j].dept = db.deal[j].dept
                             /\ db'.deal[j].stage = IF j = k THEN s ELSE db.deal[j].stage

LEMMA DealMoves ==
  ASSUME Shape, Asked, NEW r \in Slot, NEW k \in Live("deal"), NEW s \in Live("stage"),
         Wrote(r), db' = [db EXCEPT !.deal[k].stage = s]
  PROVE  Sets(r, {"deal"}) /\ DealMovesTo(k, s)
  <1> DEFINE row == [db.deal[k] EXCEPT !.stage = s]
  <1>1. k \in Deal /\ db.deal[k] \in DealRow /\ s \in Stage
    BY RowsAreRows, StagesAreStages
  <1>2. row \in DealRow /\ row.dept = db.deal[k].dept /\ row.from = db.deal[k].from /\ row.stage = s
        /\ (row.here => db.chat # None)
    BY <1>1 DEF DealRow, Asked
  <1>3. db' = [db EXCEPT !.deal[k] = row]
    OBVIOUS
  <1> HIDE DEF row
  <1>4. /\ Sets(r, {"deal"}) /\ Live("deal")' = Live("deal") \cup {k}
        /\ db'.deal[k] = row /\ \A y \in Live("deal") : y # k => db'.deal[y] = db.deal[y]
    BY <1>1, <1>2, <1>3, DealSet
  <1> QED
    BY <1>2, <1>4 DEF DealMovesTo

LEMMA MoveDealDoes ==
  ASSUME Shape, Asked, NEW r \in Slot, MoveDeal(r), ~Refused(r)
  PROVE  /\ Sets(r, {"deal"}) /\ DealMovesTo(task[r].arg.deal, task[r].arg.stage) /\ kanban' = kanban
         /\ Done(r) \/ (task[r].seen /\ Onward(r, 2, task[r].seen))
  <1> DEFINE k == task[r].arg.deal
             s == task[r].arg.stage
             on == [op |-> task[r].op, step |-> 2, arg |-> task[r].arg, seen |-> task[r].seen, since |-> task[r].since]
  <1>1. [task[r] EXCEPT !.step = 2] = on
    BY DEF Shape, Whole
  <1>2. k \in Live("deal") /\ s \in Live("stage") /\ kanban' = kanban
        /\ Writes(r, [db EXCEPT !.deal[k].stage = s], IF task[r].seen THEN on ELSE Free)
    BY <1>1 DEF MoveDeal
  <1>3. Wrote(r) /\ db' = [db EXCEPT !.deal[k].stage = s] /\ task'[r] = IF task[r].seen THEN on ELSE Free
    <2>1. CASE task[r].seen
      BY <1>2, <2>1, WritesDoes
    <2>2. CASE ~task[r].seen
      BY <1>2, <2>2, WritesDoes, FreeIs
    <2> QED
      BY <2>1, <2>2
  <1>4. Done(r) \/ (task[r].seen /\ Onward(r, 2, task[r].seen))
    BY <1>3 DEF Done, Onward
  <1> QED
    BY <1>2, <1>3, <1>4, DealMoves

LEMMA SyncStageWritesDoes ==
  ASSUME Shape, Asked, NEW r \in Slot, SyncStageWrites(r), ~Dies(r)
  PROVE  /\ Sets(r, {"deal"}) /\ DealMovesTo(task[r].seen.found, task[r].seen.stage)
         /\ Follows2(r) /\ kanban' = kanban /\ task[r].op \in Following
  <1> DEFINE k == task[r].seen.found
             s == task[r].seen.stage
  <1>1. task[r].seen \in FollowUps /\ task[r].op \in Following
    BY DEF Asked, AskedAt, AskedTeam, AskedCrm, AskedDesk, SyncStageWrites
  <1>2. k \in Live("deal") /\ s \in Live("stage") /\ FollowUpWrites(r, "stage", [db EXCEPT !.deal[k].stage = s])
    BY DEF SyncStageWrites
  <1>3. Wrote(r) /\ kanban' = kanban /\ Follows2(r) /\ db' = [db EXCEPT !.deal[k].stage = s]
    BY <1>1, <1>2, FollowUpDoes
  <1> QED
    BY <1>1, <1>2, <1>3, DealMoves

LEMMA WriteDealRemovalDoes ==
  ASSUME Shape, Asked, NEW r \in Slot, WriteDealRemoval(r), ~Refused(r)
  PROVE  /\ Ended(r, {"deal", "lead"}) /\ Live("deal")' = Live("deal") \ {task[r].arg}
         /\ \A k \in Live("deal")' : db'.deal[k] = db.deal[k]
         /\ Live("lead")' = Live("lead")
         /\ \A l \in Live("lead") : db'.lead[l].deal = IF db.lead[l].deal = task[r].arg THEN None ELSE db.lead[l].deal
  <1> DEFINE k == task[r].arg
             K == [db.deal EXCEPT ![k] = None]
             L == [l \in Lead |-> IF db.lead[l] # None /\ db.lead[l].deal = k THEN [db.lead[l] EXCEPT !.deal = None] ELSE db.lead[l]]
  <1>1. Wrote(r) /\ Done(r) /\ kanban' = kanban /\ k \in Deal
        /\ db' = [db EXCEPT !.deal[k] = None,
                     !.lead = [l \in Lead |-> IF @[l] # None /\ @[l].deal = k THEN [@[l] EXCEPT !.deal = None] ELSE @[l]]]
    BY EndsDoes, RowsAreRows DEF WriteDealRemoval, EndsIf
  <1>2. K \in [Deal -> Opt(DealRow)] /\ K[k] = None /\ \A x \in Deal : x # k => K[x] = db.deal[x]
    BY <1>1, TablesAre DEF Opt
  <1>3. \A x \in Live("lead") : /\ L[x] \in LeadRow /\ L[x] # None /\ L[x].here = db.lead[x].here
                                /\ L[x].deal = IF db.lead[x].deal = k THEN None ELSE db.lead[x].deal
    BY <1>1, RowsAreRows, NoRowAssumption DEF LeadRow
  <1>4. \A x \in Lead : x \notin Live("lead") => L[x] = None
    BY TablesAre DEF Live
  <1>5. L \in [Lead -> Opt(LeadRow)] /\ DOMAIN L = Lead
    BY <1>3, <1>4 DEF Opt
  <1>6. db' = [user |-> db.user, dept |-> db.dept, stage |-> db.stage, project |-> db.project,
               chat |-> db.chat, lead |-> L, deal |-> K]
    <2>1. db' = [[db EXCEPT !.deal = K] EXCEPT !.lead = L]
      BY <1>1, TablesAre
    <2> HIDE DEF K, L
    <2> QED
      BY <2>1, TablesAre
  <1> HIDE DEF k, K, L
  <1>7. /\ db'.user = db.user /\ db'.dept = db.dept /\ db'.stage = db.stage /\ db'.project = db.project
        /\ db'.chat = db.chat /\ db'.lead = L /\ db'.deal = K
    BY <1>6
  <1>8. NewTables({"deal", "lead"})
    BY <1>2, <1>5, <1>6, <1>7 DEF NewTables
  <1>9. Sets(r, {"deal", "lead"})
    <2>1. \A x \in Lead : db'.lead[x] # None /\ db'.lead[x].here => db'.chat # None
      BY <1>3, <1>4, <1>7, RowsLive, TablesAre DEF Live
    <2>2. \A x \in Deal : db'.deal[x] # None /\ db'.deal[x].here => db'.chat # None
      BY <1>2, <1>7, RowsLive
    <2> QED
      BY <1>1, <1>7, <1>8, <2>1, <2>2, TablesSet, RowsLive
  <1>10. Live("deal")' = Live("deal") \ {k} /\ \A x \in Live("deal")' : db'.deal[x] = db.deal[x]
    BY <1>1, <1>2, <1>7, TablesAre DEF Live
  <1>11. Live("lead")' = Live("lead")
    BY <1>3, <1>4, <1>5, <1>7, RowsAreRows DEF Live
  <1>12. \A l \in Live("lead") : db'.lead[l].deal = IF db.lead[l].deal = k THEN None ELSE db.lead[l].deal
    BY <1>3, <1>7
  <1> QED
    BY <1>1, <1>9, <1>10, <1>11, <1>12 DEF Ended, k

-----------------------------------------------------------------------------
\* The chat.
LEMMA MoveChatTooDoes ==
  ASSUME Shape, Asked, NEW r \in Slot, MoveChatToo(r), ~Refused(r)
  PROVE  /\ Done(r) /\ Sets(r, {"chat"}) /\ kanban' = TRUE
         /\ db.chat # None /\ db'.chat.dept = db.chat.dept /\ db'.chat.project = db.chat.project
  <1> DEFINE s == task[r].arg.stage
             row == [db.chat EXCEPT !.stage = s]
  <1>1. db.chat # None /\ db.chat \in ChatRow /\ s \in Stage
    BY TablesAre, StagesAreStages DEF Asked, AskedAt, AskedTeam, AskedCrm, AskedDesk, MoveChatToo, Opt
  <1>2. Wrote(r) /\ Done(r) /\ db' = [db EXCEPT !.chat = row] /\ kanban' = TRUE
    BY WritesDoes, FreeIs DEF MoveChatToo, Done
  <1>3. row \in ChatRow /\ row.dept = db.chat.dept /\ row.project = db.chat.project
    BY <1>1 DEF ChatRow
  <1> HIDE DEF row
  <1> QED
    BY <1>1, <1>2, <1>3, ChatSet

LEMMA WriteStageOfChatDoes ==
  ASSUME Shape, Asked, NEW r \in Slot, WriteStageOfChat(r), ~Refused(r)
  PROVE  /\ Follows2(r) /\ Sets(r, {"chat"}) /\ kanban' = FALSE /\ Refers(task[r].arg, "stage")
         /\ db.chat # None /\ db'.chat.dept = db.chat.dept /\ db'.chat.project = db.chat.project
         /\ db'.chat.stage = task[r].arg
  <1> DEFINE s == task[r].arg
             row == [db.chat EXCEPT !.stage = s]
             seen == FollowUp({"stage"}, s, None)
             on == [op |-> task[r].op, step |-> 2, arg |-> task[r].arg, seen |-> seen, since |-> task[r].since]
  <1>1. db.chat # None /\ db.chat \in ChatRow /\ Refers(s, "stage") /\ s \in Stage \cup {None}
    BY TablesAre, StagesAreStages DEF Asked, AskedAt, AskedTeam, AskedCrm, AskedDesk, WriteStageOfChat, Opt, Refers
  <1>2. [task[r] EXCEPT !.step = 2, !.seen = seen] = on
    BY SlotOnward, Zenon
  <1>3. kanban' = FALSE /\ Writes(r, [db EXCEPT !.chat.stage = s], IF s = None THEN Free ELSE on)
    BY <1>1, <1>2 DEF WriteStageOfChat
  <1>4. seen \in FollowUps
    BY <1>1 DEF FollowUp, FollowUps, Opt
  <1>5. Wrote(r) /\ db' = [db EXCEPT !.chat.stage = s] /\ Follows2(r)
    <2> HIDE DEF seen
    <2>1. CASE s = None
      BY <1>3, <2>1, WritesDoes, FreeIs DEF Follows2, Done
    <2>2. CASE s # None
      <3> HIDE DEF s
      <3>1. Wrote(r) /\ task'[r] = on /\ db' = [db EXCEPT !.chat.stage = s]
        BY <1>3, <2>2, WritesDoes
      <3>2. Onward(r, 2, seen)
        BY <3>1 DEF Onward
      <3> QED
        BY <1>4, <3>1, <3>2 DEF Follows2
    <2> QED
      BY <2>1, <2>2
  <1>6. row \in ChatRow /\ row.dept = db.chat.dept /\ row.project = db.chat.project /\ row.stage = s
    BY <1>1 DEF ChatRow
  <1>7. db' = [db EXCEPT !.chat = row]
    BY <1>5
  <1> HIDE DEF row
  <1> QED
    BY <1>1, <1>3, <1>5, <1>6, <1>7, ChatSet

LEMMA WriteChatDoes ==
  ASSUME Shape, Asked, NEW r \in Slot, WriteChat(r), ~Refused(r)
  PROVE  LET d == task[r].arg.dept  s == task[r].seen.stage  moved == task[r].seen.moved
         IN /\ Follows2(r) /\ Sets(r, {"chat"}) /\ kanban' = (kanban /\ ~moved) /\ Refers(s, "stage")
            /\ db.chat # None /\ db'.chat.dept = IF d = Same THEN db.chat.dept ELSE d
            /\ db'.chat.stage = IF moved THEN s ELSE db.chat.stage
  <1> DEFINE d == task[r].arg.dept
             p == task[r].arg.project
             s == task[r].seen.stage
             moved == task[r].seen.moved
             row == [dept |-> IF d = Same THEN db.chat.dept ELSE d, stage |-> IF moved THEN s ELSE db.chat.stage,
                     project |-> IF p = Same THEN db.chat.project ELSE p]
             seen == FollowUp({"stage", "dept"}, s, d)
             on == [op |-> task[r].op, step |-> 2, arg |-> task[r].arg, seen |-> seen, since |-> task[r].since]
  <1>1. db.chat # None /\ moved \in BOOLEAN /\ (moved => d # Same)
    BY DEF Asked, AskedAt, AskedTeam, AskedCrm, AskedDesk, WriteChat
  <1>2. db.chat \in ChatRow /\ (d = Same \/ Refers(d, "dept")) /\ (p = Same \/ Refers(p, "project")) /\ Refers(s, "stage")
    BY <1>1, TablesAre DEF WriteChat, Opt
  <1>3. (d = Same \/ d \in Dept \cup {None}) /\ (p = Same \/ p \in Project \cup {None}) /\ s \in Stage \cup {None}
    BY <1>2, RowsAreRows, StagesAreStages DEF Refers
  <1>4. [task[r] EXCEPT !.step = 2, !.seen = seen] = on
    BY SlotOnward, Zenon
  <1>5. kanban' = (kanban /\ ~moved) /\ Writes(r, [db EXCEPT !.chat = row], IF moved THEN on ELSE Free)
    BY <1>2, <1>4 DEF WriteChat
  <1>6. moved => seen \in FollowUps
    BY <1>1, <1>3 DEF FollowUp, FollowUps, Opt
  <1>7. row \in ChatRow
    BY <1>2, <1>3 DEF ChatRow
  <1> HIDE DEF seen
  <1>8. row.dept = (IF d = Same THEN db.chat.dept ELSE d) /\ row.stage = IF moved THEN s ELSE db.chat.stage
    OBVIOUS
  <1> HIDE DEF row
  <1>9. Wrote(r) /\ db' = [db EXCEPT !.chat = row] /\ Follows2(r)
    <2>1. CASE ~moved
      BY <1>5, <2>1, WritesDoes, FreeIs DEF Follows2, Done
    <2>2. CASE moved
      <3>1. Wrote(r) /\ task'[r] = on /\ db' = [db EXCEPT !.chat = row]
        BY <1>5, <2>2, WritesDoes
      <3>2. Onward(r, 2, seen)
        BY <3>1 DEF Onward
      <3> QED
        BY <1>6, <2>2, <3>1, <3>2 DEF Follows2
    <2> QED
      BY <2>1, <2>2
  <1>10. Sets(r, {"chat"}) /\ db'.chat = row
    BY <1>7, <1>9, ChatSet
  <1> QED
    BY <1>1, <1>2, <1>5, <1>8, <1>9, <1>10

LEMMA WriteNewChatDoes ==
  ASSUME Shape, Asked, NEW r \in Slot, WriteNewChat(r), ~Refused(r)
  PROVE  /\ Onward(r, 2, task[r].seen) /\ Sets(r, {"chat"}) /\ kanban' = FALSE
         /\ db.chat = None /\ db'.chat # None /\ db'.chat.stage = None /\ db'.chat.project = None
  <1> DEFINE row == [dept |-> task[r].seen, stage |-> None, project |-> None]
             on == [op |-> task[r].op, step |-> 2, arg |-> task[r].arg, seen |-> task[r].seen, since |-> task[r].since]
  <1>1. [task[r] EXCEPT !.step = 2] = on
    BY DEF Shape, Whole
  <1>2. db.chat = None /\ Refers(task[r].seen, "dept") /\ kanban' = FALSE /\ Writes(r, [db EXCEPT !.chat = row], on)
    BY <1>1 DEF WriteNewChat
  <1>3. row \in ChatRow
    BY <1>2, RowsAreRows DEF Refers, ChatRow
  <1>4. row.stage = None /\ row.project = None
    OBVIOUS
  <1> HIDE DEF row
  <1>5. Wrote(r) /\ task'[r] = on /\ db' = [db EXCEPT !.chat = row]
    BY <1>2, WritesDoes
  <1>6. Onward(r, 2, task[r].seen)
    BY <1>5 DEF Onward
  <1> QED
    BY <1>2, <1>3, <1>4, <1>5, <1>6, ChatSet

-----------------------------------------------------------------------------
(***************************************************************************)
(* The steps that only read.                                               *)
(***************************************************************************)
LEMMA FollowsKnows ==
  ASSUME Asked, NEW r \in Slot, NEW kind, Follows(r, kind)
  PROVE  task[r].op \in Following /\ task[r].step = 2 /\ task[r].seen \in FollowUps
  BY DEF Asked, AskedAt, AskedTeam, AskedCrm, AskedDesk, Follows, Following

LEMMA SkipsDoes ==
  ASSUME NEW r \in Slot, NEW kind, Skips(r, kind), task[r].seen \in FollowUps
  PROVE  Refused(r) \/ \E seen \in FollowUps : Goes(r, 2, seen)
  <1> DEFINE left == task[r].seen.todo \ {kind}
             seen == [task[r].seen EXCEPT !.todo = left]
  <1>1. seen \in FollowUps
    BY DEF FollowUps
  <1>2. Refused(r) \/ Goes(r, 2, seen)
    BY DEF Skips
  <1> QED
    BY <1>1, <1>2

LEMMA SyncStageDoes ==
  ASSUME Shape, Asked, NEW r \in Slot, SyncStage(r), ~Refused(r)
  PROVE  /\ task[r].op \in Following
         /\ \E seen \in FollowUps :
              \/ Goes(r, 2, seen)
              \/ /\ Goes(r, 3, seen) /\ seen.found \in Live("deal")
                 /\ seen.stage \in StagesOf(db.deal[seen.found].dept)
  <1>1. task[r].op \in Following /\ task[r].seen \in FollowUps
    BY FollowsKnows DEF SyncStage
  <1>2. CASE Skips(r, "stage")
    BY <1>1, <1>2, SkipsDoes
  <1>3. ASSUME NEW k \in Live("deal"), InPipeline(task[r].seen.stage, db.deal[k].dept),
               Goes(r, 3, [task[r].seen EXCEPT !.found = k])
        PROVE  \E seen \in FollowUps : /\ Goes(r, 3, seen) /\ seen.found \in Live("deal")
                                       /\ seen.stage \in StagesOf(db.deal[seen.found].dept)
    <2> DEFINE seen == [task[r].seen EXCEPT !.found = k]
    <2>1. seen \in FollowUps /\ seen.found = k /\ seen.stage = task[r].seen.stage
      BY <1>1, <1>3, RowsAreRows DEF FollowUps, Opt
    <2>2. Goes(r, 3, seen)
      BY <1>3
    <2> HIDE DEF seen
    <2> QED
      BY <1>3, <2>1, <2>2 DEF InPipeline
  <1> QED
    BY <1>1, <1>2, <1>3 DEF SyncStage

LEMMA SyncDeptDoes ==
  ASSUME Shape, Asked, NEW r \in Slot, SyncDept(r), ~Refused(r)
  PROVE  task[r].op \in Following /\ \E seen \in FollowUps : Goes(r, 2, seen) \/ Goes(r, 4, seen)
  <1>1. task[r].op \in Following /\ task[r].seen \in FollowUps
    BY FollowsKnows DEF SyncDept
  <1>2. CASE Skips(r, "dept")
    BY <1>1, <1>2, SkipsDoes
  <1>3. ASSUME NEW l \in Live("lead"), Goes(r, 4, [task[r].seen EXCEPT !.found = l])
        PROVE  \E seen \in FollowUps : Goes(r, 4, seen)
    <2> DEFINE seen == [task[r].seen EXCEPT !.found = l]
    <2>1. seen \in FollowUps
      BY <1>1, <1>3, RowsAreRows DEF FollowUps, Opt
    <2> QED
      BY <1>3, <2>1
  <1> QED
    BY <1>1, <1>2, <1>3 DEF SyncDept

-----------------------------------------------------------------------------
(***************************************************************************)
(* What requests were asked for stays so.                                  *)
(***************************************************************************)
LEMMA DoneFits ==
  ASSUME NEW r \in Slot, Done(r)
  PROVE  /\ AskedAt(r)' /\ ConvertAt(r)' /\ StageAt(r)' /\ DeleteAt(r)' /\ task'[r].step = 0
         /\ \A t : MarksAt(t, r)'
  <1>1. task'[r].step = 0
    BY FreeIs DEF Done
  <1>2. AskedAt(r)'
    BY <1>1 DEF AskedAt, AskedTeam, AskedCrm, AskedDesk, At
  <1>3. ConvertAt(r)'
    BY <1>1 DEF ConvertAt, At
  <1>4. StageAt(r)'
    BY <1>1 DEF StageAt, At
  <1>5. DeleteAt(r)'
    BY <1>1 DEF DeleteAt, At
  <1>6. \A t : MarksAt(t, r)'
    BY <1>1 DEF MarksAt, At
  <1> QED
    BY <1>1, <1>2, <1>3, <1>4, <1>5, <1>6

LEMMA AskedKept ==
  ASSUME Asked, NEW q \in Slot, Kept(q), \A u \in Live("user") : u \in Live("user")', db.chat # None => db'.chat # None
  PROVE  AskedAt(q)'
  <1>1. AskedAt(q)
    BY DEF Asked
  <1>2. AskedTeam(q)'
    BY <1>1 DEF AskedAt, AskedTeam, At, Kept
  <1>3. AskedCrm(q)'
    BY <1>1 DEF AskedAt, AskedCrm, At, Kept
  <1>4. AskedDesk(q)'
    BY <1>1 DEF AskedAt, AskedDesk, At, Kept
  <1> QED
    BY <1>2, <1>3, <1>4 DEF AskedAt

LEMMA AskedNow ==
  ASSUME Shape, Asked, NEW r \in Slot, NEW op, NEW arg, NEW seen, Looked(r, op, arg, seen), Grounds(op, arg, seen)
  PROVE  AskedAt(r)'
  <1>1. /\ task'[r].op = op /\ task'[r].step = 1 /\ task'[r].arg = arg /\ task'[r].seen = seen /\ db' = db
    BY DEF Looked, Still
  <1>2. \A t : Live(t)' = Live(t)
    BY <1>1 DEF Live
  <1>3. \A u \in Live("user") : db.user[u].dft \in BOOLEAN
    BY RowsAreRows DEF UserRow
  <1>4. \A u \in Live("dept") : db.dept[u].dft \in BOOLEAN
    BY RowsAreRows DEF DeptRow
  <1>5. \A u \in Live("deal") : db.deal[u].here \in BOOLEAN
    BY RowsAreRows DEF DealRow
  <1>6. \A l \in Live("lead") : l \in Lead
    BY RowsAreRows
  <1>7. TeamGrounds(op, arg, seen) /\ CrmGrounds(op, arg, seen) /\ DeskGrounds(op, arg, seen)
    BY DEF Grounds
  <1>8. AskedTeam(r)'
    BY <1>1, <1>2, <1>3, <1>4, <1>7 DEF AskedTeam, At, TeamGrounds
  <1>9. AskedCrm(r)'
    BY <1>1, <1>2, <1>5, <1>6, <1>7 DEF AskedCrm, At, CrmGrounds, Asked
  <1>10. AskedDesk(r)'
    <2>1. op = "updateChat" => db.chat # None /\ seen.moved \in BOOLEAN /\ (seen.moved => arg.dept # Same)
      BY <1>7, Zenon DEF DeskGrounds
    <2>2. (op = "openChat" => arg \in Lead) /\ (op = "updateStage" => db.chat # None)
      BY <1>7 DEF DeskGrounds
    <2> QED
      BY <1>1, <2>1, <2>2 DEF AskedDesk, At
  <1> QED
    BY <1>8, <1>9, <1>10 DEF AskedAt

\* A follow-up that goes on relies on its row only, unless it has looked up a deal.
LEMMA FollowUpFits ==
  ASSUME NEW r \in Slot, task[r].op \in Following, NEW n \in {2, 3, 4}, NEW seen \in FollowUps, Onward(r, n, seen)
  PROVE  /\ AskedAt(r)' /\ ConvertAt(r)' /\ DeleteAt(r)' /\ \A t \in {"user", "dept"} : MarksAt(t, r)'
         /\ n # 3 => StageAt(r)'
  <1>1. task'[r].op \in Following /\ task'[r].step = n /\ task'[r].seen = seen
    BY DEF Onward
  <1>2. AskedTeam(r)' /\ AskedCrm(r)' /\ AskedDesk(r)'
    BY <1>1 DEF AskedTeam, AskedCrm, AskedDesk, At, Following
  <1>3. ConvertAt(r)' /\ DeleteAt(r)'
    BY <1>1 DEF ConvertAt, DeleteAt, At, Following
  <1>4. \A t \in {"user", "dept"} : MarksAt(t, r)'
    BY <1>1 DEF MarksAt, At, Following, DefaultOp, Update
  <1>5. n # 3 => StageAt(r)'
    BY <1>1 DEF StageAt, At, Following
  <1> QED
    BY <1>2, <1>3, <1>4, <1>5 DEF AskedAt

LEMMA FollowsFit ==
  ASSUME NEW r \in Slot, task[r].op \in Following, Follows2(r)
  PROVE  AskedAt(r)' /\ ConvertAt(r)' /\ DeleteAt(r)' /\ StageAt(r)' /\ \A t \in {"user", "dept"} : MarksAt(t, r)'
  BY DoneFits, FollowUpFits DEF Follows2

Reads(r) == TaskShape /\ Others(r) /\ Still /\ torn' = torn

\* One request is served: it is refused, or brings the API down, or only reads, or
\* writes tables.
LEMMA ServedTeam ==
  ASSUME Shape, Asked, NEW r \in Slot, TeamWrites(r)
  PROVE  AskedAt(r)' /\ (Reads(r) \/ \E names : Ended(r, names))
  <1>1. CASE Refused(r)
    BY <1>1, RefusedDoes, DoneFits DEF Reads
  <1>2. ASSUME NEW t \in {"user", "dept"}, ClearDefaults(r, t)
        PROVE  AskedAt(r)' /\ Reads(r)
    <2>1. Reads(r) /\ Onward(r, 2, Defaults(t)) /\ task[r].op = DefaultOp[t]
      BY <1>2, GoesDoes DEF ClearDefaults, At, Reads
    <2>2. task'[r].op = DefaultOp[t] /\ task'[r].step = 2
      BY <2>1 DEF Onward
    <2>3. task'[r].op \in {"setDefaultAgent", "setDefaultDepartment"}
      BY <2>2 DEF DefaultOp
    <2>4. AskedTeam(r)' /\ AskedCrm(r)' /\ AskedDesk(r)'
      BY <2>2, <2>3 DEF AskedTeam, AskedCrm, AskedDesk, At, Following
    <2> QED
      BY <2>1, <2>4 DEF AskedAt
  <1>3. ASSUME ~Refused(r), ~\E t \in {"user", "dept"} : ClearDefaults(r, t)
        PROVE  \E names : Ended(r, names)
    BY <1>3, CommitDefaultDoes, WriteClearDefaultAgentDoes, WriteUserDoes, WriteUserUpdateDoes, WriteDepartmentDoes,
       WriteDepartmentUpdateDoes, WriteDepartmentDeleteDoes, WriteMembersDoes, WriteProjectDoes, WriteProjectDeleteDoes,
       WriteStageDoes, WriteStageUpdateDoes, WriteStageDeleteDoes DEF TeamWrites
  <1>4. ASSUME NEW names, Ended(r, names) PROVE AskedAt(r)'
    BY <1>4, DoneFits DEF Ended
  <1> QED
    BY <1>1, <1>2, <1>3, <1>4

LEMMA ServedCrm ==
  ASSUME Shape, Asked, NEW r \in Slot, CrmWrites(r)
  PROVE  Lost \/ (AskedAt(r)' /\ kanban' \in BOOLEAN /\ (Reads(r) \/ \E names : Sets(r, names)))
  <1>0. kanban \in BOOLEAN
    BY DEF Shape
  <1>1. CASE Refused(r)
    BY <1>0, <1>1, RefusedDoes, DoneFits DEF Reads, Still
  <1>2. CASE Dies(r)
    BY <1>2, LostDoes DEF Dies
  <1>3. ASSUME ~Refused(r), SyncStage(r) \/ SyncDept(r)
        PROVE  AskedAt(r)' /\ Reads(r)
    <2>1. task[r].op \in Following /\ \E n \in {2, 3, 4}, seen \in FollowUps : Goes(r, n, seen)
      BY <1>3, SyncStageDoes, SyncDeptDoes
    <2> QED
      BY <2>1, GoesDoes, FollowUpFits DEF Reads
  <1>4. ASSUME NEW names, Ended(r, names)
        PROVE  AskedAt(r)' /\ kanban' \in BOOLEAN /\ \E ns : Sets(r, ns)
    BY <1>0, <1>4, DoneFits DEF Ended
  <1>5. ASSUME ~Refused(r), WriteLead(r) \/ WriteLeadUpdate(r) \/ WriteLeadRemoval(r) \/ MarkConverted(r) \/ WriteDealRemoval(r)
        PROVE  \E names : Ended(r, names)
    BY <1>5, WriteLeadDoes, WriteLeadUpdateDoes, WriteLeadRemovalDoes, MarkConvertedDoes, WriteDealRemovalDoes DEF LeadAppears
  <1>6. ASSUME ~Refused(r), NEW k \in Deal, WriteDeal(r, k)
        PROVE  AskedAt(r)' /\ kanban' \in BOOLEAN /\ \E names : Sets(r, names)
    BY <1>0, <1>6, WriteDealDoes, DoneFits DEF DealAppears
  <1>7. ASSUME ~Refused(r), NEW k \in Deal, CreateDealOf(r, k)
        PROVE  AskedAt(r)' /\ kanban' \in BOOLEAN /\ \E names : Sets(r, names)
    <2>1. DealAppears(r, k) /\ Onward(r, 2, k)
      BY <1>7, CreateDealOfDoes
    <2>2. task'[r].op = "convert" /\ task'[r].step = 2
      BY <1>7, <2>1 DEF CreateDealOf, At, Onward
    <2>3. AskedTeam(r)' /\ AskedCrm(r)' /\ AskedDesk(r)'
      BY <2>2 DEF AskedTeam, AskedCrm, AskedDesk, At, Following
    <2> QED
      BY <1>0, <2>1, <2>3 DEF AskedAt, DealAppears
  <1>8. ASSUME ~Refused(r), MoveDeal(r)
        PROVE  AskedAt(r)' /\ kanban' \in BOOLEAN /\ \E names : Sets(r, names)
    <2>1. /\ Sets(r, {"deal"}) /\ kanban' = kanban
          /\ Done(r) \/ (task[r].seen /\ Onward(r, 2, task[r].seen))
      BY <1>8, MoveDealDoes
    <2>2. At(r, "updateDeal", 1)
      BY <1>8 DEF MoveDeal
    <2>3. CASE Done(r)
      BY <1>0, <2>1, <2>3, DoneFits
    <2>4. CASE task[r].seen /\ Onward(r, 2, task[r].seen)
      <3>1. db'.chat # None
        BY <2>1, <2>2, <2>4 DEF Asked, AskedAt, AskedCrm, Sets
      <3>2. task'[r].op = "updateDeal" /\ task'[r].step = 2
        BY <2>2, <2>4 DEF Onward, At
      <3>3. AskedTeam(r)' /\ AskedCrm(r)' /\ AskedDesk(r)'
        BY <3>1, <3>2 DEF AskedTeam, AskedCrm, AskedDesk, At, Following
      <3> QED
        BY <1>0, <2>1, <3>3 DEF AskedAt
    <2> QED
      BY <2>1, <2>3, <2>4
  <1>9. ASSUME ~Refused(r), MoveChatToo(r)
        PROVE  AskedAt(r)' /\ kanban' \in BOOLEAN /\ \E names : Sets(r, names)
    BY <1>9, MoveChatTooDoes, DoneFits
  <1>10. ASSUME ~Dies(r), SyncStageWrites(r) \/ SyncDeptWrites(r)
         PROVE  AskedAt(r)' /\ kanban' \in BOOLEAN /\ \E names : Sets(r, names)
    BY <1>0, <1>10, SyncStageWritesDoes, SyncDeptWritesDoes, FollowsFit
  <1>11. CASE WriteLead(r) \/ WriteLeadUpdate(r) \/ WriteLeadRemoval(r) \/ MarkConverted(r) \/ WriteDealRemoval(r)
    BY <1>1, <1>4, <1>5, <1>11, Zenon
  <1>12. CASE \E k \in Deal : CreateDealOf(r, k) \/ WriteDeal(r, k)
    BY <1>1, <1>6, <1>7, <1>12, Zenon
  <1>13. CASE MoveDeal(r) \/ MoveChatToo(r)
    BY <1>1, <1>8, <1>9, <1>13, Zenon
  <1>14. CASE SyncStage(r) \/ SyncDept(r)
    <2>1. CASE ~Refused(r)
      <3>1. AskedAt(r)' /\ Reads(r)
        BY <1>3, <1>14, <2>1, Zenon
      <3> QED
        BY <1>0, <3>1 DEF Reads, Still
    <2> QED
      BY <1>1, <2>1, Zenon
  <1>15. CASE SyncStageWrites(r) \/ SyncDeptWrites(r)
    BY <1>2, <1>10, <1>15, Zenon
  <1> QED
    BY <1>11, <1>12, <1>13, <1>14, <1>15, Zenon DEF CrmWrites

LEMMA ServedDesk ==
  ASSUME Shape, Asked, NEW r \in Slot, DeskWrites(r)
  PROVE  AskedAt(r)' /\ kanban' \in BOOLEAN /\ (Reads(r) \/ \E names : Sets(r, names))
  <1>0. kanban \in BOOLEAN
    BY DEF Shape
  <1>1. CASE Refused(r)
    BY <1>0, <1>1, RefusedDoes, DoneFits DEF Reads, Still
  <1>2. ASSUME ~Refused(r), WriteStageOfChat(r)
        PROVE  AskedAt(r)' /\ kanban' \in BOOLEAN /\ \E names : Sets(r, names)
    <2>1. task[r].op \in Following
      BY <1>2 DEF WriteStageOfChat, At, Following
    <2> QED
      BY <1>2, <2>1, WriteStageOfChatDoes, FollowsFit
  <1>3. ASSUME ~Refused(r), WriteChat(r)
        PROVE  AskedAt(r)' /\ kanban' \in BOOLEAN /\ \E names : Sets(r, names)
    <2>1. task[r].op \in Following
      BY <1>3 DEF WriteChat, At, Following
    <2>2. Follows2(r) /\ Sets(r, {"chat"}) /\ kanban' = (kanban /\ ~task[r].seen.moved)
      BY <1>3, WriteChatDoes
    <2>3. kanban' \in BOOLEAN
      BY <2>2
    <2> QED
      BY <2>1, <2>2, <2>3, FollowsFit
  <1>4. ASSUME ~Refused(r), WriteNewChat(r)
        PROVE  AskedAt(r)' /\ kanban' \in BOOLEAN /\ \E names : Sets(r, names)
    <2>1. Onward(r, 2, task[r].seen) /\ Sets(r, {"chat"}) /\ kanban' = FALSE /\ db'.chat # None
      BY <1>4, WriteNewChatDoes
    <2>2. At(r, "openChat", 1) /\ task[r].arg \in Lead
      BY <1>4 DEF WriteNewChat, Asked, AskedAt, AskedDesk
    <2>3. task'[r].op = "openChat" /\ task'[r].step = 2 /\ task'[r].arg = task[r].arg
      BY <2>1, <2>2 DEF Onward, At
    <2>4. AskedTeam(r)' /\ AskedCrm(r)' /\ AskedDesk(r)'
      BY <2>1, <2>2, <2>3 DEF AskedTeam, AskedCrm, AskedDesk, At, Following
    <2> QED
      BY <2>1, <2>4 DEF AskedAt
  <1>5. ASSUME ~Refused(r), WriteLeadOfChat(r)
        PROVE  AskedAt(r)' /\ kanban' \in BOOLEAN /\ \E names : Sets(r, names)
    BY <1>0, <1>5, WriteLeadOfChatDoes, DoneFits DEF LeadAppears, Ended
  <1> QED
    BY <1>1, <1>2, <1>3, <1>4, <1>5 DEF DeskWrites
Serves(r) == TeamWrites(r) \/ CrmWrites(r) \/ DeskWrites(r)

LEMMA ServedSoundly ==
  ASSUME Shape, Asked, NEW r \in Slot, Serves(r)
  PROVE  Lost \/ (AskedAt(r)' /\ kanban' \in BOOLEAN /\ (Reads(r) \/ \E names : Sets(r, names)))
  <1>0. kanban \in BOOLEAN
    BY DEF Shape
  <1>1. CASE TeamWrites(r)
    <2>1. AskedAt(r)' /\ (Reads(r) \/ \E names : Ended(r, names))
      BY <1>1, ServedTeam
    <2>2. CASE Reads(r)
      BY <1>0, <2>1, <2>2 DEF Reads, Still
    <2>3. CASE \E names : Ended(r, names)
      BY <1>0, <2>1, <2>3 DEF Ended
    <2> QED
      BY <2>1, <2>2, <2>3
  <1>2. CASE CrmWrites(r)
    BY <1>2, ServedCrm
  <1>3. CASE DeskWrites(r)
    BY <1>3, ServedDesk
  <1> QED
    BY <1>1, <1>2, <1>3 DEF Serves

\* A step is a death of the API, a look, or one request served.
LEMMA Steps ==
  ASSUME Shape, [OfficeNext]_officeVars
  PROVE  \/ UNCHANGED officeVars
         \/ Lost
         \/ \E r \in Slot : LooksSoundly(r) /\ task[r].step = 0
         \/ \E r \in Slot : Serves(r)
  <1>1. CASE Crash
    BY <1>1, LostDoes DEF Crash
  <1>2. ASSUME NEW r \in Slot, TeamLooks(r) \/ CrmLooks(r) \/ DeskLooks(r)
        PROVE  LooksSoundly(r) /\ task[r].step = 0
    <2>1. Ready(r)
      BY <1>2, Zenon DEF TeamLooks, CrmLooks, DeskLooks
    <2> QED
      BY <1>2, <2>1, FreeIs, TeamLooksSound, CrmLooksSound, DeskLooksSound DEF Ready
  <1> QED
    BY <1>1, <1>2, Zenon DEF OfficeNext, Serves

\* Other requests rely on users and on a chat, which stay.
LEMMA AskedAll ==
  ASSUME Asked, NEW r \in Slot, Others(r), AskedAt(r)', Attached',
         \A u \in Live("user") : u \in Live("user")', db.chat # None => db'.chat # None
  PROVE  Asked'
  <1>1. \A q \in Slot : AskedAt(q)'
    BY AskedKept DEF Others
  <1> QED
    BY <1>1 DEF Asked, Attached

LEMMA ShapeStill ==
  ASSUME Shape, TaskShape, Still
  PROVE  Shape' /\ \A t : Live(t)' = Live(t)
  <1>1. db' = db /\ gone' = gone /\ kanban' = kanban
    BY DEF Still
  <1>2. \A t : Live(t)' = Live(t)
    BY <1>1 DEF Live
  <1> QED
    BY <1>1, <1>2 DEF Shape, TaskShape

LEMMA AskedStep ==
  ASSUME Shape, Asked, [OfficeNext]_officeVars
  PROVE  Shape' /\ Asked'
  <1>1. CASE UNCHANGED officeVars
    <2>1. db' = db /\ task' = task /\ gone' = gone /\ kanban' = kanban
      BY <1>1 DEF officeVars
    <2>2. Shape'
      BY <2>1 DEF Shape, Whole
    <2>3. \A r \in Slot : Kept(r)
      BY <2>1 DEF Kept
    <2>4. \A t : Live(t)' = Live(t)
      BY <2>1 DEF Live
    <2>5. \A r \in Slot : AskedAt(r)'
      BY <2>1, <2>3, <2>4, AskedKept
    <2> QED
      BY <2>1, <2>2, <2>4, <2>5 DEF Asked
  <1>2. CASE Lost
    <2>1. Shape' /\ \A t : Live(t)' = Live(t)
      BY <1>2, ShapeStill DEF Lost
    <2>2. \A r \in Slot : AskedAt(r)'
      BY <1>2, DoneFits DEF Lost
    <2>3. db' = db
      BY <1>2 DEF Lost, Still
    <2> QED
      BY <2>1, <2>2, <2>3 DEF Asked
  <1>3. ASSUME NEW r \in Slot, TaskShape, Others(r), Still, AskedAt(r)'
        PROVE  Shape' /\ Asked'
    <2>1. Shape' /\ \A t : Live(t)' = Live(t)
      BY <1>3, ShapeStill
    <2>2. db' = db
      BY <1>3 DEF Still
    <2>3. Attached'
      BY <2>1, <2>2 DEF Asked, Attached
    <2> QED
      BY <1>3, <2>1, <2>2, <2>3, AskedAll
  <1>4. ASSUME NEW r \in Slot, LooksSoundly(r)
        PROVE  Shape' /\ Asked'
    <2>1. PICK op, arg, seen : Looked(r, op, arg, seen) /\ Grounds(op, arg, seen)
      BY <1>4 DEF LooksSoundly
    <2>2. AskedAt(r)'
      BY <2>1, AskedNow
    <2>3. TaskShape /\ Others(r) /\ Still
      BY <2>1 DEF Looked
    <2> QED
      BY <1>3, <2>2, <2>3
  <1>5. ASSUME NEW r \in Slot, NEW names, Sets(r, names), AskedAt(r)', kanban' \in BOOLEAN
        PROVE  Shape' /\ Asked'
    <2>1. Shape'
      BY <1>5 DEF Sets, Wrote, TaskShape, Shape
    <2>2. Asked'
      BY <1>5, AskedAll DEF Sets, Wrote
    <2> QED
      BY <2>1, <2>2
  <1>6. ASSUME NEW r \in Slot, Serves(r), ~Lost
        PROVE  Shape' /\ Asked'
    <2>1. AskedAt(r)' /\ kanban' \in BOOLEAN /\ (Reads(r) \/ \E names : Sets(r, names))
      BY <1>6, ServedSoundly
    <2>2. CASE Reads(r)
      BY <1>3, <2>1, <2>2 DEF Reads
    <2>3. CASE \E names : Sets(r, names)
      BY <1>5, <2>1, <2>3
    <2> QED
      BY <2>1, <2>2, <2>3
  <1> QED
    BY <1>1, <1>2, <1>4, <1>6, Steps
-----------------------------------------------------------------------------
(***************************************************************************)
(* Requests of the Kanban and of the chat leave users and departments      *)
(* alone; one that is not over goes on as the request it was.              *)
(***************************************************************************)
Elsewhere == {"convert", "createDeal", "updateDeal", "openChat", "updateStage", "updateChat"}
Over(r) == Done(r) \/ (task[r].op \in Elsewhere /\ task'[r].op = task[r].op)

LEMMA FollowsOver ==
  ASSUME NEW r \in Slot, task[r].op \in Following, Follows2(r)
  PROVE  Over(r)
  BY DEF Follows2, Over, Onward, Following, Elsewhere

LEMMA GoesOver ==
  ASSUME NEW r \in Slot, task[r].op \in Elsewhere, NEW n, NEW seen, Onward(r, n, seen)
  PROVE  Over(r)
  BY DEF Over, Onward

LEMMA CrmTouches ==
  ASSUME Shape, Asked, NEW r \in Slot, CrmWrites(r)
  PROVE  \/ Lost
         \/ /\ Over(r)
            /\ \/ Reads(r)
               \/ \E names \in SUBSET {"chat", "lead", "deal"} :
                    Sets(r, names) /\ ("chat" \in names => MoveChatToo(r) /\ ~Refused(r))
  <1> DEFINE Wrote1 == \E names \in SUBSET {"chat", "lead", "deal"} :
                         Sets(r, names) /\ ("chat" \in names => MoveChatToo(r) /\ ~Refused(r))
  <1>1. CASE Refused(r)
    BY <1>1, RefusedDoes DEF Reads, Over
  <1>2. CASE Dies(r)
    BY <1>2, LostDoes DEF Dies
  <1>3. ASSUME ~Refused(r), SyncStage(r) \/ SyncDept(r)
        PROVE  Over(r) /\ Reads(r)
    <2>1. task[r].op \in Following /\ \E n \in {2, 3, 4}, seen \in FollowUps : Goes(r, n, seen)
      BY <1>3, SyncStageDoes, SyncDeptDoes
    <2>2. task[r].op \in Elsewhere
      BY <2>1 DEF Following, Elsewhere
    <2> QED
      BY <2>1, <2>2, GoesDoes, GoesOver DEF Reads
  <1>4. ASSUME ~Refused(r), WriteLead(r) \/ WriteLeadUpdate(r) \/ WriteLeadRemoval(r) \/ MarkConverted(r) \/ WriteDealRemoval(r)
        PROVE  Over(r) /\ Wrote1
    <2>1. Ended(r, {"lead"}) \/ Ended(r, {"deal", "lead"})
      BY <1>4, WriteLeadDoes, WriteLeadUpdateDoes, WriteLeadRemovalDoes, MarkConvertedDoes, WriteDealRemovalDoes DEF LeadAppears
    <2> QED
      BY <2>1 DEF Ended, Over
  <1>5. ASSUME ~Refused(r), NEW k \in Deal, WriteDeal(r, k)
        PROVE  Over(r) /\ Wrote1
    <2>1. DealAppears(r, k) /\ Done(r)
      BY <1>5, WriteDealDoes
    <2> QED
      BY <2>1 DEF DealAppears, Over
  <1>6. ASSUME ~Refused(r), NEW k \in Deal, CreateDealOf(r, k)
        PROVE  Over(r) /\ Wrote1
    <2>1. DealAppears(r, k) /\ Onward(r, 2, k) /\ task[r].op \in Elsewhere
      BY <1>6, CreateDealOfDoes DEF CreateDealOf, At, Elsewhere
    <2>2. Over(r)
      BY <2>1, GoesOver
    <2> QED
      BY <2>1, <2>2 DEF DealAppears
  <1>7. ASSUME ~Refused(r), MoveDeal(r)
        PROVE  Over(r) /\ Wrote1
    <2>1. Sets(r, {"deal"}) /\ (Done(r) \/ Onward(r, 2, task[r].seen)) /\ task[r].op \in Elsewhere
      BY <1>7, MoveDealDoes DEF MoveDeal, At, Elsewhere
    <2>2. Over(r)
      BY <2>1, GoesOver DEF Over
    <2> QED
      BY <2>1, <2>2
  <1>8. ASSUME ~Refused(r), MoveChatToo(r)
        PROVE  Over(r) /\ Wrote1
    BY <1>8, MoveChatTooDoes DEF Over
  <1>9. ASSUME ~Dies(r), SyncStageWrites(r) \/ SyncDeptWrites(r)
        PROVE  Over(r) /\ Wrote1
    <2>1. Follows2(r) /\ task[r].op \in Following /\ (Sets(r, {"deal"}) \/ Sets(r, {"lead"}))
      BY <1>9, SyncStageWritesDoes, SyncDeptWritesDoes
    <2> QED
      BY <2>1, FollowsOver
  <1> HIDE DEF Wrote1
  <1>10. CASE WriteLead(r) \/ WriteLeadUpdate(r) \/ WriteLeadRemoval(r) \/ MarkConverted(r) \/ WriteDealRemoval(r)
    BY <1>1, <1>4, <1>10, Zenon DEF Wrote1
  <1>11. CASE \E k \in Deal : CreateDealOf(r, k) \/ WriteDeal(r, k)
    BY <1>1, <1>5, <1>6, <1>11, Zenon DEF Wrote1
  <1>12. CASE MoveDeal(r) \/ MoveChatToo(r)
    BY <1>1, <1>7, <1>8, <1>12, Zenon DEF Wrote1
  <1>13. CASE SyncStage(r) \/ SyncDept(r)
    BY <1>1, <1>3, <1>13, Zenon
  <1>14. CASE SyncStageWrites(r) \/ SyncDeptWrites(r)
    BY <1>2, <1>9, <1>14, Zenon DEF Wrote1
  <1> QED
    BY <1>10, <1>11, <1>12, <1>13, <1>14, Zenon DEF CrmWrites

LEMMA DeskTouches ==
  ASSUME Shape, Asked, NEW r \in Slot, DeskWrites(r)
  PROVE  Over(r) /\ (Reads(r) \/ \E names \in SUBSET {"chat", "lead", "deal"} : Sets(r, names))
  <1>1. CASE Refused(r)
    BY <1>1, RefusedDoes DEF Reads, Over
  <1>2. CASE ~Refused(r) /\ WriteStageOfChat(r)
    <2>1. task[r].op \in Following /\ Follows2(r) /\ Sets(r, {"chat"})
      BY <1>2, WriteStageOfChatDoes DEF WriteStageOfChat, At, Following
    <2> QED
      BY <2>1, FollowsOver
  <1>3. CASE ~Refused(r) /\ WriteChat(r)
    <2>1. task[r].op \in Following
      BY <1>3 DEF WriteChat, At, Following
    <2>2. Follows2(r) /\ Sets(r, {"chat"})
      BY <1>3, WriteChatDoes
    <2> QED
      BY <2>1, <2>2, FollowsOver
  <1>4. CASE ~Refused(r) /\ WriteNewChat(r)
    <2>1. task[r].op \in Elsewhere /\ Onward(r, 2, task[r].seen) /\ Sets(r, {"chat"})
      BY <1>4, WriteNewChatDoes DEF WriteNewChat, At, Elsewhere
    <2>2. Over(r)
      BY <2>1, GoesOver
    <2> QED
      BY <2>1, <2>2
  <1>5. CASE ~Refused(r) /\ WriteLeadOfChat(r)
    BY <1>5, WriteLeadOfChatDoes DEF LeadAppears, Ended, Over
  <1> QED
    BY <1>1, <1>2, <1>3, <1>4, <1>5, Zenon DEF DeskWrites
-----------------------------------------------------------------------------
(***************************************************************************)
(* Defaults.                                                               *)
(***************************************************************************)
Markable == {"user", "dept"}

\* A row left as it was, or made harmless, keeps what is known of the defaults.
LEMMA MarksQuiet ==
  ASSUME NEW t \in Markable, MarksSound(t), Mild(t), overlaps \subseteq overlaps', NEW r \in Slot, Others(r), MarksAt(t, r)'
  PROVE  MarksSound(t)'
  <1>1. OneDefault(t)'
    BY DEF MarksSound, OneDefault, Mild, Overlapped
  <1>2. ActiveDefault(t)'
    <2>1. ASSUME \A x \in Defaults(t) : db[t][x].active, NEW x \in Defaults(t)'
          PROVE  db'[t][x].active
      <3>1. x \in Defaults(t) /\ db[t][x].active /\ x \in Live(t)'
        BY <2>1 DEF Mild, Defaults
      <3> QED
        BY <3>1 DEF Mild
    <2> QED
      BY <2>1 DEF MarksSound, ActiveDefault, Overlapped
  <1>3. ASSUME NEW q \in Slot, q # r PROVE MarksAt(t, q)'
    <2>1. Kept(q) /\ MarksAt(t, q)
      BY <1>3 DEF Others, MarksSound
    <2>2. Defaults(t)' \subseteq Defaults(t)
      BY DEF Mild
    <2>3. \A x : x \notin Live(t) \/ db[t][x].active => x \notin Live(t)' \/ db'[t][x].active
      BY DEF Mild
    <2> QED
      BY <2>1, <2>2, <2>3 DEF MarksAt, At, Kept
  <1> QED
    BY <1>1, <1>2, <1>3 DEF MarksSound

LEMMA MildSame ==
  ASSUME NEW t, db'[t] = db[t]
  PROVE  Mild(t)
  BY DEF Mild, Defaults, Live

LEMMA OverFits ==
  ASSUME NEW r \in Slot, Over(r), NEW t \in Markable
  PROVE  MarksAt(t, r)'
  <1>1. CASE Done(r)
    BY <1>1, DoneFits
  <1>2. CASE task[r].op \in Elsewhere /\ task'[r].op = task[r].op
    BY <1>2 DEF MarksAt, At, Elsewhere, DefaultOp, Update, Markable
  <1> QED
    BY <1>1, <1>2 DEF Over

LEMMA ClearingKeepsMarks ==
  ASSUME Shape, NEW t \in Markable, MarksSound(t), NEW r \in Slot, NEW c \in Markable, ClearDefaults(r, c)
  PROVE  MarksSound(t)'
  <1>1. Reads(r) /\ Onward(r, 2, Defaults(c)) /\ At(r, DefaultOp[c], 1)
    BY GoesDoes DEF ClearDefaults, Reads
  <1>2. db' = db /\ overlaps' = overlaps /\ Others(r)
    BY <1>1 DEF Reads, Still
  <1>3. Mild(t)
    BY <1>2, MildSame
  <1>4. MarksAt(t, r)'
    <2>1. task'[r].op = DefaultOp[c] /\ task'[r].step = 2 /\ task'[r].arg = task[r].arg /\ task'[r].seen = Defaults(c)
          /\ task'[r].since = task[r].since
      BY <1>1 DEF Onward, At
    <2>2. Defaults(t)' = Defaults(t) /\ Live(t)' = Live(t)
      BY <1>2 DEF Defaults, Live
    <2>3. MarksAt(t, r)
      BY DEF MarksSound
    <2>4. CASE t = c
      <3>1. At(r, DefaultOp[t], 1) /\ DefaultOp[t] # Update[t]
        BY <1>1, <2>4 DEF DefaultOp, Update, Markable
      <3> QED
        BY <1>2, <2>1, <2>2, <2>3, <2>4, <3>1 DEF MarksAt, At
    <2>5. CASE t # c
      <3>1. DefaultOp[t] # DefaultOp[c] /\ DefaultOp[c] # Update[t]
        BY <2>5 DEF DefaultOp, Update, Markable
      <3> QED
        BY <2>1, <3>1 DEF MarksAt, At
    <2> QED
      BY <2>4, <2>5
  <1> QED
    BY <1>2, <1>3, <1>4, MarksQuiet

LEMMA CommitKeepsMarks ==
  ASSUME Shape, Asked, NEW t \in Markable, MarksSound(t), NEW r \in Slot, CommitDefault(r, t), ~Refused(r)
  PROVE  MarksSound(t)'
  <1> DEFINE set == DefaultOp[t]
             update == Update[t]
             a == task[r].arg
  <1>1. /\ Done(r) /\ Wrote(r) /\ Live(t)' = Live(t) /\ a \in Live(t)
        /\ \A x \in Live(t) : db'[t][x].active = db[t][x].active
        /\ \A x \in Defaults(t)' : x = a \/ (x \in Defaults(t) /\ x \notin task[r].seen)
    BY CommitDefaultDoes DEF Ended, Sets, Markable
  <1>2. At(r, set, 2) /\ task[r].op = set
    BY DEF CommitDefault, At
  <1>3. /\ set \in task[r].since \/ Defaults(t) \subseteq task[r].seen
        /\ update \in task[r].since \/ db[t][a].active
    BY <1>1, <1>2 DEF MarksSound, MarksAt
  <1>4. \A o \in task[r].since : <<set, o>> \in overlaps'
    BY <1>1, <1>2 DEF Wrote
  <1>5. overlaps \subseteq overlaps' /\ Others(r) /\ Missed(r)
    BY <1>1 DEF Wrote
  <1>6. OneDefault(t)'
    BY <1>1, <1>3, <1>4 DEF OneDefault, Overlapped
  <1>7. ActiveDefault(t)'
    <2>1. CASE update \in task[r].since
      BY <1>4, <2>1 DEF ActiveDefault, Overlapped
    <2>2. CASE db[t][a].active /\ \A x \in Defaults(t) : db[t][x].active
      <3>1. \A x \in Defaults(t)' : db'[t][x].active
        BY <1>1, <2>2 DEF Defaults
      <3> QED
        BY <3>1 DEF ActiveDefault
    <2> QED
      BY <1>3, <1>5, <2>1, <2>2 DEF MarksSound, ActiveDefault, Overlapped
  <1>8. ASSUME NEW q \in Slot, q # r PROVE MarksAt(t, q)'
    <2>1. Kept(q) /\ (task[q].step = 0 \/ set \in task'[q].since) /\ MarksAt(t, q)
      BY <1>2, <1>5, <1>8 DEF Others, Missed, MarksSound
    <2> QED
      BY <1>1, <2>1 DEF MarksAt, At, Kept
  <1>9. MarksAt(t, r)'
    BY <1>1, DoneFits
  <1> QED
    BY <1>6, <1>7, <1>8, <1>9 DEF MarksSound

\* An update of a row: only an inactive row may lose the mark, and it does if it was seen to have it.
Updates(t, r) ==
  LET x == Target(t, task[r].arg)
  IN /\ At(r, Update[t], 1) /\ Done(r) /\ Wrote(r) /\ Live(t)' = Live(t)
     /\ \A y \in Live(t) : y # x => db'[t][y] = db[t][y]
     /\ db'[t][x].dft => db[t][x].dft
     /\ db'[t][x].dft /\ task[r].seen => db'[t][x].active \/ ~db[t][x].active

LEMMA UpdateKeepsMarks ==
  ASSUME NEW t \in Markable, MarksSound(t), NEW r \in Slot, Updates(t, r)
  PROVE  MarksSound(t)'
  <1> DEFINE set == DefaultOp[t]
             update == Update[t]
             x == Target(t, task[r].arg)
  <1>1. At(r, update, 1) /\ Done(r) /\ Wrote(r) /\ Live(t)' = Live(t) /\ task[r].op = update
    BY DEF Updates, At
  <1>2. Defaults(t)' \subseteq Defaults(t)
    BY DEF Updates, Defaults
  <1>3. set \in task[r].since \/ task[r].seen \/ x \notin Defaults(t)
    BY <1>1 DEF MarksSound, MarksAt
  <1>4. \A o \in task[r].since : <<update, o>> \in overlaps'
    BY <1>1 DEF Wrote
  <1>5. overlaps \subseteq overlaps' /\ Others(r) /\ Missed(r)
    BY <1>1 DEF Wrote
  <1>6. OneDefault(t)'
    BY <1>2, <1>5 DEF MarksSound, OneDefault, Overlapped
  <1>7. ActiveDefault(t)'
    <2>1. CASE set \in task[r].since
      BY <1>4, <2>1 DEF ActiveDefault, Overlapped
    <2>2. ASSUME task[r].seen \/ x \notin Defaults(t), \A y \in Defaults(t) : db[t][y].active, NEW y \in Defaults(t)'
          PROVE  db'[t][y].active
      <3>1. y \in Defaults(t) /\ y \in Live(t) /\ db[t][y].active /\ db'[t][y].dft
        BY <1>2, <2>2 DEF Defaults
      <3>2. CASE y = x
        BY <2>2, <3>1, <3>2 DEF Updates
      <3>3. CASE y # x
        BY <3>1, <3>3 DEF Updates
      <3> QED
        BY <3>2, <3>3
    <2> QED
      BY <1>3, <1>5, <2>1, <2>2 DEF MarksSound, ActiveDefault, Overlapped
  <1>8. ASSUME NEW q \in Slot, q # r PROVE MarksAt(t, q)'
    <2>1. Kept(q) /\ (task[q].step = 0 \/ update \in task'[q].since) /\ MarksAt(t, q)
      BY <1>1, <1>5, <1>8 DEF Others, Missed, MarksSound
    <2>2. set # update
      BY DEF DefaultOp, Update, Markable
    <2> QED
      BY <1>2, <2>1, <2>2 DEF MarksAt, At, Kept
  <1>9. MarksAt(t, r)'
    BY <1>1, DoneFits
  <1> QED
    BY <1>6, <1>7, <1>8, <1>9 DEF MarksSound
\* What a team request does to a table with marks, but for those that set or take one.
LEMMA TeamIsMild ==
  ASSUME Shape, Asked, NEW r \in Slot, TeamWrites(r), ~Refused(r), NEW t \in Markable,
         ~\E c \in Markable : ClearDefaults(r, c) \/ CommitDefault(r, c),
         t = "user" => ~WriteUserUpdate(r), t = "dept" => ~WriteDepartmentUpdate(r)
  PROVE  \E names : Ended(r, names) /\ (t \in names => Mild(t))
  <1>1. CASE WriteClearDefaultAgent(r) \/ WriteMembers(r) \/ WriteUser(r) \/ WriteUserUpdate(r)
    <2>1. Ended(r, {"user"}) /\ (t = "user" => Mild("user"))
      BY <1>1, WriteClearDefaultAgentDoes, WriteMembersDoes, WriteUserDoes, WriteUserUpdateDoes
    <2> QED
      BY <2>1
  <1>2. CASE WriteDepartment(r) \/ WriteDepartmentUpdate(r)
    <2>1. Ended(r, {"dept"}) /\ (t = "dept" => Mild("dept"))
      BY <1>2, WriteDepartmentDoes, WriteDepartmentUpdateDoes
    <2> QED
      BY <2>1
  <1>3. CASE WriteDepartmentDelete(r)
    <2>1. Ended(r, {"user", "dept", "stage", "chat", "lead"}) /\ Mild("user") /\ Mild("dept")
      BY <1>3, WriteDepartmentDeleteDoes
    <2> QED
      BY <2>1 DEF Markable
  <1>4. CASE \/ WriteProject(r) \/ WriteProjectDelete(r) \/ WriteStage(r) \/ WriteStageUpdate(r) \/ WriteStageDelete(r)
    <2>1. \E names \in {{"project"}, {"project", "chat"}, {"stage"}, {"stage", "chat"}} : Ended(r, names)
      BY <1>4, WriteProjectDoes, WriteProjectDeleteDoes, WriteStageDoes, WriteStageUpdateDoes, WriteStageDeleteDoes
    <2> QED
      BY <2>1 DEF Markable
  <1> QED
    BY <1>1, <1>2, <1>3, <1>4, Zenon DEF TeamWrites, Markable

LEMMA MarksStep ==
  ASSUME Shape, Asked, NEW t \in Markable, MarksSound(t), [OfficeNext]_officeVars
  PROVE  MarksSound(t)'
  <1>1. ASSUME NEW r \in Slot, Others(r), db' = db, overlaps' = overlaps, MarksAt(t, r)'
        PROVE  MarksSound(t)'
    BY <1>1, MildSame, MarksQuiet
  <1>2. CASE UNCHANGED officeVars
    <2>1. task' = task /\ db' = db /\ overlaps' = overlaps
      BY <1>2 DEF officeVars
    <2> QED
      BY <2>1 DEF MarksSound, OneDefault, ActiveDefault, MarksAt, Overlapped, Defaults, Live, At
  <1>3. CASE Lost
    <2>1. db' = db /\ overlaps' = overlaps /\ \A r \in Slot : MarksAt(t, r)'
      BY <1>3, DoneFits DEF Lost, Still
    <2> QED
      BY <2>1 DEF MarksSound, OneDefault, ActiveDefault, Overlapped, Defaults, Live
  <1>4. ASSUME NEW r \in Slot, LooksSoundly(r)
        PROVE  MarksSound(t)'
    <2>1. PICK op, arg, seen : Looked(r, op, arg, seen) /\ Grounds(op, arg, seen)
      BY <1>4 DEF LooksSoundly
    <2>2. /\ Others(r) /\ db' = db /\ overlaps' = overlaps
          /\ task'[r].op = op /\ task'[r].step = 1 /\ task'[r].arg = arg /\ task'[r].seen = seen
      BY <2>1 DEF Looked, Still
    <2>3. Live(t)' = Live(t) /\ Defaults(t)' = Defaults(t)
      BY <2>2 DEF Live, Defaults
    <2>4. op = DefaultOp[t] => arg \in Live(t) /\ db[t][arg].active
      BY <2>1 DEF Grounds, TeamGrounds, Markable
    <2>5. op = Update[t] => seen \/ Target(t, arg) \notin Defaults(t)
      <3>1. CASE t = "user"
        BY <2>1, <3>1, RowsAreRows DEF Grounds, TeamGrounds, Update, Target, Defaults
      <3>2. CASE t = "dept"
        BY <2>1, <3>2, RowsAreRows DEF Grounds, TeamGrounds, Update, Target, Defaults
      <3> QED
        BY <3>1, <3>2 DEF Markable
    <2>6. MarksAt(t, r)'
      BY <2>2, <2>3, <2>4, <2>5 DEF MarksAt, At
    <2> QED
      BY <1>1, <2>2, <2>6
  <1>5. ASSUME NEW r \in Slot, Over(r), Reads(r) \/ \E names \in SUBSET {"chat", "lead", "deal"} : Sets(r, names)
        PROVE  MarksSound(t)'
    <2>1. MarksAt(t, r)'
      BY <1>5, OverFits
    <2>2. CASE Reads(r)
      BY <1>1, <2>1, <2>2 DEF Reads, Still
    <2>3. CASE \E names \in SUBSET {"chat", "lead", "deal"} : Sets(r, names)
      <3>1. db'[t] = db[t] /\ Others(r) /\ overlaps \subseteq overlaps'
        BY <2>3 DEF Sets, Only, Wrote, Table, Markable
      <3> QED
        BY <2>1, <3>1, MildSame, MarksQuiet
    <2> QED
      BY <1>5, <2>2, <2>3
  <1>6. ASSUME NEW r \in Slot, Refused(r)
        PROVE  MarksSound(t)'
    BY <1>1, <1>6, RefusedDoes, DoneFits DEF Still
  <1>7. ASSUME NEW r \in Slot, NEW names, Ended(r, names), t \in names => Mild(t)
        PROVE  MarksSound(t)'
    <2>1. Mild(t)
      BY <1>7, MildSame DEF Ended, Sets, Only, Table, Markable
    <2>2. MarksAt(t, r)' /\ Others(r) /\ overlaps \subseteq overlaps'
      BY <1>7, DoneFits DEF Ended, Sets, Wrote
    <2> QED
      BY <2>1, <2>2, MarksQuiet
  <1>8. ASSUME NEW r \in Slot, TeamWrites(r), ~Refused(r)
        PROVE  MarksSound(t)'
    <2>1. CASE \E c \in Markable : ClearDefaults(r, c)
      BY <2>1, ClearingKeepsMarks
    <2>2. ASSUME NEW c \in Markable, CommitDefault(r, c)
          PROVE  MarksSound(t)'
      <3>1. CASE c = t
        BY <1>8, <2>2, <3>1, CommitKeepsMarks
      <3>2. CASE c # t
        BY <1>7, <1>8, <2>2, <3>2, CommitDefaultDoes DEF Markable
      <3> QED
        BY <3>1, <3>2
    <2>3. CASE t = "user" /\ WriteUserUpdate(r)
      <3>1. Updates("user", r)
        BY <1>8, <2>3, WriteUserUpdateDoes, RowsAreRows DEF Updates, Ended, Sets, Target, Update, WriteUserUpdate
      <3> QED
        BY <2>3, <3>1, UpdateKeepsMarks
    <2>4. CASE t = "dept" /\ WriteDepartmentUpdate(r)
      <3>1. Updates("dept", r)
        BY <1>8, <2>4, WriteDepartmentUpdateDoes, RowsAreRows DEF Updates, Ended, Sets, Target, Update, WriteDepartmentUpdate
      <3> QED
        BY <2>4, <3>1, UpdateKeepsMarks
    <2> QED
      BY <1>7, <1>8, <2>1, <2>2, <2>3, <2>4, TeamIsMild
  <1>9. ASSUME NEW r \in Slot, Serves(r), ~Lost
        PROVE  MarksSound(t)'
    <2>1. CASE TeamWrites(r)
      BY <1>6, <1>8, <2>1
    <2>2. CASE CrmWrites(r)
      BY <1>5, <1>9, <2>2, CrmTouches
    <2>3. CASE DeskWrites(r)
      BY <1>5, <2>3, DeskTouches
    <2> QED
      BY <1>9, <2>1, <2>2, <2>3 DEF Serves
  <1> QED
    BY <1>2, <1>3, <1>4, <1>9, Steps
-----------------------------------------------------------------------------
(***************************************************************************)
(* What is to be deleted.                                                  *)
(***************************************************************************)
\* The chat comes to no department and to no project it was not in.
DeptLeft == db'.chat = None \/ db'.chat.dept = None \/ (db.chat # None /\ db'.chat.dept = db.chat.dept)
ProjectLeft == db'.chat = None \/ db'.chat.project = None \/ (db.chat # None /\ db'.chat.project = db.chat.project)

\* Nobody comes to a department but by the requests that say so, and rows stay.
Stays(r) ==
  /\ NoneJoins \/ task[r].op \in Joining
  /\ DeptLeft \/ task[r].op \in Moving
  /\ ProjectLeft \/ task[r].op = "updateChat"
  /\ \A d \in Live("dept") : d \in Live("dept")' \/ (At(r, "deleteDepartment", 1) /\ d = task[r].arg)
  /\ \A p \in Live("project") : p \in Live("project")' \/ (At(r, "deleteProject", 1) /\ p = task[r].arg)

LEMMA UsersStay ==
  ASSUME db'["user"] = db["user"], Shape, Shape'
  PROVE  NoneJoins
  <1>1. db.user = db["user"] /\ db'.user = db'["user"]
    BY DEF Shape, Tables
  <1> QED
    BY <1>1 DEF NoneJoins, Members, Live

LEMMA ChatStays ==
  ASSUME db'["chat"] = db["chat"], Shape, Shape'
  PROVE  DeptLeft /\ ProjectLeft /\ db'.chat = db.chat
  <1>1. db.chat = db["chat"] /\ db'.chat = db'["chat"]
    BY DEF Shape, Tables
  <1> QED
    BY <1>1 DEF DeptLeft, ProjectLeft

LEMMA RowsStay ==
  ASSUME NEW t, db'[t] = db[t]
  PROVE  Live(t)' = Live(t)
  BY DEF Live

LEMMA TeamStays ==
  ASSUME Shape, Asked, Shape', NEW r \in Slot, TeamWrites(r), ~Refused(r),
         ~\E c \in Markable : ClearDefaults(r, c)
  PROVE  \E names : Ended(r, names) /\ Stays(r)
  <1> DEFINE Rest(names) == /\ Ended(r, names)
                            /\ "user" \notin names => NoneJoins
                            /\ "chat" \notin names => DeptLeft /\ ProjectLeft
                            /\ "dept" \notin names => \A d \in Live("dept") : d \in Live("dept")'
                            /\ "project" \notin names => \A d \in Live("project") : d \in Live("project")'
  <1>1. ASSUME NEW names, Ended(r, names) PROVE Rest(names)
    BY <1>1, UsersStay, ChatStays, RowsStay DEF Ended, Sets, Only, Table
  <1>2. ASSUME NEW c \in Markable, CommitDefault(r, c) PROVE Rest({c}) /\ NoneJoins /\ Live(c)' = Live(c)
    BY <1>1, <1>2, CommitDefaultDoes DEF Markable
  <1>3. CASE WriteClearDefaultAgent(r)
    <2>1. Rest({"user"}) /\ NoneJoins
      BY <1>1, <1>3, WriteClearDefaultAgentDoes
    <2> QED
      BY <2>1 DEF Stays
  <1>4. CASE WriteMembers(r) \/ WriteUser(r) \/ WriteUserUpdate(r)
    <2>1. Rest({"user"})
      BY <1>1, <1>4, WriteMembersDoes, WriteUserDoes, WriteUserUpdateDoes
    <2>2. task[r].op \in Joining
      BY <1>4 DEF WriteMembers, WriteUser, WriteUserUpdate, At, Joining
    <2> QED
      BY <2>1, <2>2 DEF Stays
  <1>5. CASE WriteDepartment(r) \/ WriteDepartmentUpdate(r)
    <2>1. Rest({"dept"}) /\ \A d \in Live("dept") : d \in Live("dept")'
      BY <1>1, <1>5, WriteDepartmentDoes, WriteDepartmentUpdateDoes
    <2> QED
      BY <2>1 DEF Stays
  <1>6. CASE WriteDepartmentDelete(r)
    <2>1. /\ Rest({"user", "dept", "stage", "chat", "lead"}) /\ NoneJoins
          /\ \A d \in Live("dept") : d # task[r].arg => d \in Live("dept")'
          /\ db.chat = None <=> db'.chat = None
          /\ db.chat # None => /\ db'.chat.dept = IF db.chat.dept = task[r].arg THEN None ELSE db.chat.dept
                               /\ db'.chat.project = db.chat.project
      BY <1>1, <1>6, WriteDepartmentDeleteDoes
    <2>2. DeptLeft /\ ProjectLeft
      BY <2>1 DEF DeptLeft, ProjectLeft
    <2>3. At(r, "deleteDepartment", 1)
      BY <1>6 DEF WriteDepartmentDelete
    <2> QED
      BY <2>1, <2>2, <2>3 DEF Stays
  <1>7. CASE WriteProject(r)
    <2>1. Rest({"project"}) /\ \A d \in Live("project") : d \in Live("project")'
      BY <1>1, <1>7, WriteProjectDoes
    <2> QED
      BY <2>1 DEF Stays
  <1>8. CASE WriteProjectDelete(r)
    <2>1. /\ Rest({"project", "chat"})
          /\ \A d \in Live("project") : d # task[r].arg => d \in Live("project")'
          /\ Loses(task[r].arg, {}) /\ (db.chat # None => db'.chat.dept = db.chat.dept)
      BY <1>1, <1>8, WriteProjectDeleteDoes
    <2>2. DeptLeft /\ ProjectLeft
      BY <2>1 DEF DeptLeft, ProjectLeft, Loses
    <2>3. At(r, "deleteProject", 1)
      BY <1>8 DEF WriteProjectDelete
    <2> QED
      BY <2>1, <2>2, <2>3 DEF Stays
  <1>9. CASE WriteStage(r) \/ WriteStageUpdate(r)
    <2>1. Rest({"stage"})
      BY <1>1, <1>9, WriteStageDoes, WriteStageUpdateDoes
    <2> QED
      BY <2>1 DEF Stays
  <1>10. CASE WriteStageDelete(r)
    <2>1. /\ Rest({"stage", "chat"})
          /\ db.chat = None <=> db'.chat = None
          /\ db.chat # None => db'.chat.dept = db.chat.dept /\ db'.chat.project = db.chat.project
      BY <1>1, <1>10, WriteStageDeleteDoes
    <2>2. DeptLeft /\ ProjectLeft
      BY <2>1 DEF DeptLeft, ProjectLeft
    <2> QED
      BY <2>1, <2>2 DEF Stays
  <1>11. ASSUME NEW c \in Markable, CommitDefault(r, c)
         PROVE  \E names : Ended(r, names) /\ Stays(r)
    <2>1. Rest({c}) /\ NoneJoins /\ Live(c)' = Live(c)
      BY <1>2, <1>11
    <2> QED
      BY <2>1 DEF Stays, Markable
  <1> HIDE DEF Rest
  <1> QED
    BY <1>3, <1>4, <1>5, <1>6, <1>7, <1>8, <1>9, <1>10, <1>11, Zenon DEF TeamWrites, Markable

LEMMA CrmDeskStays ==
  ASSUME Shape, Asked, Shape', NEW r \in Slot, CrmWrites(r) \/ DeskWrites(r), ~Lost, ~Reads(r)
  PROVE  Over(r) /\ Stays(r) /\ \E names \in SUBSET {"chat", "lead", "deal"} : Sets(r, names)
  <1>1. /\ Over(r)
        /\ \E names \in SUBSET {"chat", "lead", "deal"} :
             Sets(r, names) /\ (CrmWrites(r) /\ "chat" \in names => MoveChatToo(r) /\ ~Refused(r))
    <2>1. CASE CrmWrites(r)
      BY <2>1, CrmTouches
    <2>2. CASE ~CrmWrites(r)
      BY <2>2, DeskTouches
    <2> QED
      BY <2>1, <2>2
  <1>2. NoneJoins /\ Live("dept")' = Live("dept") /\ Live("project")' = Live("project")
    BY <1>1, UsersStay, RowsStay DEF Sets, Only, Table
  <1>3. DeptLeft \/ task[r].op \in Moving
    <2>1. CASE CrmWrites(r)
      BY <1>1, <2>1, MoveChatTooDoes, ChatStays DEF DeptLeft, Sets, Only, Table
    <2>2. CASE DeskWrites(r)
      <3>1. CASE WriteStageOfChat(r)
        BY <1>1, <3>1, WriteStageOfChatDoes, RefusedDoes DEF DeptLeft, Reads
      <3>2. CASE WriteChat(r) \/ WriteNewChat(r) \/ WriteLeadOfChat(r)
        BY <3>2 DEF WriteChat, WriteNewChat, WriteLeadOfChat, At, Moving
      <3> QED
        BY <2>2, <3>1, <3>2 DEF DeskWrites
    <2> QED
      BY <2>1, <2>2
  <1>4. ProjectLeft \/ task[r].op = "updateChat"
    <2>0. ~Refused(r)
      BY RefusedDoes DEF Reads
    <2>1. CASE CrmWrites(r)
      BY <1>1, <2>1, MoveChatTooDoes, ChatStays DEF ProjectLeft, Sets, Only, Table
    <2>2. CASE WriteStageOfChat(r)
      BY <2>0, <2>2, WriteStageOfChatDoes DEF ProjectLeft
    <2>3. CASE WriteChat(r)
      BY <2>3 DEF WriteChat, At
    <2>4. CASE WriteNewChat(r)
      BY <2>0, <2>4, WriteNewChatDoes DEF ProjectLeft
    <2>5. CASE WriteLeadOfChat(r)
      BY <2>0, <2>5, WriteLeadOfChatDoes, ChatStays DEF LeadAppears, Ended, Sets, Only, Table
    <2> QED
      BY <2>1, <2>2, <2>3, <2>4, <2>5 DEF DeskWrites
  <1> QED
    BY <1>1, <1>2, <1>3, <1>4 DEF Stays
LEMMA ServedStays ==
  ASSUME Shape, Asked, Shape', NEW r \in Slot, Serves(r), ~Lost
  PROVE  DeleteAt(r)' /\ (Reads(r) \/ (Stays(r) /\ \E names : Sets(r, names)))
  <1>1. ASSUME Over(r) PROVE DeleteAt(r)'
    <2>1. CASE Done(r)
      BY <2>1, DoneFits
    <2>2. CASE task[r].op \in Elsewhere /\ task'[r].op = task[r].op
      BY <2>2 DEF DeleteAt, At, Elsewhere
    <2> QED
      BY <1>1, <2>1, <2>2 DEF Over
  <1>2. CASE CrmWrites(r) \/ DeskWrites(r)
    <2>1. Over(r)
      BY <1>2, CrmTouches, DeskTouches
    <2>2. Reads(r) \/ (Stays(r) /\ \E names : Sets(r, names))
      BY <1>2, CrmDeskStays
    <2> QED
      BY <1>1, <2>1, <2>2
  <1>3. CASE Refused(r)
    BY <1>3, RefusedDoes, DoneFits DEF Reads
  <1>4. ASSUME NEW c \in Markable, ClearDefaults(r, c)
        PROVE  DeleteAt(r)' /\ Reads(r)
    <2>1. Reads(r) /\ Onward(r, 2, Defaults(c))
      BY <1>4, GoesDoes DEF ClearDefaults, Reads
    <2> QED
      BY <2>1 DEF DeleteAt, At, Onward
  <1>5. CASE TeamWrites(r) /\ ~Refused(r) /\ ~\E c \in Markable : ClearDefaults(r, c)
    <2>1. \E names : Ended(r, names) /\ Stays(r)
      BY <1>5, TeamStays
    <2> QED
      BY <2>1, DoneFits DEF Ended
  <1> QED
    BY <1>2, <1>3, <1>4, <1>5 DEF Serves

LEMMA DeletesStep ==
  ASSUME Shape, Asked, Shape', DeletesSound, [OfficeNext]_officeVars
  PROVE  DeletesSound'
  <1>0. None \notin Dept \cup Project
    BY TablesAssumption
  <1>1. ASSUME NEW q \in Slot, Kept(q), db' = db
        PROVE  DeleteAt(q)'
    <2>1. DeleteAt(q) /\ \A d : Members(d)' = Members(d)
      BY <1>1 DEF DeletesSound, Members, Live
    <2> QED
      BY <1>1, <2>1 DEF DeleteAt, At, Kept
  <1>2. CASE UNCHANGED officeVars
    <2>1. db' = db /\ \A q \in Slot : Kept(q)
      BY <1>2 DEF officeVars, Kept
    <2> QED
      BY <1>1, <2>1 DEF DeletesSound
  <1>3. CASE Lost
    BY <1>3, DoneFits DEF Lost, DeletesSound
  <1>4. ASSUME NEW r \in Slot, Others(r), db' = db, DeleteAt(r)'
        PROVE  DeletesSound'
    <2>1. \A q \in Slot : q # r => DeleteAt(q)'
      BY <1>1, <1>4 DEF Others
    <2> QED
      BY <1>4, <2>1 DEF DeletesSound
  <1>5. ASSUME NEW r \in Slot, LooksSoundly(r)
        PROVE  DeletesSound'
    <2>1. PICK op, arg, seen : Looked(r, op, arg, seen) /\ Grounds(op, arg, seen)
      BY <1>5 DEF LooksSoundly
    <2>2. Others(r) /\ db' = db /\ task'[r].op = op /\ task'[r].step = 1 /\ task'[r].arg = arg
      BY <2>1 DEF Looked, Still
    <2>3. /\ op = "deleteDepartment" => Members(arg) = {} /\ (db.chat # None => db.chat.dept # arg)
          /\ op = "deleteProject" => (db.chat # None => db.chat.project # arg)
      BY <2>1 DEF Grounds, TeamGrounds
    <2>4. \A d : Members(d)' = Members(d)
      BY <2>2 DEF Members, Live
    <2>5. DeleteAt(r)'
      BY <2>2, <2>3, <2>4 DEF DeleteAt, At
    <2> QED
      BY <1>4, <2>2, <2>5
  <1>6. ASSUME NEW r \in Slot, Wrote(r), Stays(r), NEW q \in Slot, q # r
        PROVE  DeleteAt(q)'
    <2>1. Kept(q) /\ (task[q].step = 0 \/ task[r].op \in task'[q].since) /\ DeleteAt(q)
      BY <1>6 DEF Wrote, Others, Missed, DeletesSound
    <2>2. At(q, "deleteDepartment", 1) => task[q].arg \in Dept
      BY DEF Asked, AskedAt, AskedTeam
    <2>3. At(q, "deleteProject", 1) => task[q].arg \in Project
      BY DEF Asked, AskedAt, AskedTeam
    <2>4. ASSUME At(q, "deleteDepartment", 1)
          PROVE  Members(task[q].arg)' = {} \/ task'[q].since \cap Joining # {}
      <3>1. task[r].op \in task'[q].since /\ task[q].since \subseteq task'[q].since
        BY <2>1, <2>4 DEF At, Kept
      <3>2. task'[q].arg = task[q].arg
        BY <2>1 DEF Kept
      <3>3. Members(task[q].arg) = {} \/ task[q].since \cap Joining # {}
        BY <2>1, <2>4 DEF DeleteAt
      <3>4. CASE NoneJoins /\ Members(task[q].arg) = {}
        <4>1. \A d : d = task[q].arg => Members(d)' = {}
          BY <3>4 DEF NoneJoins
        <4> QED
          BY <3>2, <4>1 DEF Members
      <3> QED
        BY <1>6, <3>1, <3>3, <3>4 DEF Stays
    <2>5. ASSUME At(q, "deleteDepartment", 1)
          PROVE  db'.chat = None \/ db'.chat.dept # task[q].arg \/ task'[q].since \cap Moving # {}
      <3>1. task[r].op \in task'[q].since /\ task[q].since \subseteq task'[q].since
        BY <2>1, <2>5 DEF At, Kept
      <3>2. db.chat = None \/ db.chat.dept # task[q].arg \/ task[q].since \cap Moving # {}
        BY <2>1, <2>5 DEF DeleteAt
      <3>3. task[q].arg # None
        BY <1>0, <2>2, <2>5
      <3> QED
        BY <1>6, <3>1, <3>2, <3>3 DEF Stays, DeptLeft
    <2>6. ASSUME At(q, "deleteProject", 1)
          PROVE  db'.chat = None \/ db'.chat.project # task[q].arg \/ "updateChat" \in task'[q].since
      <3>1. task[r].op \in task'[q].since /\ task[q].since \subseteq task'[q].since
        BY <2>1, <2>6 DEF At, Kept
      <3>2. db.chat = None \/ db.chat.project # task[q].arg \/ "updateChat" \in task[q].since
        BY <2>1, <2>6 DEF DeleteAt
      <3>3. task[q].arg # None
        BY <1>0, <2>3, <2>6
      <3> QED
        BY <1>6, <3>1, <3>2, <3>3 DEF Stays, ProjectLeft
    <2>7. task'[q].op = task[q].op /\ task'[q].step = task[q].step /\ task'[q].arg = task[q].arg
      BY <2>1 DEF Kept
    <2> QED
      BY <2>4, <2>5, <2>6, <2>7 DEF DeleteAt, At
  <1>7. ASSUME NEW r \in Slot, Serves(r), ~Lost
        PROVE  DeletesSound'
    <2>1. DeleteAt(r)' /\ (Reads(r) \/ (Stays(r) /\ \E names : Sets(r, names)))
      BY <1>7, ServedStays
    <2>2. CASE Reads(r)
      BY <1>4, <2>1, <2>2 DEF Reads, Still
    <2>3. CASE Stays(r) /\ Wrote(r)
      BY <1>6, <2>1, <2>3 DEF DeletesSound
    <2> QED
      BY <2>1, <2>2, <2>3 DEF Sets
  <1> QED
    BY <1>2, <1>3, <1>5, <1>7, Steps

LEMMA EmptyStep ==
  ASSUME Shape, Asked, Shape', DeletesSound, [OfficeNext]_officeVars
  PROVE  DeletesEmpty
  <1>0. /\ \A d \in Live("dept") : db.dept[d] # None
        /\ \A p \in Live("project") : db.project[p] # None
        /\ \A d \in Live("dept")' : db'.dept[d] # None
        /\ \A p \in Live("project")' : db'.project[p] # None
    <2>1. db["dept"] = db.dept /\ db["project"] = db.project /\ db'["dept"] = db'.dept /\ db'["project"] = db'.project
      BY DEF Shape, Tables
    <2> QED
      BY <2>1 DEF Live
  <1>1. CASE db' = db
    BY <1>0, <1>1 DEF DeletesEmpty
  <1>2. ASSUME NEW r \in Slot, Wrote(r), Stays(r)
        PROVE  DeletesEmpty
    <2>1. \A o \in task[r].since : <<task[r].op, o>> \in overlaps'
      BY <1>2 DEF Wrote
    <2>2. ASSUME NEW d \in Live("dept"), d \notin Live("dept")'
          PROVE  \/ Members(d) = {} /\ (db.chat # None => db.chat.dept # d)
                 \/ \E o \in {"createUser", "updateUser", "setDepartmentMembers", "updateChat", "openChat"} :
                      <<"deleteDepartment", o>> \in overlaps'
      <3>1. At(r, "deleteDepartment", 1) /\ d = task[r].arg
        BY <1>2, <2>2 DEF Stays
      <3>2. /\ Members(d) = {} \/ task[r].since \cap Joining # {}
            /\ db.chat = None \/ db.chat.dept # d \/ task[r].since \cap Moving # {}
        BY <3>1 DEF DeletesSound, DeleteAt
      <3>3. \A o \in task[r].since : <<"deleteDepartment", o>> \in overlaps'
        BY <2>1, <3>1 DEF At
      <3> QED
        BY <3>2, <3>3 DEF Joining, Moving
    <2>3. ASSUME NEW p \in Live("project"), p \notin Live("project")'
          PROVE  (db.chat # None => db.chat.project # p) \/ <<"deleteProject", "updateChat">> \in overlaps'
      <3>1. At(r, "deleteProject", 1) /\ p = task[r].arg
        BY <1>2, <2>3 DEF Stays
      <3>2. db.chat = None \/ db.chat.project # p \/ "updateChat" \in task[r].since
        BY <3>1 DEF DeletesSound, DeleteAt
      <3> QED
        BY <2>1, <3>1, <3>2 DEF At
    <2> QED
      BY <1>0, <2>2, <2>3 DEF DeletesEmpty
  <1>3. CASE UNCHANGED officeVars
    BY <1>1, <1>3 DEF officeVars
  <1>4. CASE Lost
    BY <1>1, <1>4 DEF Lost, Still
  <1>5. ASSUME NEW r \in Slot, LooksSoundly(r)
        PROVE  DeletesEmpty
    BY <1>1, <1>5 DEF LooksSoundly, Looked, Still
  <1>6. ASSUME NEW r \in Slot, Serves(r), ~Lost
        PROVE  DeletesEmpty
    <2>1. Reads(r) \/ (Stays(r) /\ \E names : Sets(r, names))
      BY <1>6, ServedStays
    <2>2. CASE Reads(r)
      BY <1>1, <2>2 DEF Reads, Still
    <2> QED
      BY <1>2, <2>1, <2>2 DEF Sets
  <1> QED
    BY <1>3, <1>4, <1>5, <1>6, Steps
-----------------------------------------------------------------------------
(***************************************************************************)
(* Conversions.                                                            *)
(***************************************************************************)
Known(t) == Live(t) \cup gone[t]

LEMMA KnownGrows ==
  ASSUME Shape, Shape', NEW r \in Slot, Wrote(r), NEW t \in Numbered
  PROVE  Known(t) \subseteq Known(t)' /\ gone[t] \subseteq gone'[t]
  <1>1. DOMAIN db'[t] = DOMAIN db[t]
    <2>1. /\ db["stage"] = db.stage /\ db["lead"] = db.lead /\ db["deal"] = db.deal
          /\ db'["stage"] = db'.stage /\ db'["lead"] = db'.lead /\ db'["deal"] = db'.deal
          /\ DOMAIN db.stage = Stage /\ DOMAIN db'.stage = Stage
          /\ DOMAIN db.lead = Lead /\ DOMAIN db'.lead = Lead
          /\ DOMAIN db.deal = Deal /\ DOMAIN db'.deal = Deal
      BY DEF Shape, Tables
    <2>2. t \in {"stage", "lead", "deal"}
      BY DEF Numbered
    <2> QED
      BY <2>1, <2>2
  <1>2. gone'[t] = gone[t] \cup {x \in Live(t) : db'[t][x] = None}
    BY DEF Wrote
  <1> QED
    BY <1>1, <1>2 DEF Known, Live

\* The prospects and deals are those that were there, as far as conversions read them.
Neutral(r) ==
  /\ Others(r) /\ torn' = torn /\ overlaps \subseteq overlaps'
  /\ \A t \in Numbered : gone[t] \subseteq gone'[t]
  /\ LeadsStay /\ Live("deal")' = Live("deal")
  /\ \A k \in Live("deal") : db'.deal[k].from = db.deal[k].from

NotMarking(r) == At(r, "convert", 2) => task[r].arg \notin Live("lead") \/ task[r].seen \notin Live("deal")

LEMMA ConvertKept ==
  ASSUME Asked, ConversionSound, NEW q \in Slot, Kept(q), overlaps \subseteq overlaps', torn' = torn,
         Known("lead") \subseteq Known("lead")', Known("deal") \subseteq Known("deal")',
         \A k \in Live("deal")' \cap Known("deal") : k \in Live("deal") /\ db'.deal[k].from = db.deal[k].from,
         \A l \in Live("lead")' \cap Known("lead") : l \in Live("lead"),
         \/ \A k \in Live("deal")' \ Live("deal") : db'.deal[k].from = None
         \/ task[q].step = 0 \/ "convert" \in task'[q].since
  PROVE  ConvertAt(q)'
  <1>1. ConvertAt(q) /\ \A k \in Live("deal") : k \in Known("deal")
    BY DEF ConversionSound, Known
  <1>2. At(q, "convert", 1) => task[q].arg \in Lead
    BY DEF Asked, AskedAt, AskedCrm
  <1>3. None \notin Lead
    BY TablesAssumption
  <1>4. ASSUME At(q, "convert", 1)
        PROVE  /\ task[q].arg \in Known("lead")'
               /\ \/ Overlapped("convert", "convert")' \/ "convert" \in task'[q].since
                  \/ task[q].arg \notin Live("lead")' \ torn'
                  \/ \A k \in Live("deal")' : db'.deal[k].from # task[q].arg
    <2>1. /\ task[q].arg \in Known("lead") /\ task[q].step # 0 /\ task[q].since \subseteq task'[q].since
          /\ \/ Overlapped("convert", "convert") \/ "convert" \in task[q].since
             \/ task[q].arg \notin Live("lead") \ torn
             \/ \A k \in Live("deal") : db.deal[k].from # task[q].arg
      BY <1>1, <1>4 DEF ConvertAt, Known, At, Kept
    <2>2. Overlapped("convert", "convert") => Overlapped("convert", "convert")'
      BY DEF Overlapped
    <2>3. task[q].arg \notin Live("lead") \ torn => task[q].arg \notin Live("lead")' \ torn'
      BY <2>1
    <2>4. ASSUME \A k \in Live("deal") : db.deal[k].from # task[q].arg, "convert" \notin task'[q].since,
                 NEW k \in Live("deal")'
          PROVE  db'.deal[k].from # task[q].arg
      BY <1>1, <1>2, <1>3, <1>4, <2>1, <2>4
    <2> QED
      BY <2>1, <2>2, <2>3, <2>4
  <1>5. ASSUME At(q, "convert", 2)
        PROVE  /\ task[q].seen \in Known("deal")'
               /\ task[q].seen \in Live("deal")' => db'.deal[task[q].seen].from = task[q].arg
    BY <1>1, <1>5 DEF ConvertAt, Known
  <1>6. task'[q].op = task[q].op /\ task'[q].step = task[q].step /\ task'[q].arg = task[q].arg /\ task'[q].seen = task[q].seen
    BY DEF Kept
  <1> QED
    BY <1>4, <1>5, <1>6 DEF ConvertAt, At, Known

\* Who was about to mark a prospect still is, unless it was r.
LEMMA MarkingStays ==
  ASSUME NEW r \in Slot, Others(r), NEW l, NEW k, Marking(l, k), ~(At(r, "convert", 2) /\ task[r].arg = l /\ task[r].seen = k)
  PROVE  Marking(l, k)'
  <1>1. PICK q \in Slot : At(q, "convert", 2) /\ task[q].arg = l /\ task[q].seen = k
    BY DEF Marking
  <1>2. q # r /\ Kept(q)
    BY <1>1 DEF Others
  <1> QED
    BY <1>1, <1>2 DEF Marking, At, Kept

LEMMA ConversionNeutral ==
  ASSUME Asked, ConversionSound, NEW r \in Slot, Neutral(r), NotMarking(r), ConvertAt(r)'
  PROVE  ConversionSound'
  <1>1. /\ Live("lead")' = Live("lead") /\ Live("deal")' = Live("deal") /\ torn' = torn /\ overlaps \subseteq overlaps'
        /\ \A l \in Live("lead") : db'.lead[l].deal = db.lead[l].deal
        /\ \A k \in Live("deal") : db'.deal[k].from = db.deal[k].from
        /\ gone["lead"] \subseteq gone'["lead"] /\ gone["deal"] \subseteq gone'["deal"] /\ Others(r)
    BY DEF Neutral, LeadsStay, Numbered
  <1>2. FromLeads'
    BY <1>1 DEF ConversionSound, FromLeads
  <1>3. MarkedBack'
    BY <1>1 DEF ConversionSound, MarkedBack
  <1>4. OneDeal'
    <2>1. ASSUME ~Overlapped("convert", "convert")', NEW k \in Live("deal"), NEW l \in Live("lead") \ torn, db.deal[k].from = l
          PROVE  /\ db'.lead[l].deal = k \/ Marking(l, k)'
                 /\ \A j \in Live("deal") : db'.deal[j].from = l => j = k
      <3>1. ~Overlapped("convert", "convert")
        BY <1>1, <2>1 DEF Overlapped
      <3>2. (db.lead[l].deal = k \/ Marking(l, k)) /\ \A j \in Live("deal") : db.deal[j].from = l => j = k
        BY <2>1, <3>1 DEF ConversionSound, OneDeal
      <3>3. ~(At(r, "convert", 2) /\ task[r].arg = l /\ task[r].seen = k)
        BY <2>1 DEF NotMarking
      <3> QED
        BY <1>1, <3>2, <3>3, MarkingStays
    <2> QED
      BY <1>1, <2>1 DEF OneDeal
  <1>5. ASSUME NEW q \in Slot, q # r PROVE ConvertAt(q)'
    <2>1. Kept(q)
      BY <1>1, <1>5 DEF Others
    <2>2. Known("lead") \subseteq Known("lead")' /\ Known("deal") \subseteq Known("deal")'
      BY <1>1 DEF Known
    <2> QED
      BY <1>1, <2>1, <2>2, ConvertKept
  <1> QED
    BY <1>2, <1>3, <1>4, <1>5 DEF ConversionSound
\* A conversion reads a prospect without a deal: if it has one by now, the other
\* conversion is half-way.
LEMMA ConvertNow ==
  ASSUME Shape, Asked, ConversionSound, NEW r \in Slot, NEW op, NEW arg, NEW seen,
         Looked(r, op, arg, seen), Grounds(op, arg, seen)
  PROVE  ConvertAt(r)'
  <1>1. /\ task'[r].op = op /\ task'[r].step = 1 /\ task'[r].arg = arg /\ db' = db /\ gone' = gone
        /\ overlaps' = overlaps /\ torn' = torn
        /\ \A q \in Slot : task[q].step = 2 => task[q].op \in task'[r].since
    BY DEF Looked, Still
  <1>2. \A t : Live(t)' = Live(t)
    BY <1>1 DEF Live
  <1>3. ASSUME op = "convert", arg \notin torn, ~Overlapped("convert", "convert"), NEW k \in Live("deal"), db.deal[k].from = arg
        PROVE  "convert" \in task'[r].since
    <2>1. arg \in Live("lead") /\ db.lead[arg].deal = None
      BY <1>3 DEF Grounds, CrmGrounds
    <2>2. k # None
      BY <1>3, RowsAreRows, TablesAssumption
    <2>3. Marking(arg, k)
      BY <1>3, <2>1, <2>2 DEF ConversionSound, OneDeal
    <2> QED
      BY <1>1, <2>3 DEF Marking, At
  <1>4. op = "convert" => arg \in Live("lead")
    BY DEF Grounds, CrmGrounds
  <1>5. Overlapped("convert", "convert")' = Overlapped("convert", "convert")
    BY <1>1 DEF Overlapped
  <1> QED
    BY <1>1, <1>2, <1>3, <1>4, <1>5 DEF ConvertAt, At

LEMMA NewIsNew ==
  ASSUME NEW t, NEW x, Fresh(t, x)
  PROVE  x \notin Known(t)
  BY DEF Fresh, Known

\* A deal comes: of no prospect, or of the one its request converts.
LEMMA DealComes ==
  ASSUME Shape, Asked, Shape', ConversionSound, NEW r \in Slot, NEW k, DealAppears(r, k),
         \/ task[r].seen.from = None
         \/ At(r, "convert", 1) /\ task[r].seen.from = task[r].arg /\ Onward(r, 2, k),
         NotMarking(r), ConvertAt(r)'
  PROVE  ConversionSound'
  <1> DEFINE from == task[r].seen.from
  <1>1. /\ Wrote(r) /\ db'["lead"] = db["lead"] /\ Live("deal")' = Live("deal") \cup {k}
        /\ db'.deal[k].from = from /\ \A j \in Live("deal") : db'.deal[j] = db.deal[j]
    BY DEF DealAppears, Sets, Only, Table
  <1>2. db'.lead = db.lead /\ Live("lead")' = Live("lead")
    <2>1. db'.lead = db'["lead"] /\ db.lead = db["lead"]
      BY DEF Shape, Tables
    <2> QED
      BY <1>1, <2>1 DEF Live
  <1>3. k \notin Known("deal")
    BY NewIsNew DEF DealAppears
  <1>4. Others(r) /\ Missed(r) /\ torn' = torn /\ overlaps' = overlaps \cup {<<task[r].op, o>> : o \in task[r].since}
    BY <1>1 DEF Wrote
  <1>5. Known("lead") \subseteq Known("lead")' /\ Known("deal") \subseteq Known("deal")'
    BY <1>1, KnownGrows DEF Numbered
  <1>6. from = None \/ (from \in Known("lead") /\ At(r, "convert", 1) /\ from = task[r].arg)
    BY DEF ConversionSound, ConvertAt, Known
  <1>7. FromLeads'
    <2>1. \A j \in Live("deal")' : db'.deal[j].from # None => db'.deal[j].from \in Known("lead")
      BY <1>1, <1>6 DEF ConversionSound, FromLeads, Known
    <2> QED
      BY <1>5, <2>1 DEF FromLeads, Known
  <1>8. MarkedBack'
    BY <1>1, <1>2 DEF ConversionSound, MarkedBack
  <1>9. OneDeal'
    <2>1. ASSUME ~Overlapped("convert", "convert")', NEW j \in Live("deal")', NEW l \in Live("lead") \ torn, db'.deal[j].from = l
          PROVE  /\ db'.lead[l].deal = j \/ Marking(l, j)'
                 /\ \A i \in Live("deal")' : db'.deal[i].from = l => i = j
      <3>1. ~Overlapped("convert", "convert")
        BY <1>4, <2>1 DEF Overlapped
      <3>2. l # None
        BY RowsAreRows, TablesAssumption
      <3>3. CASE from = l
        <4>1. At(r, "convert", 1) /\ l = task[r].arg /\ Onward(r, 2, k)
          BY <3>2, <3>3
        <4>2. "convert" \notin task[r].since
          BY <1>4, <2>1, <4>1 DEF At, Overlapped
        <4>3. \A i \in Live("deal") : db.deal[i].from # l
          BY <3>1, <4>1, <4>2 DEF ConversionSound, ConvertAt
        <4>4. \A i \in Live("deal")' : db'.deal[i].from = l => i = k
          BY <1>1, <4>3
        <4>5. Marking(l, k)'
          BY <4>1 DEF Marking, At, Onward
        <4> QED
          BY <2>1, <4>4, <4>5
      <3>4. CASE from # l
        <4>1. j \in Live("deal") /\ db.deal[j].from = l
          BY <1>1, <2>1, <3>4
        <4>2. (db.lead[l].deal = j \/ Marking(l, j)) /\ \A i \in Live("deal") : db.deal[i].from = l => i = j
          BY <3>1, <4>1 DEF ConversionSound, OneDeal
        <4>3. ~(At(r, "convert", 2) /\ task[r].arg = l /\ task[r].seen = j)
          BY <4>1 DEF NotMarking
        <4>4. Marking(l, j) => Marking(l, j)'
          BY <1>4, <4>3, MarkingStays
        <4> QED
          BY <1>1, <1>2, <3>4, <4>2, <4>4
      <3> QED
        BY <3>3, <3>4
    <2> QED
      BY <1>2, <1>4, <2>1 DEF OneDeal
  <1>10. ASSUME NEW q \in Slot, q # r PROVE ConvertAt(q)'
    <2>1. Kept(q) /\ (task[q].step = 0 \/ task[r].op \in task'[q].since)
      BY <1>4, <1>10 DEF Others, Missed
    <2>2. \A j \in Live("deal")' \cap Known("deal") : j \in Live("deal") /\ db'.deal[j].from = db.deal[j].from
      BY <1>1, <1>3
    <2>3. \A l \in Live("lead")' \cap Known("lead") : l \in Live("lead")
      BY <1>2
    <2>4. \/ \A j \in Live("deal")' \ Live("deal") : db'.deal[j].from = None
          \/ task[q].step = 0 \/ "convert" \in task'[q].since
      BY <1>1, <1>6, <2>1 DEF At
    <2>5. overlaps \subseteq overlaps'
      BY <1>4
    <2> HIDE DEF from
    <2> QED
      BY <1>4, <1>5, <2>1, <2>2, <2>3, <2>4, <2>5, ConvertKept
  <1> QED
    BY <1>7, <1>8, <1>9, <1>10 DEF ConversionSound

\* A prospect comes: no deal is of it.
LEMMA LeadComes ==
  ASSUME Shape, Asked, Shape', ConversionSound, NEW r \in Slot, LeadAppears(r), NotMarking(r)
  PROVE  ConversionSound'
  <1> DEFINE x == task[r].arg
  <1>1. /\ Done(r) /\ Wrote(r) /\ db'["deal"] = db["deal"] /\ Live("lead")' = Live("lead") \cup {x}
        /\ db'.lead[x].deal = None /\ \A l \in Live("lead") : db'.lead[l] = db.lead[l]
    BY DEF LeadAppears, Ended, Sets, Only, Table
  <1>2. db'.deal = db.deal /\ Live("deal")' = Live("deal")
    <2>1. db'.deal = db'["deal"] /\ db.deal = db["deal"]
      BY DEF Shape, Tables
    <2> QED
      BY <1>1, <2>1 DEF Live
  <1>3. x \notin Known("lead")
    BY NewIsNew DEF LeadAppears
  <1>4. Others(r) /\ torn' = torn /\ overlaps \subseteq overlaps'
    BY <1>1 DEF Wrote
  <1>5. Known("lead") \subseteq Known("lead")' /\ Known("deal") \subseteq Known("deal")'
    BY <1>1, KnownGrows DEF Numbered
  <1>6. \A j \in Live("deal") : db.deal[j].from # None => db.deal[j].from \in Known("lead")
    BY DEF ConversionSound, FromLeads, Known
  <1>7. FromLeads'
    BY <1>2, <1>5, <1>6 DEF FromLeads, Known
  <1>8. MarkedBack'
    BY <1>1, <1>2 DEF ConversionSound, MarkedBack
  <1>9. OneDeal'
    <2>1. ASSUME ~Overlapped("convert", "convert")', NEW j \in Live("deal"), NEW l \in Live("lead")' \ torn, db.deal[j].from = l
          PROVE  /\ db'.lead[l].deal = j \/ Marking(l, j)'
                 /\ \A i \in Live("deal") : db.deal[i].from = l => i = j
      <3>1. ~Overlapped("convert", "convert")
        BY <1>4, <2>1 DEF Overlapped
      <3>2. l # None
        <4>1. \A y \in Live("lead")' : y \in Lead
          BY DEF Shape, Tables, Live
        <4> QED
          BY <4>1, TablesAssumption
      <3>3. l # x /\ l \in Live("lead")
        BY <1>1, <1>3, <1>6, <2>1, <3>2
      <3>4. (db.lead[l].deal = j \/ Marking(l, j)) /\ \A i \in Live("deal") : db.deal[i].from = l => i = j
        BY <2>1, <3>1, <3>3 DEF ConversionSound, OneDeal
      <3>5. ~(At(r, "convert", 2) /\ task[r].arg = l /\ task[r].seen = j)
        BY <3>3 DEF NotMarking
      <3>6. Marking(l, j) => Marking(l, j)'
        BY <1>4, <3>5, MarkingStays
      <3> QED
        BY <1>1, <3>3, <3>4, <3>6
    <2> QED
      BY <1>2, <1>4, <2>1 DEF OneDeal
  <1>10. ASSUME NEW q \in Slot, q # r PROVE ConvertAt(q)'
    <2>1. Kept(q)
      BY <1>4, <1>10 DEF Others
    <2>2. \A l \in Live("lead")' \cap Known("lead") : l \in Live("lead")
      BY <1>1, <1>3
    <2>3. \A k \in Live("deal")' \cap Known("deal") : k \in Live("deal") /\ db'.deal[k].from = db.deal[k].from
      BY <1>2
    <2>4. \A k \in Live("deal")' \ Live("deal") : db'.deal[k].from = None
      BY <1>2
    <2> QED
      BY <1>4, <1>5, <2>1, <2>2, <2>3, <2>4, ConvertKept
  <1>11. ConvertAt(r)'
    BY <1>1, DoneFits
  <1> QED
    BY <1>7, <1>8, <1>9, <1>10, <1>11 DEF ConversionSound
\* A prospect or a deal goes, or a prospect gets the deal made of it.
LEMMA RowGoes ==
  ASSUME Shape, Asked, Shape', ConversionSound, NEW r \in Slot, Done(r), Wrote(r), NotMarking(r),
         \A l \in Live("lead")' : l \in Live("lead"),
         \A k \in Live("deal")' : k \in Live("deal") /\ db'.deal[k].from = db.deal[k].from,
         \A l \in Live("lead")' : db'.lead[l].deal =
            IF db.lead[l].deal = None \/ db.lead[l].deal \in Live("deal")' THEN db.lead[l].deal ELSE None
  PROVE  ConversionSound'
  <1>1. Others(r) /\ torn' = torn /\ overlaps \subseteq overlaps'
    BY DEF Wrote
  <1>2. Known("lead") \subseteq Known("lead")' /\ Known("deal") \subseteq Known("deal")'
    BY KnownGrows DEF Numbered
  <1>3. FromLeads'
    BY <1>2 DEF ConversionSound, FromLeads, Known
  <1>4. MarkedBack'
    BY DEF ConversionSound, MarkedBack
  <1>5. OneDeal'
    <2>1. ASSUME ~Overlapped("convert", "convert")', NEW k \in Live("deal")', NEW l \in Live("lead")' \ torn, db'.deal[k].from = l
          PROVE  /\ db'.lead[l].deal = k \/ Marking(l, k)'
                 /\ \A i \in Live("deal")' : db'.deal[i].from = l => i = k
      <3>1. ~Overlapped("convert", "convert")
        BY <1>1, <2>1 DEF Overlapped
      <3>2. (db.lead[l].deal = k \/ Marking(l, k)) /\ \A i \in Live("deal") : db.deal[i].from = l => i = k
        BY <2>1, <3>1 DEF ConversionSound, OneDeal
      <3>3. ~(At(r, "convert", 2) /\ task[r].arg = l /\ task[r].seen = k)
        BY <2>1 DEF NotMarking
      <3>4. Marking(l, k) => Marking(l, k)'
        BY <1>1, <3>3, MarkingStays
      <3> QED
        BY <2>1, <3>2, <3>4
    <2> QED
      BY <1>1, <2>1 DEF OneDeal
  <1>6. ASSUME NEW q \in Slot, q # r PROVE ConvertAt(q)'
    <2>1. Kept(q)
      BY <1>1, <1>6 DEF Others
    <2>2. \A k \in Live("deal")' \ Live("deal") : db'.deal[k].from = None
      OBVIOUS
    <2> QED
      BY <1>1, <1>2, <2>1, <2>2, ConvertKept
  <1>7. ConvertAt(r)'
    BY DoneFits
  <1> QED
    BY <1>3, <1>4, <1>5, <1>6, <1>7 DEF ConversionSound

LEMMA Marked ==
  ASSUME Shape, Asked, Shape', ConversionSound, NEW r \in Slot, MarkConverted(r),
         task[r].arg \in Live("lead"), task[r].seen \in Live("deal")
  PROVE  ConversionSound'
  <1> DEFINE x == task[r].arg
             y == task[r].seen
  <1>1. /\ Done(r) /\ Wrote(r) /\ db'["deal"] = db["deal"] /\ Live("lead")' = Live("lead")
        /\ x \in Live("lead") /\ y \in Live("deal") /\ db'.lead[x].deal = y
        /\ \A l \in Live("lead") : l # x => db'.lead[l] = db.lead[l]
    BY MarkDoes DEF Ended, Sets, Only, Table
  <1>2. db'.deal = db.deal /\ Live("deal")' = Live("deal")
    <2>1. db'.deal = db'["deal"] /\ db.deal = db["deal"]
      BY DEF Shape, Tables
    <2> QED
      BY <1>1, <2>1 DEF Live
  <1>3. db.deal[y].from = x /\ At(r, "convert", 2)
    BY <1>1 DEF ConversionSound, ConvertAt, MarkConverted
  <1>4. Others(r) /\ torn' = torn /\ overlaps \subseteq overlaps'
    BY <1>1 DEF Wrote
  <1>5. Known("lead") \subseteq Known("lead")' /\ Known("deal") \subseteq Known("deal")'
    BY <1>1, KnownGrows DEF Numbered
  <1>6. FromLeads'
    BY <1>2, <1>5 DEF ConversionSound, FromLeads, Known
  <1>7. MarkedBack'
    BY <1>1, <1>2, <1>3 DEF ConversionSound, MarkedBack
  <1>8. OneDeal'
    <2>1. ASSUME ~Overlapped("convert", "convert")', NEW k \in Live("deal"), NEW l \in Live("lead") \ torn, db.deal[k].from = l
          PROVE  /\ db'.lead[l].deal = k \/ Marking(l, k)'
                 /\ \A i \in Live("deal") : db.deal[i].from = l => i = k
      <3>1. ~Overlapped("convert", "convert")
        BY <1>4, <2>1 DEF Overlapped
      <3>2. (db.lead[l].deal = k \/ Marking(l, k)) /\ \A i \in Live("deal") : db.deal[i].from = l => i = k
        BY <2>1, <3>1 DEF ConversionSound, OneDeal
      <3>3. CASE l = x
        BY <1>1, <1>3, <3>2, <3>3
      <3>4. CASE l # x
        <4>1. Marking(l, k) => Marking(l, k)'
          BY <1>4, <3>4, MarkingStays
        <4> QED
          BY <1>1, <3>2, <3>4, <4>1
      <3> QED
        BY <3>3, <3>4
    <2> QED
      BY <1>1, <1>2, <1>4, <2>1 DEF OneDeal
  <1>9. ASSUME NEW q \in Slot, q # r PROVE ConvertAt(q)'
    <2>1. Kept(q)
      BY <1>4, <1>9 DEF Others
    <2>2. \A k \in Live("deal")' \ Live("deal") : db'.deal[k].from = None
      BY <1>2
    <2>3. \A k \in Live("deal")' \cap Known("deal") : k \in Live("deal") /\ db'.deal[k].from = db.deal[k].from
      BY <1>2
    <2>4. \A l \in Live("lead")' \cap Known("lead") : l \in Live("lead")
      BY <1>1
    <2> QED
      BY <1>4, <1>5, <2>1, <2>2, <2>3, <2>4, ConvertKept
  <1>10. ConvertAt(r)'
    BY <1>1, DoneFits
  <1> QED
    BY <1>6, <1>7, <1>8, <1>9, <1>10 DEF ConversionSound

\* A conversion cut between its two writes leaves its prospect torn.
LEMMA ConversionLost ==
  ASSUME ConversionSound, Lost
  PROVE  ConversionSound'
  <1>1. /\ db' = db /\ gone' = gone /\ overlaps' = overlaps /\ \A q \in Slot : Done(q)
        /\ torn' = torn \cup {task[r].arg : r \in {x \in Slot : At(x, "convert", 2)}}
    BY DEF Lost, Still
  <1>2. \A t : Live(t)' = Live(t)
    BY <1>1 DEF Live
  <1>3. \A r \in Slot : ConvertAt(r)'
    BY <1>1, DoneFits
  <1>4. \A l, k : l \notin torn' => ~Marking(l, k)
    BY <1>1 DEF Marking
  <1>5. OneDeal'
    BY <1>1, <1>2, <1>4 DEF ConversionSound, OneDeal, Overlapped
  <1>6. FromLeads' /\ MarkedBack'
    BY <1>1, <1>2 DEF ConversionSound, FromLeads, MarkedBack
  <1> QED
    BY <1>3, <1>5, <1>6 DEF ConversionSound
LEMMA OpOfTeam ==
  ASSUME NEW r \in Slot, TeamWrites(r)
  PROVE  task[r].op \notin Elsewhere
  <1>1. ASSUME NEW op, NEW n, At(r, op, n), op \notin Elsewhere PROVE task[r].op \notin Elsewhere
    BY <1>1 DEF At
  <1>2. ASSUME NEW t \in Markable, ClearDefaults(r, t) \/ CommitDefault(r, t) PROVE task[r].op \notin Elsewhere
    BY <1>2 DEF ClearDefaults, CommitDefault, At, DefaultOp, Markable, Elsewhere
  <1>3. CASE WriteClearDefaultAgent(r) \/ WriteUser(r) \/ WriteUserUpdate(r) \/ WriteMembers(r)
    BY <1>3 DEF WriteClearDefaultAgent, WriteUser, WriteUserUpdate, WriteMembers, At, Elsewhere
  <1>4. CASE WriteDepartment(r) \/ WriteDepartmentUpdate(r) \/ WriteDepartmentDelete(r)
    BY <1>4 DEF WriteDepartment, WriteDepartmentUpdate, WriteDepartmentDelete, At, Elsewhere
  <1>5. CASE WriteProject(r) \/ WriteProjectDelete(r) \/ WriteStage(r) \/ WriteStageUpdate(r) \/ WriteStageDelete(r)
    BY <1>5 DEF WriteProject, WriteProjectDelete, WriteStage, WriteStageUpdate, WriteStageDelete, At, Elsewhere
  <1> QED
    BY <1>2, <1>3, <1>4, <1>5, Zenon DEF TeamWrites, Markable

LEMMA NeutralReads ==
  ASSUME NEW r \in Slot, Reads(r)
  PROVE  Neutral(r)
  BY DEF Reads, Still, Neutral, LeadsStay, Live

LEMMA NeutralWrites ==
  ASSUME Shape, Shape', NEW r \in Slot, NEW names, Sets(r, names),
         "lead" \in names => LeadsStay,
         "deal" \in names => /\ Live("deal")' = Live("deal")
                             /\ \A k \in Live("deal") : db'.deal[k].from = db.deal[k].from
  PROVE  Neutral(r)
  <1>1. \A t \in {"lead", "deal"} : t \notin names => db'[t] = db[t] /\ Live(t)' = Live(t)
    BY RowsStay DEF Sets, Only, Table
  <1>2. db["lead"] = db.lead /\ db'["lead"] = db'.lead /\ db["deal"] = db.deal /\ db'["deal"] = db'.deal
    BY DEF Shape, Tables
  <1>3. LeadsStay
    BY <1>1, <1>2 DEF LeadsStay
  <1>4. Live("deal")' = Live("deal") /\ \A k \in Live("deal") : db'.deal[k].from = db.deal[k].from
    BY <1>1, <1>2
  <1>5. Others(r) /\ torn' = torn /\ overlaps \subseteq overlaps' /\ \A t \in Numbered : gone[t] \subseteq gone'[t]
    BY DEF Sets, Wrote
  <1> QED
    BY <1>3, <1>4, <1>5 DEF Neutral

LEMMA TeamNeutral ==
  ASSUME Shape, Asked, Shape', NEW r \in Slot, TeamWrites(r)
  PROVE  Neutral(r) /\ ConvertAt(r)'
  <1>1. CASE Refused(r)
    BY <1>1, RefusedDoes, DoneFits, NeutralReads DEF Reads
  <1>2. ASSUME NEW c \in Markable, ClearDefaults(r, c)
        PROVE  Neutral(r) /\ ConvertAt(r)'
    <2>1. Reads(r) /\ Onward(r, 2, Defaults(c)) /\ task[r].op = DefaultOp[c]
      BY <1>2, GoesDoes DEF ClearDefaults, Reads, At
    <2>2. task'[r].op # "convert"
      BY <2>1 DEF Onward, DefaultOp, Markable
    <2> QED
      BY <2>1, <2>2, NeutralReads DEF ConvertAt, At
  <1>3. ASSUME NEW names, Ended(r, names), "deal" \notin names, "lead" \in names => LeadsStay
        PROVE  Neutral(r) /\ ConvertAt(r)'
    BY <1>3, DoneFits, NeutralWrites DEF Ended
  <1>4. ASSUME ~Refused(r), ~\E c \in Markable : ClearDefaults(r, c), ~WriteDepartmentDelete(r)
        PROVE  \E names \in SUBSET {"user", "dept", "project", "stage", "chat"} : Ended(r, names)
    BY <1>4, CommitDefaultDoes, WriteClearDefaultAgentDoes, WriteUserDoes, WriteUserUpdateDoes, WriteDepartmentDoes,
       WriteDepartmentUpdateDoes, WriteMembersDoes, WriteProjectDoes, WriteProjectDeleteDoes,
       WriteStageDoes, WriteStageUpdateDoes, WriteStageDeleteDoes DEF TeamWrites, Markable
  <1>5. CASE ~Refused(r) /\ WriteDepartmentDelete(r)
    <2>1. Ended(r, {"user", "dept", "stage", "chat", "lead"}) /\ LeadsStay
      BY <1>5, WriteDepartmentDeleteDoes DEF LeadsStay
    <2> QED
      BY <1>3, <2>1
  <1> QED
    BY <1>1, <1>2, <1>3, <1>4, <1>5

LEMMA CrmConverts ==
  ASSUME Shape, Asked, Shape', ConversionSound, NEW r \in Slot, CrmWrites(r), ~Lost
  PROVE  ConversionSound'
  <1>1. ASSUME Neutral(r), ConvertAt(r)', task[r].op # "convert" PROVE ConversionSound'
    BY <1>1, ConversionNeutral DEF NotMarking, At
  <1>2. ASSUME Over(r), task[r].op # "convert" PROVE ConvertAt(r)'
    BY <1>2, DoneFits DEF Over, ConvertAt, At
  <1>3. ~Dies(r)
    BY LostDoes DEF Dies
  <1>17. CASE MarkConverted(r) /\ task[r].arg \in Live("lead") /\ task[r].seen \in Live("deal")
    BY <1>17, Marked
  <1>4. ASSUME Refused(r), ~(MarkConverted(r) /\ task[r].arg \in Live("lead") /\ task[r].seen \in Live("deal"))
        PROVE  ConversionSound'
    <2>1. Reads(r) /\ Done(r)
      BY <1>4, RefusedDoes DEF Reads
    <2>2. NotMarking(r)
      <3>1. CASE MarkConverted(r)
        BY <1>4, <3>1 DEF NotMarking
      <3>2. CASE SyncStage(r) \/ SyncDept(r)
        BY <3>2, FollowsKnows DEF SyncStage, SyncDept, NotMarking, At, Following
      <3>3. CASE SyncStageWrites(r) \/ SyncDeptWrites(r)
        BY <3>3 DEF SyncStageWrites, SyncDeptWrites, NotMarking, At
      <3>4. CASE \E k \in Deal : CreateDealOf(r, k) \/ WriteDeal(r, k)
        BY <3>4 DEF CreateDealOf, WriteDeal, NotMarking, At
      <3>5. CASE WriteLead(r) \/ WriteLeadUpdate(r) \/ WriteLeadRemoval(r) \/ MoveDeal(r) \/ MoveChatToo(r) \/ WriteDealRemoval(r)
        BY <3>5 DEF WriteLead, WriteLeadUpdate, WriteLeadRemoval, MoveDeal, MoveChatToo, WriteDealRemoval, NotMarking, At
      <3> QED
        BY <3>1, <3>2, <3>3, <3>4, <3>5, Zenon DEF CrmWrites
    <2> QED
      BY <2>1, <2>2, NeutralReads, DoneFits, ConversionNeutral
  <1>5. CASE ~Refused(r) /\ WriteLead(r)
    <2>1. NotMarking(r)
      BY <1>5 DEF WriteLead, NotMarking, At
    <2> QED
      BY <1>5, <2>1, WriteLeadDoes, LeadComes
  <1>6. CASE ~Refused(r) /\ WriteLeadUpdate(r)
    <2>1. Ended(r, {"lead"}) /\ LeadsStay /\ task[r].op # "convert"
      BY <1>6, WriteLeadUpdateDoes DEF WriteLeadUpdate, At
    <2> QED
      BY <1>1, <2>1, NeutralWrites, DoneFits DEF Ended
  <1>7. CASE ~Refused(r) /\ WriteLeadRemoval(r)
    <2>1. /\ Done(r) /\ Wrote(r) /\ db'["deal"] = db["deal"] /\ Live("lead")' = Live("lead") \ {task[r].arg}
          /\ \A l \in Live("lead")' : db'.lead[l] = db.lead[l]
      BY <1>7, WriteLeadRemovalDoes DEF Ended, Sets, Only, Table
    <2>2. db'.deal = db.deal /\ Live("deal")' = Live("deal")
      <3>1. db'.deal = db'["deal"] /\ db.deal = db["deal"]
        BY DEF Shape, Tables
      <3> QED
        BY <2>1, <3>1, RowsStay
    <2>3. NotMarking(r)
      BY <1>7 DEF WriteLeadRemoval, NotMarking, At
    <2>4. \A l \in Live("lead")' : db'.lead[l].deal =
            IF db.lead[l].deal = None \/ db.lead[l].deal \in Live("deal")' THEN db.lead[l].deal ELSE None
      BY <2>1, <2>2 DEF ConversionSound, MarkedBack
    <2> QED
      BY <2>1, <2>2, <2>3, <2>4, RowGoes
  <1>8. CASE ~Refused(r) /\ MarkConverted(r)
    BY <1>8, <1>17 DEF MarkConverted, EndsIf
  <1>9. ASSUME ~Refused(r), NEW k \in Deal, CreateDealOf(r, k)
        PROVE  ConversionSound'
    <2>1. DealAppears(r, k) /\ Onward(r, 2, k) /\ At(r, "convert", 1)
      BY <1>9, CreateDealOfDoes DEF CreateDealOf
    <2>2. task[r].seen.from = task[r].arg
      BY <2>1 DEF Asked, AskedAt, AskedCrm
    <2>3. ConvertAt(r)'
      <3>1. task'[r].step = 2 /\ task'[r].seen = k /\ task'[r].arg = task[r].arg
        BY <2>1 DEF Onward
      <3>2. k \in Live("deal")' /\ db'.deal[k].from = task[r].arg
        BY <2>1, <2>2 DEF DealAppears
      <3> QED
        BY <3>1, <3>2 DEF ConvertAt, At
    <2>4. NotMarking(r)
      BY <2>1 DEF NotMarking, At
    <2> QED
      BY <2>1, <2>2, <2>3, <2>4, DealComes
  <1>10. ASSUME ~Refused(r), NEW k \in Deal, WriteDeal(r, k)
         PROVE  ConversionSound'
    <2>1. DealAppears(r, k) /\ Done(r) /\ At(r, "createDeal", 1)
      BY <1>10, WriteDealDoes DEF WriteDeal
    <2>2. task[r].seen.from = None
      BY <2>1 DEF Asked, AskedAt, AskedCrm
    <2>3. ConvertAt(r)' /\ NotMarking(r)
      BY <2>1, DoneFits DEF NotMarking, At
    <2> QED
      BY <2>1, <2>2, <2>3, DealComes
  <1>11. CASE ~Refused(r) /\ MoveDeal(r)
    <2>1. Sets(r, {"deal"}) /\ DealMovesTo(task[r].arg.deal, task[r].arg.stage) /\ task[r].op # "convert"
      BY <1>11, MoveDealDoes DEF MoveDeal, At
    <2>2. Neutral(r)
      BY <2>1, NeutralWrites DEF DealMovesTo
    <2> QED
      BY <1>1, <1>2, <2>1, <2>2, CrmTouches
  <1>12. CASE ~Refused(r) /\ MoveChatToo(r)
    <2>1. Sets(r, {"chat"}) /\ Done(r) /\ task[r].op # "convert"
      BY <1>12, MoveChatTooDoes DEF MoveChatToo, At
    <2> QED
      BY <1>1, <2>1, NeutralWrites, DoneFits
  <1>13. CASE ~Refused(r) /\ WriteDealRemoval(r)
    <2>1. /\ Done(r) /\ Wrote(r) /\ Live("deal")' = Live("deal") \ {task[r].arg}
          /\ \A k \in Live("deal")' : db'.deal[k] = db.deal[k]
          /\ Live("lead")' = Live("lead")
          /\ \A l \in Live("lead") : db'.lead[l].deal = IF db.lead[l].deal = task[r].arg THEN None ELSE db.lead[l].deal
      BY <1>13, WriteDealRemovalDoes DEF Ended, Sets
    <2>2. NotMarking(r)
      BY <1>13 DEF WriteDealRemoval, NotMarking, At
    <2>3. \A l \in Live("lead")' : db'.lead[l].deal =
            IF db.lead[l].deal = None \/ db.lead[l].deal \in Live("deal")' THEN db.lead[l].deal ELSE None
      BY <2>1 DEF ConversionSound, MarkedBack
    <2> QED
      BY <2>1, <2>2, <2>3, RowGoes
  <1>14. CASE ~Refused(r) /\ (SyncStage(r) \/ SyncDept(r))
    <2>1. task[r].op \in Following /\ \E n \in {2, 3, 4}, seen \in FollowUps : Goes(r, n, seen)
      BY <1>14, SyncStageDoes, SyncDeptDoes
    <2>2. Reads(r)
      BY <2>1, GoesDoes DEF Reads
    <2>3. task[r].op # "convert"
      BY <2>1 DEF Following
    <2> QED
      BY <1>1, <1>2, <2>2, <2>3, NeutralReads, CrmTouches
  <1>15. CASE SyncStageWrites(r)
    <2>1. Sets(r, {"deal"}) /\ DealMovesTo(task[r].seen.found, task[r].seen.stage) /\ task[r].op # "convert"
      BY <1>3, <1>15, SyncStageWritesDoes DEF Following
    <2>2. Neutral(r)
      BY <2>1, NeutralWrites DEF DealMovesTo
    <2> QED
      BY <1>1, <1>2, <2>1, <2>2, CrmTouches
  <1>16. CASE SyncDeptWrites(r)
    <2>1. Sets(r, {"lead"}) /\ LeadsStay /\ task[r].op # "convert"
      BY <1>3, <1>16, SyncDeptWritesDoes DEF Following
    <2>2. Neutral(r)
      BY <2>1, NeutralWrites
    <2> QED
      BY <1>1, <1>2, <2>1, <2>2, CrmTouches
  <1> QED
    BY <1>4, <1>5, <1>6, <1>7, <1>8, <1>9, <1>10, <1>11, <1>12, <1>13, <1>14, <1>15, <1>16, <1>17, Zenon DEF CrmWrites

LEMMA DeskConverts ==
  ASSUME Shape, Asked, Shape', ConversionSound, NEW r \in Slot, DeskWrites(r)
  PROVE  ConversionSound'
  <1>1. task[r].op # "convert"
    BY Zenon DEF DeskWrites, WriteStageOfChat, WriteChat, WriteNewChat, WriteLeadOfChat, At
  <1>2. NotMarking(r)
    BY <1>1 DEF NotMarking, At
  <1>3. Over(r)
    BY DeskTouches
  <1>4. ConvertAt(r)'
    BY <1>1, <1>3, DoneFits DEF Over, ConvertAt, At
  <1>5. ASSUME Neutral(r) PROVE ConversionSound'
    BY <1>2, <1>4, <1>5, ConversionNeutral
  <1>6. CASE Reads(r)
    BY <1>5, <1>6, NeutralReads
  <1>7. ASSUME Sets(r, {"chat"}) PROVE ConversionSound'
    BY <1>5, <1>7, NeutralWrites
  <1>8. ASSUME ~Refused(r) PROVE Sets(r, {"chat"}) \/ LeadAppears(r)
    BY <1>8, WriteStageOfChatDoes, WriteChatDoes, WriteNewChatDoes, WriteLeadOfChatDoes DEF DeskWrites
  <1>9. CASE Refused(r)
    BY <1>6, <1>9, RefusedDoes DEF Reads
  <1> QED
    BY <1>2, <1>7, <1>8, <1>9, LeadComes

LEMMA ConversionStep ==
  ASSUME Shape, Asked, Shape', ConversionSound, [OfficeNext]_officeVars
  PROVE  ConversionSound'
  <1>1. CASE UNCHANGED officeVars
    <2>1. task' = task /\ db' = db /\ gone' = gone /\ overlaps' = overlaps /\ torn' = torn
      BY <1>1 DEF officeVars
    <2>2. \A t : Live(t)' = Live(t)
      BY <2>1 DEF Live
    <2>3. FromLeads' /\ MarkedBack'
      BY <2>1, <2>2 DEF ConversionSound, FromLeads, MarkedBack
    <2>4. \A l, k : Marking(l, k)' = Marking(l, k)
      BY <2>1 DEF Marking, At
    <2>5. OneDeal'
      BY <2>1, <2>2, <2>4 DEF ConversionSound, OneDeal, Overlapped
    <2>6. \A r \in Slot : ConvertAt(r)'
      BY <2>1, <2>2 DEF ConversionSound, ConvertAt, At, Overlapped
    <2> QED
      BY <2>3, <2>5, <2>6 DEF ConversionSound
  <1>2. ASSUME NEW r \in Slot, LooksSoundly(r), task[r].step = 0
        PROVE  ConversionSound'
    <2>1. PICK op, arg, seen : Looked(r, op, arg, seen) /\ Grounds(op, arg, seen)
      BY <1>2 DEF LooksSoundly
    <2>2. ConvertAt(r)'
      BY <2>1, ConvertNow
    <2>3. Neutral(r)
      BY <2>1, NeutralReads DEF Looked, Reads
    <2>4. NotMarking(r)
      BY <1>2 DEF NotMarking, At
    <2> QED
      BY <2>2, <2>3, <2>4, ConversionNeutral
  <1>3. ASSUME NEW r \in Slot, TeamWrites(r)
        PROVE  ConversionSound'
    <2>1. NotMarking(r)
      BY <1>3, OpOfTeam DEF NotMarking, At, Elsewhere
    <2> QED
      BY <1>3, <2>1, TeamNeutral, ConversionNeutral
  <1> QED
    BY <1>1, <1>2, <1>3, ConversionLost, CrmConverts, DeskConverts, Steps DEF Serves
-----------------------------------------------------------------------------
(***************************************************************************)
(* Stages.                                                                 *)
(***************************************************************************)
\* No stage and no deal comes back, and one that stays is of the department it was of.
StagesKeep == /\ Known("stage") \subseteq Known("stage")'
              /\ \A s \in Live("stage")' \cap Known("stage") : s \in Live("stage") /\ db'.stage[s].dept = db.stage[s].dept
DealsKeep == /\ Known("deal") \subseteq Known("deal")'
             /\ \A k \in Live("deal")' \cap Known("deal") : k \in Live("deal") /\ db'.deal[k].dept = db.deal[k].dept

\* The chat stays in its department, or falls out of one whose stages go.
ChatKeeps ==
  \/ db.chat # None /\ db'.chat # None /\ db'.chat.dept = db.chat.dept
  \/ db'.chat # None /\ db'.chat.dept = None /\ Live("stage")' \cap StagesOf(db.chat.dept) = {}

\* Deals stay where they are, and their stages are left alone.
DealsHold == \A k \in Live("deal")' : /\ k \in Live("deal") /\ db'.deal[k].stage = db.deal[k].stage
                                      /\ db'.deal[k].dept = db.deal[k].dept /\ db.deal[k].stage \in Live("stage")'

\* So does the chat, or it is in no stage now.
ChatHolds ==
  \/ db'.chat = None \/ db'.chat.stage = None
  \/ /\ db.chat # None /\ db'.chat.stage = db.chat.stage
     /\ db.chat.stage \in Live("stage") => db.chat.stage \in Live("stage")'
     /\ db'.chat.dept = db.chat.dept \/ db.chat.stage \notin StagesOf(db.chat.dept)

LEMMA PairKept ==
  ASSUME StagesKeep, NEW s, NEW d, Pair(s, d)
  PROVE  Pair(s, d)'
  BY DEF StagesKeep, Pair, Known

LEMMA SuitsKept ==
  ASSUME StagesKeep, DealsKeep, NEW s, NEW k, Suits(s, k)
  PROVE  Suits(s, k)'
  <1>1. k \in Known("deal")'
    BY DEF Suits, DealsKeep, Known
  <1>2. ASSUME k \in Live("deal")' PROVE Pair(s, db.deal[k].dept) /\ db'.deal[k].dept = db.deal[k].dept
    BY <1>2 DEF Suits, DealsKeep, Known
  <1>3. ASSUME k \in Live("deal")' PROVE Pair(s, db.deal[k].dept) /\ (s \in Live("stage")' => db'.stage[s].dept = db.deal[k].dept)
    BY <1>2, <1>3 DEF StagesKeep, Pair, Known
  <1> QED
    BY <1>1, <1>2, <1>3 DEF Suits, Pair, StagesKeep, Known

LEMMA StageAtKept ==
  ASSUME Asked, NEW q \in Slot, StageAt(q), Kept(q), StagesKeep, DealsKeep,
         ChatKeeps \/ db.chat = None \/ task[q].step = 0 \/ "updateChat" \in task'[q].since
  PROVE  StageAt(q)'
  <1>1. /\ task'[q].op = task[q].op /\ task'[q].step = task[q].step /\ task'[q].arg = task[q].arg
        /\ task'[q].seen = task[q].seen /\ task[q].since \subseteq task'[q].since
    BY DEF Kept
  <1> DEFINE arg == task[q].arg
             seen == task[q].seen
  <1>2. At(q, "convert", 1) \/ At(q, "createDeal", 1) => Pair(seen.stage, seen.dept)'
    <2>1. At(q, "convert", 1) \/ At(q, "createDeal", 1) => Pair(seen.stage, seen.dept)
      BY DEF StageAt
    <2>2. ASSUME NEW s, NEW d, Pair(s, d) PROVE Pair(s, d)'
      BY <2>2, PairKept
    <2>3. Pair(seen.stage, seen.dept) => seen.stage \in Known("stage")' /\ (seen.stage \in Live("stage")' => db'.stage[seen.stage].dept = seen.dept)
      BY DEF Pair, StagesKeep, Known
    <2> QED
      BY <1>1, <2>1, <2>3 DEF Pair, Known
  <1>3. At(q, "updateDeal", 1) => Suits(arg.stage, arg.deal)
    BY DEF StageAt
  <1>4. task[q].step = 3 => Suits(seen.stage, seen.found)
    BY DEF StageAt
  <1>5. At(q, "updateStage", 1) /\ arg # None =>
          /\ arg \in Known("stage")'
          /\ "updateChat" \in task'[q].since \/ arg \notin Live("stage")' \/ db'.stage[arg].dept = db'.chat.dept
    <2>1. ASSUME At(q, "updateStage", 1), arg # None
          PROVE  /\ arg \in Known("stage") /\ db.chat # None /\ task[q].step # 0
                 /\ "updateChat" \in task[q].since \/ arg \notin Live("stage") \/ db.stage[arg].dept = db.chat.dept
      BY <2>1 DEF StageAt, Asked, AskedAt, AskedDesk, Known, At
    <2>2. ASSUME At(q, "updateStage", 1), arg # None, arg \in Live("stage")', db.stage[arg].dept = db.chat.dept, ChatKeeps
          PROVE  db'.stage[arg].dept = db'.chat.dept
      <3>1. arg \in Live("stage") /\ db'.stage[arg].dept = db.stage[arg].dept
        BY <2>1, <2>2 DEF StagesKeep
      <3>2. arg \in StagesOf(db.chat.dept)
        BY <2>2, <3>1 DEF StagesOf
      <3> QED
        BY <2>2, <3>1, <3>2 DEF ChatKeeps
    <2> QED
      BY <1>1, <2>1, <2>2 DEF StagesKeep
  <1>6. At(q, "updateChat", 1) /\ seen.moved /\ seen.stage # None => Pair(seen.stage, arg.dept)
    BY DEF StageAt
  <1>7. At(q, "updateChat", 1) =>
          seen.moved \/ arg.dept = Same \/ "updateChat" \in task'[q].since \/ db'.chat.dept \in {None, arg.dept}
    <2>1. At(q, "updateChat", 1) =>
            /\ db.chat # None /\ task[q].step # 0
            /\ seen.moved \/ arg.dept = Same \/ "updateChat" \in task[q].since \/ db.chat.dept \in {None, arg.dept}
      BY DEF StageAt, Asked, AskedAt, AskedDesk, At
    <2> QED
      BY <1>1, <2>1 DEF ChatKeeps
  <1>8. ASSUME NEW s, NEW d, Pair(s, d)
        PROVE  s \in Known("stage")' /\ (s \in Live("stage")' => db'.stage[s].dept = d)
    BY <1>8 DEF Pair, StagesKeep, Known
  <1>9. ASSUME NEW s, NEW k, Suits(s, k)
        PROVE  /\ k \in Known("deal")'
               /\ k \in Live("deal")' => s \in Known("stage")' /\ (s \in Live("stage")' => db'.stage[s].dept = db'.deal[k].dept)
    <2>1. Suits(s, k)'
      BY <1>9, SuitsKept
    <2> QED
      BY <2>1 DEF Suits, Pair, Known
  <1>10. At(q, "updateDeal", 1) =>
          /\ arg.deal \in Known("deal")'
          /\ arg.deal \in Live("deal")' => arg.stage \in Known("stage")' /\ (arg.stage \in Live("stage")' => db'.stage[arg.stage].dept = db'.deal[arg.deal].dept)
    BY <1>3, <1>9, Zenon
  <1>11. task[q].step = 3 =>
          /\ seen.found \in Known("deal")'
          /\ seen.found \in Live("deal")' => seen.stage \in Known("stage")' /\ (seen.stage \in Live("stage")' => db'.stage[seen.stage].dept = db'.deal[seen.found].dept)
    BY <1>4, <1>9, Zenon
  <1>12. At(q, "updateChat", 1)' => (task'[q].seen.moved /\ task'[q].seen.stage # None => Pair(task[q].seen.stage, task[q].arg.dept)')
    BY <1>1, <1>6, <1>8 DEF At, Pair, Known
  <1> QED
    <2>1. At(q, "updateDeal", 1)' => Suits(task[q].arg.stage, task[q].arg.deal)'
      BY <1>1, <1>10 DEF At, Suits, Pair, Known
    <2>2. task'[q].step = 3 => Suits(task[q].seen.stage, task[q].seen.found)'
      BY <1>1, <1>11 DEF Suits, Pair, Known
    <2> QED
      BY <1>1, <1>2, <1>5, <1>7, <2>1, <2>2, <1>12 DEF StageAt, At, Known

LEMMA DealsFit ==
  ASSUME DealInPipeline, StagesKeep, DealsHold
  PROVE  DealInPipeline'
  <1>1. ASSUME NEW k \in Live("deal")'
        PROVE  db'.deal[k].stage \in Live("stage")' /\ db'.stage[db'.deal[k].stage].dept = db'.deal[k].dept
    BY <1>1 DEF DealInPipeline, InPipeline, StagesOf, StagesKeep, Known, DealsHold
  <1> QED
    BY <1>1 DEF DealInPipeline, InPipeline, StagesOf

LEMMA ChatFits ==
  ASSUME StageOfItsDepartment, StagesKeep, ChatHolds, overlaps \subseteq overlaps', kanban => kanban'
  PROVE  StageOfItsDepartment'
  <1>1. ASSUME db.chat # None, db'.chat # None, db'.chat.stage = db.chat.stage, db'.chat.dept = db.chat.dept,
               db.chat.stage \in Live("stage") => db.chat.stage \in Live("stage")',
               InPipeline(db.chat.stage, db.chat.dept)
        PROVE  db'.chat.stage \in Live("stage")' /\ db'.stage[db'.chat.stage].dept = db'.chat.dept
    BY <1>1 DEF InPipeline, StagesOf, StagesKeep, Known
  <1> QED
    BY <1>1 DEF StageOfItsDepartment, ChatHolds, InPipeline, StagesOf, Overlapped
LEMMA StagesTogether ==
  ASSUME Asked, StagesSound, NEW r \in Slot, Others(r), StagesKeep, DealsKeep, DealInPipeline', StageOfItsDepartment', StageAt(r)',
         \/ ChatKeeps \/ db.chat = None
         \/ \A q \in Slot : q # r => task[q].step = 0 \/ "updateChat" \in task'[q].since
  PROVE  StagesSound'
  <1>1. ASSUME NEW q \in Slot, q # r PROVE StageAt(q)'
    <2>1. Kept(q) /\ StageAt(q)
      BY <1>1 DEF Others, StagesSound
    <2> QED
      BY <1>1, <2>1, StageAtKept
  <1> QED
    BY <1>1 DEF StagesSound

LEMMA TableKept ==
  ASSUME Shape, Shape', NEW r \in Slot, NEW names, Sets(r, names)
  PROVE  /\ "stage" \notin names => StagesKeep /\ Live("stage")' = Live("stage") /\ db'.stage = db.stage
         /\ "deal" \notin names => DealsKeep /\ Live("deal")' = Live("deal") /\ db'.deal = db.deal
         /\ "chat" \notin names => db'.chat = db.chat /\ (ChatKeeps \/ db.chat = None)
         /\ Known("stage") \subseteq Known("stage")' /\ Known("deal") \subseteq Known("deal")'
         /\ Others(r) /\ overlaps \subseteq overlaps'
  <1>1. /\ db["stage"] = db.stage /\ db'["stage"] = db'.stage /\ db["deal"] = db.deal /\ db'["deal"] = db'.deal
        /\ db["chat"] = db.chat /\ db'["chat"] = db'.chat
    BY DEF Shape, Tables
  <1>2. \A t \in {"stage", "deal", "chat"} : t \notin names => db'[t] = db[t] /\ Live(t)' = Live(t)
    BY RowsStay DEF Sets, Only, Table
  <1>3. Known("stage") \subseteq Known("stage")' /\ Known("deal") \subseteq Known("deal")'
    BY KnownGrows DEF Sets, Numbered
  <1>4. "stage" \notin names => StagesKeep /\ Live("stage")' = Live("stage") /\ db'.stage = db.stage
    BY <1>1, <1>2, <1>3 DEF StagesKeep
  <1>5. "deal" \notin names => DealsKeep /\ Live("deal")' = Live("deal") /\ db'.deal = db.deal
    BY <1>1, <1>2, <1>3 DEF DealsKeep
  <1>6. "chat" \notin names => db'.chat = db.chat /\ (ChatKeeps \/ db.chat = None)
    BY <1>1, <1>2 DEF ChatKeeps
  <1>7. Others(r) /\ overlaps \subseteq overlaps'
    BY DEF Sets, Wrote
  <1> QED
    BY <1>3, <1>4, <1>5, <1>6, <1>7

LEMMA DealsUntouched ==
  ASSUME DealInPipeline, Live("deal")' = Live("deal"), db'.deal = db.deal, \A s \in Live("stage") : s \in Live("stage")'
  PROVE  DealsHold
  BY DEF DealInPipeline, InPipeline, StagesOf, DealsHold

LEMMA ChatUntouched ==
  ASSUME db'.chat = db.chat, \A s \in Live("stage") : s \in Live("stage")'
  PROVE  ChatHolds
  BY DEF ChatHolds

\* Nothing is written of stages, deals and the chat.
LEMMA StagesApart ==
  ASSUME Shape, Shape', Asked, StagesSound, NEW r \in Slot, NEW names, Sets(r, names), "stage" \notin names, "deal" \notin names,
         "chat" \notin names, kanban' = kanban, StageAt(r)'
  PROVE  StagesSound'
  <1>1. /\ StagesKeep /\ Live("stage")' = Live("stage") /\ DealsKeep /\ Live("deal")' = Live("deal") /\ db'.deal = db.deal
        /\ db'.chat = db.chat /\ (ChatKeeps \/ db.chat = None) /\ Others(r) /\ overlaps \subseteq overlaps'
    BY TableKept
  <1>2. DealsHold /\ ChatHolds
    BY <1>1, DealsUntouched, ChatUntouched DEF StagesSound
  <1>3. DealInPipeline' /\ StageOfItsDepartment'
    BY <1>1, <1>2, DealsFit, ChatFits DEF StagesSound
  <1> QED
    BY <1>1, <1>3, StagesTogether

LEMMA StagesRead ==
  ASSUME Asked, StagesSound, NEW r \in Slot, Others(r), Still, StageAt(r)'
  PROVE  StagesSound'
  <1>1. db' = db /\ gone' = gone /\ overlaps' = overlaps /\ kanban' = kanban
    BY DEF Still
  <1>2. \A t : Live(t)' = Live(t)
    BY <1>1 DEF Live
  <1>3. StagesKeep /\ DealsKeep /\ (ChatKeeps \/ db.chat = None)
    BY <1>1, <1>2 DEF StagesKeep, DealsKeep, ChatKeeps, Known
  <1>4. DealsHold /\ ChatHolds
    BY <1>1, <1>2, DealsUntouched, ChatUntouched DEF StagesSound
  <1>5. DealInPipeline' /\ StageOfItsDepartment'
    BY <1>1, <1>3, <1>4, DealsFit, ChatFits DEF StagesSound
  <1> QED
    BY <1>3, <1>5, StagesTogether

\* A request knows of a stage only when it is to write it.
LEMMA StageAtElse ==
  ASSUME NEW r \in Slot, task'[r].step \in {0, 2, 4}
  PROVE  StageAt(r)'
  BY DEF StageAt, At

LEMMA DoneAt ==
  ASSUME NEW r \in Slot, Done(r) \/ \E n \in {2, 4} : \E seen : Onward(r, n, seen)
  PROVE  task'[r].step \in {0, 2, 4}
  BY FreeIs DEF Done, Onward

LEMMA FollowsAt ==
  ASSUME NEW r \in Slot, Follows2(r)
  PROVE  StageAt(r)'
  BY DoneAt, StageAtElse DEF Follows2

\* Stages come, go and change.
LEMMA TeamStages ==
  ASSUME Shape, Shape', Asked, StagesSound, NEW r \in Slot, TeamWrites(r)
  PROVE  StagesSound'
  <1>1. CASE Refused(r)
    BY <1>1, RefusedDoes, DoneFits, StagesRead
  <1>2. ASSUME NEW c \in Markable, ClearDefaults(r, c)
        PROVE  StagesSound'
    <2>1. Reads(r) /\ Onward(r, 2, Defaults(c))
      BY <1>2, GoesDoes DEF ClearDefaults, Reads
    <2>2. StageAt(r)'
      BY <2>1, StageAtElse DEF Onward
    <2> QED
      BY <2>1, <2>2, StagesRead DEF Reads
  <1>3. ASSUME ~Refused(r), ~\E c \in Markable : ClearDefaults(r, c), ~WriteDepartmentDelete(r), ~WriteProjectDelete(r),
               ~WriteStage(r), ~WriteStageUpdate(r), ~WriteStageDelete(r)
        PROVE  \E names \in SUBSET {"user", "dept", "project"} : Ended(r, names)
    BY <1>3, CommitDefaultDoes, WriteClearDefaultAgentDoes, WriteUserDoes, WriteUserUpdateDoes, WriteDepartmentDoes,
       WriteDepartmentUpdateDoes, WriteMembersDoes, WriteProjectDoes DEF TeamWrites, Markable
  <1>4. ASSUME NEW names \in SUBSET {"user", "dept", "project"}, Ended(r, names)
        PROVE  StagesSound'
    BY <1>4, DoneFits, StagesApart DEF Ended
  <1>5. ASSUME ~Refused(r), WriteStage(r) \/ WriteStageUpdate(r)
        PROVE  StagesSound'
    <2>1. /\ Done(r) /\ Sets(r, {"stage"}) /\ kanban' = kanban
          /\ \A s \in Live("stage") : s \in Live("stage")' /\ db'.stage[s].dept = db.stage[s].dept
          /\ \A s \in Live("stage")' : s \in Live("stage") \/ Fresh("stage", s)
      BY <1>5, WriteStageDoes, WriteStageUpdateDoes DEF Ended
    <2>2. /\ DealsKeep /\ Live("deal")' = Live("deal") /\ db'.deal = db.deal /\ db'.chat = db.chat
          /\ (ChatKeeps \/ db.chat = None) /\ Others(r) /\ overlaps \subseteq overlaps' /\ Known("stage") \subseteq Known("stage")'
      BY <2>1, TableKept
    <2>3. StagesKeep
      BY <2>1, <2>2, NewIsNew DEF StagesKeep
    <2>4. DealsHold /\ ChatHolds
      BY <2>1, <2>2, DealsUntouched, ChatUntouched DEF StagesSound
    <2>5. DealInPipeline' /\ StageOfItsDepartment'
      BY <2>1, <2>2, <2>3, <2>4, DealsFit, ChatFits DEF StagesSound
    <2> QED
      BY <2>1, <2>2, <2>3, <2>5, DoneFits, StagesTogether
  <1>6. CASE ~Refused(r) /\ WriteProjectDelete(r)
    <2>1. /\ Done(r) /\ Sets(r, {"project", "chat"}) /\ kanban' = kanban
          /\ db.chat = None <=> db'.chat = None
          /\ db.chat # None => db'.chat.stage = db.chat.stage /\ db'.chat.dept = db.chat.dept
      BY <1>6, WriteProjectDeleteDoes DEF Ended, Loses
    <2>2. /\ StagesKeep /\ Live("stage")' = Live("stage") /\ DealsKeep /\ Live("deal")' = Live("deal") /\ db'.deal = db.deal
          /\ Others(r) /\ overlaps \subseteq overlaps'
      BY <2>1, TableKept
    <2>3. DealsHold
      BY <2>2, DealsUntouched DEF StagesSound
    <2>4. ChatHolds /\ (ChatKeeps \/ db.chat = None)
      BY <2>1, <2>2 DEF ChatHolds, ChatKeeps
    <2>5. DealInPipeline' /\ StageOfItsDepartment'
      BY <2>1, <2>2, <2>3, <2>4, DealsFit, ChatFits DEF StagesSound
    <2> QED
      BY <2>1, <2>2, <2>4, <2>5, DoneFits, StagesTogether
  <1>7. CASE ~Refused(r) /\ WriteStageDelete(r)
    <2> DEFINE x == task[r].arg
    <2>1. /\ Done(r) /\ Sets(r, {"stage", "chat"}) /\ kanban' = kanban /\ StagesGo({x})
          /\ \A k \in Live("deal") : db.deal[k].stage # x
          /\ db.chat = None <=> db'.chat = None
          /\ db.chat # None => /\ db'.chat.stage = IF db.chat.stage = x THEN None ELSE db.chat.stage
                               /\ db'.chat.dept = db.chat.dept
      BY <1>7, WriteStageDeleteDoes DEF Ended
    <2>2. /\ DealsKeep /\ Live("deal")' = Live("deal") /\ db'.deal = db.deal
          /\ Others(r) /\ overlaps \subseteq overlaps' /\ Known("stage") \subseteq Known("stage")'
      BY <2>1, TableKept
    <2>3. StagesKeep
      BY <2>1, <2>2 DEF StagesKeep, StagesGo
    <2>4. DealsHold
      BY <2>1, <2>2 DEF DealsHold, StagesGo, StagesSound, DealInPipeline, InPipeline, StagesOf
    <2>5. ChatHolds /\ (ChatKeeps \/ db.chat = None)
      BY <2>1 DEF ChatHolds, ChatKeeps, StagesGo
    <2>6. DealInPipeline' /\ StageOfItsDepartment'
      BY <2>1, <2>2, <2>3, <2>4, <2>5, DealsFit, ChatFits DEF StagesSound
    <2> QED
      BY <2>1, <2>2, <2>3, <2>5, <2>6, DoneFits, StagesTogether
  <1>8. CASE ~Refused(r) /\ WriteDepartmentDelete(r)
    <2> DEFINE d == task[r].arg
    <2>1. /\ Done(r) /\ Sets(r, {"user", "dept", "stage", "chat", "lead"}) /\ kanban' = kanban /\ StagesGo(StagesOf(d))
          /\ \A k \in Live("deal") : db.deal[k].dept # d
          /\ db.chat = None <=> db'.chat = None
          /\ db.chat # None => /\ db'.chat.stage = IF db.chat.stage \in StagesOf(d) THEN None ELSE db.chat.stage
                               /\ db'.chat.dept = IF db.chat.dept = d THEN None ELSE db.chat.dept
      BY <1>8, WriteDepartmentDeleteDoes DEF Ended
    <2>2. /\ DealsKeep /\ Live("deal")' = Live("deal") /\ db'.deal = db.deal
          /\ Others(r) /\ overlaps \subseteq overlaps' /\ Known("stage") \subseteq Known("stage")'
      BY <2>1, TableKept
    <2>3. StagesKeep
      BY <2>1, <2>2 DEF StagesKeep, StagesGo
    <2>4. DealsHold
      BY <2>1, <2>2 DEF DealsHold, StagesGo, StagesSound, DealInPipeline, InPipeline, StagesOf
    <2>5. ChatHolds /\ (ChatKeeps \/ db.chat = None)
      BY <2>1 DEF ChatHolds, ChatKeeps, StagesGo
    <2>6. DealInPipeline' /\ StageOfItsDepartment'
      BY <2>1, <2>2, <2>3, <2>4, <2>5, DealsFit, ChatFits DEF StagesSound
    <2> QED
      BY <2>1, <2>2, <2>3, <2>5, <2>6, DoneFits, StagesTogether
  <1> QED
    BY <1>1, <1>2, <1>3, <1>4, <1>5, <1>6, <1>7, <1>8, Zenon

\* A deal moves to a stage of its department.
LEMMA StagesMove ==
  ASSUME Shape, Shape', Asked, StagesSound, NEW r \in Slot, NEW k, NEW s, Sets(r, {"deal"}), DealMovesTo(k, s), Suits(s, k),
         kanban' = kanban, StageAt(r)'
  PROVE  StagesSound'
  <1>1. /\ StagesKeep /\ Live("stage")' = Live("stage") /\ db'.stage = db.stage /\ db'.chat = db.chat
        /\ (ChatKeeps \/ db.chat = None) /\ Others(r) /\ overlaps \subseteq overlaps' /\ Known("deal") \subseteq Known("deal")'
    BY TableKept
  <1>2. Live("deal")' = Live("deal") /\ k \in Live("deal") /\ s \in Live("stage") /\ db.stage[s].dept = db.deal[k].dept
    BY DEF DealMovesTo, Suits, Pair
  <1>3. DealsKeep
    BY <1>1, <1>2 DEF DealsKeep, DealMovesTo
  <1>4. ASSUME NEW j \in Live("deal")'
        PROVE  db'.deal[j].stage \in Live("stage")' /\ db'.stage[db'.deal[j].stage].dept = db'.deal[j].dept
    <2>1. j \in Live("deal") /\ db'.deal[j].dept = db.deal[j].dept /\ db'.deal[j].stage = IF j = k THEN s ELSE db.deal[j].stage
      BY <1>2, <1>4 DEF DealMovesTo
    <2>2. db.deal[j].stage \in Live("stage") /\ db.stage[db.deal[j].stage].dept = db.deal[j].dept
      BY <2>1 DEF StagesSound, DealInPipeline, InPipeline, StagesOf
    <2> QED
      BY <1>1, <1>2, <2>1, <2>2
  <1>5. DealInPipeline'
    BY <1>4 DEF DealInPipeline, InPipeline, StagesOf
  <1>6. StageOfItsDepartment'
    BY <1>1, ChatUntouched, ChatFits DEF StagesSound
  <1> QED
    BY <1>1, <1>3, <1>5, <1>6, StagesTogether

\* A deal comes, in the stage its request had found.
LEMMA StagesGrow ==
  ASSUME Shape, Shape', Asked, StagesSound, NEW r \in Slot, NEW k, DealAppears(r, k), Pair(task[r].seen.stage, task[r].seen.dept),
         StageAt(r)'
  PROVE  StagesSound'
  <1> DEFINE row == task[r].seen
  <1>1. /\ Sets(r, {"deal"}) /\ kanban' = kanban /\ Fresh("deal", k) /\ Live("deal")' = Live("deal") \cup {k}
        /\ db'.deal[k] = row /\ row.stage \in Live("stage") /\ \A j \in Live("deal") : db'.deal[j] = db.deal[j]
    BY DEF DealAppears
  <1>2. db.stage[row.stage].dept = row.dept
    BY <1>1 DEF Pair
  <1> HIDE DEF row
  <1>3. /\ StagesKeep /\ Live("stage")' = Live("stage") /\ db'.stage = db.stage /\ db'.chat = db.chat
        /\ (ChatKeeps \/ db.chat = None) /\ Others(r) /\ overlaps \subseteq overlaps' /\ Known("deal") \subseteq Known("deal")'
    BY <1>1, TableKept
  <1>4. DealsKeep
    BY <1>1, <1>3, NewIsNew DEF DealsKeep
  <1>5. ASSUME NEW j \in Live("deal")'
        PROVE  db'.deal[j].stage \in Live("stage")' /\ db'.stage[db'.deal[j].stage].dept = db'.deal[j].dept
    <2>1. CASE j = k
      BY <1>1, <1>2, <1>3, <2>1
    <2>2. CASE j # k
      <3>1. j \in Live("deal") /\ db'.deal[j] = db.deal[j]
        BY <1>1, <1>5, <2>2
      <3>2. db.deal[j].stage \in Live("stage") /\ db.stage[db.deal[j].stage].dept = db.deal[j].dept
        BY <3>1 DEF StagesSound, DealInPipeline, InPipeline, StagesOf
      <3> QED
        BY <1>3, <3>1, <3>2
    <2> QED
      BY <2>1, <2>2
  <1>6. DealInPipeline'
    BY <1>5 DEF DealInPipeline, InPipeline, StagesOf
  <1>7. StageOfItsDepartment'
    BY <1>1, <1>3, ChatUntouched, ChatFits DEF StagesSound
  <1> QED
    BY <1>3, <1>4, <1>6, <1>7, StagesTogether

\* The Kanban moves deals, and the chat with them.
LEMMA CrmStages ==
  ASSUME Shape, Shape', Asked, StagesSound, NEW r \in Slot, CrmWrites(r), ~Lost
  PROVE  StagesSound'
  <1>1. CASE Refused(r)
    BY <1>1, RefusedDoes, DoneFits, StagesRead
  <1>2. ~Dies(r)
    BY LostDoes DEF Dies
  <1>3. ASSUME ~Refused(r), SyncDept(r)
        PROVE  StagesSound'
    <2>1. PICK n \in {2, 4} : \E seen : Goes(r, n, seen)
      BY <1>3, SyncDeptDoes
    <2>2. Others(r) /\ Still /\ StageAt(r)'
      BY <2>1, GoesDoes, DoneAt, StageAtElse
    <2> QED
      BY <2>2, StagesRead
  <1>4. ASSUME ~Refused(r), SyncStage(r)
        PROVE  StagesSound'
    <2>1. task[r].op \in Following
      BY <1>4, SyncStageDoes
    <2>2. ASSUME NEW seen, Goes(r, 2, seen) PROVE StagesSound'
      <3>1. Others(r) /\ Still /\ StageAt(r)'
        BY <2>2, GoesDoes, DoneAt, StageAtElse
      <3> QED
        BY <3>1, StagesRead
    <2>3. ASSUME NEW seen, Goes(r, 3, seen), seen.found \in Live("deal"), seen.stage \in StagesOf(db.deal[seen.found].dept)
          PROVE StagesSound'
      <3>1. Others(r) /\ Still /\ Onward(r, 3, seen)
        BY <2>3, GoesDoes
      <3>2. Suits(seen.stage, seen.found)
        BY <2>3 DEF Suits, Pair, StagesOf
      <3>3. db' = db /\ gone' = gone /\ Live("deal")' = Live("deal") /\ Live("stage")' = Live("stage")
        BY <3>1 DEF Still, Live
      <3>4. task'[r].op \in Following /\ task'[r].step = 3 /\ task'[r].seen = seen
        BY <2>1, <3>1 DEF Onward
      <3>5. StageAt(r)'
        BY <3>2, <3>3, <3>4 DEF StageAt, At, Following, Suits, Pair
      <3> QED
        BY <3>1, <3>5, StagesRead
    <2> QED
      BY <1>4, <2>2, <2>3, SyncStageDoes
  <1>5. ASSUME ~Refused(r), WriteLead(r) \/ WriteLeadUpdate(r) \/ WriteLeadRemoval(r) \/ MarkConverted(r)
        PROVE  StagesSound'
    <2>1. Ended(r, {"lead"})
      BY <1>5, WriteLeadDoes, WriteLeadUpdateDoes, WriteLeadRemovalDoes, MarkConvertedDoes, Zenon DEF LeadAppears
    <2> QED
      BY <2>1, DoneFits, StagesApart DEF Ended
  <1>6. CASE SyncDeptWrites(r)
    <2>1. Sets(r, {"lead"}) /\ kanban' = kanban /\ StageAt(r)'
      BY <1>2, <1>6, SyncDeptWritesDoes, FollowsAt
    <2> QED
      BY <2>1, StagesApart
  <1>7. ASSUME ~Refused(r), NEW k \in Deal, CreateDealOf(r, k)
        PROVE  StagesSound'
    <2>1. DealAppears(r, k) /\ StageAt(r)'
      BY <1>7, CreateDealOfDoes, DoneAt, StageAtElse
    <2>2. Pair(task[r].seen.stage, task[r].seen.dept)
      BY <1>7 DEF CreateDealOf, StagesSound, StageAt
    <2> QED
      BY <2>1, <2>2, StagesGrow
  <1>8. ASSUME ~Refused(r), NEW k \in Deal, WriteDeal(r, k)
        PROVE  StagesSound'
    <2>1. DealAppears(r, k) /\ StageAt(r)'
      BY <1>8, WriteDealDoes, DoneFits
    <2>2. Pair(task[r].seen.stage, task[r].seen.dept)
      BY <1>8 DEF WriteDeal, StagesSound, StageAt
    <2> QED
      BY <2>1, <2>2, StagesGrow
  <1>9. ASSUME ~Refused(r), MoveDeal(r)
        PROVE  StagesSound'
    <2>1. Sets(r, {"deal"}) /\ DealMovesTo(task[r].arg.deal, task[r].arg.stage) /\ kanban' = kanban /\ StageAt(r)'
      BY <1>9, MoveDealDoes, DoneAt, StageAtElse
    <2>2. Suits(task[r].arg.stage, task[r].arg.deal)
      BY <1>9 DEF MoveDeal, StagesSound, StageAt
    <2> QED
      BY <2>1, <2>2, StagesMove
  <1>10. CASE SyncStageWrites(r)
    <2>1. /\ Sets(r, {"deal"}) /\ DealMovesTo(task[r].seen.found, task[r].seen.stage) /\ kanban' = kanban /\ StageAt(r)'
      BY <1>2, <1>10, SyncStageWritesDoes, FollowsAt
    <2>2. Suits(task[r].seen.stage, task[r].seen.found)
      BY <1>10 DEF SyncStageWrites, StagesSound, StageAt
    <2> QED
      BY <2>1, <2>2, StagesMove
  <1>11. ASSUME ~Refused(r), MoveChatToo(r)
         PROVE  StagesSound'
    <2>1. /\ Done(r) /\ Sets(r, {"chat"}) /\ kanban' = TRUE /\ db.chat # None /\ db'.chat # None /\ db'.chat.dept = db.chat.dept
      BY <1>11, MoveChatTooDoes DEF Sets
    <2>2. /\ StagesKeep /\ Live("stage")' = Live("stage") /\ DealsKeep /\ Live("deal")' = Live("deal") /\ db'.deal = db.deal
          /\ Others(r)
      BY <2>1, TableKept
    <2>3. DealInPipeline'
      BY <2>2, DealsUntouched, DealsFit DEF StagesSound
    <2>4. StageOfItsDepartment' /\ ChatKeeps
      BY <2>1 DEF StageOfItsDepartment, ChatKeeps
    <2> QED
      BY <2>1, <2>2, <2>3, <2>4, DoneFits, StagesTogether
  <1>12. ASSUME ~Refused(r), WriteDealRemoval(r)
         PROVE  StagesSound'
    <2>1. /\ Done(r) /\ Sets(r, {"deal", "lead"}) /\ kanban' = kanban
          /\ \A k \in Live("deal")' : k \in Live("deal") /\ db'.deal[k] = db.deal[k]
      BY <1>12, WriteDealRemovalDoes DEF Ended
    <2>2. /\ StagesKeep /\ Live("stage")' = Live("stage") /\ db'.chat = db.chat /\ (ChatKeeps \/ db.chat = None)
          /\ Others(r) /\ overlaps \subseteq overlaps' /\ Known("deal") \subseteq Known("deal")'
      BY <2>1, TableKept
    <2>3. DealsKeep
      BY <2>1, <2>2 DEF DealsKeep
    <2>4. DealsHold
      BY <2>1, <2>2 DEF DealsHold, StagesSound, DealInPipeline, InPipeline, StagesOf
    <2>5. DealInPipeline' /\ StageOfItsDepartment'
      BY <2>1, <2>2, <2>4, DealsFit, ChatUntouched, ChatFits DEF StagesSound
    <2> QED
      BY <2>1, <2>2, <2>3, <2>5, DoneFits, StagesTogether
  <1>13. CASE SyncDept(r) \/ SyncStage(r) \/ SyncDeptWrites(r) \/ SyncStageWrites(r)
    BY <1>1, <1>3, <1>4, <1>6, <1>10, <1>13, Zenon
  <1>14. CASE WriteLead(r) \/ WriteLeadUpdate(r) \/ WriteLeadRemoval(r) \/ MarkConverted(r)
    BY <1>1, <1>5, <1>14, Zenon
  <1>15. CASE \E k \in Deal : CreateDealOf(r, k) \/ WriteDeal(r, k)
    BY <1>1, <1>7, <1>8, <1>15, Zenon
  <1>16. CASE MoveDeal(r) \/ MoveChatToo(r) \/ WriteDealRemoval(r)
    BY <1>1, <1>9, <1>11, <1>12, <1>16, Zenon
  <1> QED
    BY <1>13, <1>14, <1>15, <1>16, Zenon DEF CrmWrites

\* The chat changes its stage, or its department and then its stage with it.
LEMMA DeskStages ==
  ASSUME Shape, Shape', Asked, StagesSound, NEW r \in Slot, DeskWrites(r)
  PROVE  StagesSound'
  <1>1. CASE Refused(r)
    BY <1>1, RefusedDoes, DoneFits, StagesRead
  <1>2. ASSUME ~Refused(r), WriteLeadOfChat(r)
        PROVE  StagesSound'
    <2>1. Ended(r, {"lead"})
      BY <1>2, WriteLeadOfChatDoes DEF LeadAppears
    <2> QED
      BY <2>1, DoneFits, StagesApart DEF Ended
  <1>3. ASSUME NEW names, Sets(r, names), names = {"chat"}
        PROVE  /\ StagesKeep /\ Live("stage")' = Live("stage") /\ db'.stage = db.stage /\ DealsKeep /\ DealInPipeline'
               /\ Others(r) /\ overlaps \subseteq overlaps'
    <2>1. /\ StagesKeep /\ Live("stage")' = Live("stage") /\ db'.stage = db.stage
          /\ DealsKeep /\ Live("deal")' = Live("deal") /\ db'.deal = db.deal
          /\ Others(r) /\ overlaps \subseteq overlaps'
      BY <1>3, TableKept
    <2>2. DealInPipeline'
      BY <2>1, DealsUntouched, DealsFit DEF StagesSound
    <2> QED
      BY <2>1, <2>2
  <1>4. ASSUME ~Refused(r), WriteNewChat(r)
        PROVE  StagesSound'
    <2>1. Sets(r, {"chat"}) /\ db.chat = None /\ db'.chat.stage = None /\ StageAt(r)'
      BY <1>4, WriteNewChatDoes, DoneAt, StageAtElse
    <2>2. StageOfItsDepartment'
      BY <2>1 DEF StageOfItsDepartment
    <2> QED
      BY <1>3, <2>1, <2>2, StagesTogether
  <1>5. ASSUME ~Refused(r), WriteStageOfChat(r)
        PROVE  StagesSound'
    <2> DEFINE s == task[r].arg
    <2>1. /\ Sets(r, {"chat"}) /\ Refers(s, "stage") /\ db.chat # None /\ db'.chat.dept = db.chat.dept /\ db'.chat.stage = s
          /\ StageAt(r)'
      BY <1>5, WriteStageOfChatDoes, FollowsAt
    <2>2. db'.chat # None /\ ChatKeeps
      BY <2>1 DEF Sets, ChatKeeps
    <2>3. task[r].op = "updateStage" /\ task[r].step = 1
      BY <1>5 DEF WriteStageOfChat, At
    <2>4. s # None => "updateChat" \in task[r].since \/ db.stage[s].dept = db.chat.dept
      BY <2>1, <2>3 DEF StagesSound, StageAt, At, Refers
    <2>5. "updateChat" \in task[r].since => Overlapped("updateStage", "updateChat")'
      BY <2>1, <2>3 DEF Sets, Wrote, Overlapped
    <2>6. ASSUME s # None, db.stage[s].dept = db.chat.dept PROVE InPipeline(db.chat.stage, db.chat.dept)'
      <3>1. s \in Live("stage")' /\ db'.stage[s].dept = db'.chat.dept
        BY <1>3, <2>1, <2>6 DEF Refers
      <3> QED
        BY <2>1, <3>1 DEF InPipeline, StagesOf
    <2>7. StageOfItsDepartment'
      BY <2>1, <2>4, <2>5, <2>6 DEF StageOfItsDepartment
    <2> QED
      BY <1>3, <2>1, <2>2, <2>7, StagesTogether
  <1>6. ASSUME ~Refused(r), WriteChat(r)
        PROVE  StagesSound'
    <2> DEFINE d == task[r].arg.dept
               s == task[r].seen.stage
               moved == task[r].seen.moved
    <2>1. /\ Sets(r, {"chat"}) /\ kanban' = (kanban /\ ~moved) /\ Refers(s, "stage")
          /\ db.chat # None /\ db'.chat.dept = (IF d = Same THEN db.chat.dept ELSE d)
          /\ db'.chat.stage = (IF moved THEN s ELSE db.chat.stage) /\ StageAt(r)'
      BY <1>6, WriteChatDoes, FollowsAt
    <2>2. task[r].op = "updateChat" /\ task[r].step = 1
      BY <1>6 DEF WriteChat, At
    <2>3. moved \in BOOLEAN /\ (moved => d # Same)
      BY <2>2 DEF Asked, AskedAt, AskedDesk, At
    <2>4. /\ moved /\ s # None => Pair(s, d)
          /\ moved \/ d = Same \/ "updateChat" \in task[r].since \/ db.chat.dept \in {None, d}
      BY <2>2 DEF StagesSound, StageAt, At
    <2>5. \A q \in Slot : q # r => task[q].step = 0 \/ "updateChat" \in task'[q].since
      BY <2>1, <2>2 DEF Sets, Wrote, Missed
    <2>6. "updateChat" \in task[r].since => Overlapped("updateChat", "updateChat")'
      BY <2>1, <2>2 DEF Sets, Wrote, Overlapped
    <2>7. ASSUME moved PROVE StageOfItsDepartment'
      <3>1. db'.chat.stage = s /\ db'.chat.dept = d
        BY <2>1, <2>3, <2>7
      <3>2. ASSUME s # None PROVE s \in Live("stage")' /\ db'.stage[s].dept = d
        BY <1>3, <2>1, <2>4, <2>7, <3>2 DEF Refers, Pair
      <3>3. CASE s = None
        BY <3>1, <3>3 DEF StageOfItsDepartment
      <3>4. CASE s # None
        <4>1. InPipeline(db.chat.stage, db.chat.dept)'
          BY <3>1, <3>2, <3>4 DEF InPipeline, StagesOf
        <4> QED
          BY <4>1 DEF StageOfItsDepartment
      <3> QED
        BY <3>3, <3>4
    <2>8. ASSUME ~moved PROVE StageOfItsDepartment'
      <3>1. db'.chat.stage = db.chat.stage /\ kanban' = kanban
        BY <2>1, <2>8 DEF Shape
      <3>2. \A x, y : Overlapped(x, y) => Overlapped(x, y)'
        BY <1>3, <2>1 DEF Overlapped
      <3>3. ASSUME db'.chat.dept = db.chat.dept, InPipeline(db.chat.stage, db.chat.dept) PROVE InPipeline(db.chat.stage, db.chat.dept)'
        BY <1>3, <2>1, <3>1, <3>3 DEF InPipeline, StagesOf
      <3>4. ~InPipeline(db.chat.stage, None)
        <4>1. \A x \in Live("stage") : db.stage[x].dept \in Dept
          BY StagesAreStages DEF StageRow
        <4> QED
          BY <4>1, TablesAssumption DEF InPipeline, StagesOf
      <3>5. db'.chat.dept = db.chat.dept \/ "updateChat" \in task[r].since \/ db.chat.dept = None
        BY <2>1, <2>4, <2>8
      <3>6. \/ db.chat.stage = None \/ kanban \/ InPipeline(db.chat.stage, db.chat.dept)
            \/ Overlapped("updateStage", "updateChat") \/ Overlapped("updateChat", "updateChat")
        BY <2>1 DEF StageOfItsDepartment, StagesSound
      <3>7. CASE InPipeline(db.chat.stage, db.chat.dept)
        <4>1. \/ Overlapped("updateChat", "updateChat")'
              \/ db'.chat.dept = db.chat.dept
          BY <2>6, <3>4, <3>5, <3>7
        <4>2. InPipeline(db.chat.stage, db.chat.dept)' \/ Overlapped("updateChat", "updateChat")'
          BY <3>3, <3>7, <4>1
        <4> QED
          BY <4>2, Zenon DEF StageOfItsDepartment
      <3>8. CASE ~InPipeline(db.chat.stage, db.chat.dept)
        <4>1. \/ db'.chat.stage = None \/ kanban'
              \/ Overlapped("updateStage", "updateChat")' \/ Overlapped("updateChat", "updateChat")'
          BY <3>1, <3>2, <3>6, <3>8
        <4> QED
          BY <4>1, Zenon DEF StageOfItsDepartment
      <3> QED
        BY <3>7, <3>8, Zenon
    <2>9. StageOfItsDepartment'
      BY <2>7, <2>8, Zenon
    <2> QED
      BY <1>3, <2>1, <2>5, <2>9, StagesTogether
  <1> QED
    BY <1>1, <1>2, <1>4, <1>5, <1>6, Zenon DEF DeskWrites

\* Who looks finds stages of the department it asks for.
LEMMA StagesNow ==
  ASSUME Shape, NEW r \in Slot, NEW op, NEW arg, NEW seen, Looked(r, op, arg, seen), Grounds(op, arg, seen)
  PROVE  StageAt(r)'
  <1>1. /\ task'[r].op = op /\ task'[r].step = 1 /\ task'[r].arg = arg /\ task'[r].seen = seen /\ db' = db /\ gone' = gone
    BY DEF Looked, Still
  <1>2. \A t : Live(t)' = Live(t)
    BY <1>1 DEF Live
  <1>3. op = "convert" \/ op = "createDeal" => Pair(seen.stage, seen.dept)
    BY DEF Grounds, CrmGrounds, StagesOf, Pair
  <1>4. op = "updateDeal" => Suits(arg.stage, arg.deal)
    BY DEF Grounds, CrmGrounds, StagesOf, Suits, Pair
  <1>5. op = "updateStage" /\ arg # None => arg \in Live("stage") /\ db.stage[arg].dept = db.chat.dept
    BY DEF Grounds, DeskGrounds
  <1>6. op = "updateChat" => (seen.moved /\ seen.stage # None => Pair(seen.stage, arg.dept))
    BY DEF Grounds, DeskGrounds, StagesOf, Pair
  <1>7. op = "updateChat" => seen.moved \/ arg.dept = Same \/ db.chat.dept = arg.dept
    BY DEF Grounds, DeskGrounds
  <1> QED
    BY <1>1, <1>2, <1>3, <1>4, <1>5, <1>6, <1>7 DEF StageAt, At, Suits, Pair

LEMMA StagesStep ==
  ASSUME Shape, Shape', Asked, StagesSound, [OfficeNext]_officeVars
  PROVE  StagesSound'
  <1>1. CASE UNCHANGED officeVars
    <2>1. db' = db /\ task' = task /\ gone' = gone /\ kanban' = kanban /\ overlaps' = overlaps
      BY <1>1 DEF officeVars
    <2>2. \A t : Live(t)' = Live(t)
      BY <2>1 DEF Live
    <2>3. \A r \in Slot : StageAt(r)'
      BY <2>1, <2>2 DEF StagesSound, StageAt, At, Pair, Suits
    <2> QED
      BY <2>1, <2>2, <2>3 DEF StagesSound, DealInPipeline, StageOfItsDepartment, InPipeline, StagesOf, Overlapped
  <1>2. CASE Lost
    <2>1. db' = db /\ kanban' = kanban /\ overlaps' = overlaps
      BY <1>2 DEF Lost, Still
    <2>2. \A t : Live(t)' = Live(t)
      BY <2>1 DEF Live
    <2>3. \A r \in Slot : StageAt(r)'
      BY <1>2, DoneFits DEF Lost
    <2> QED
      BY <2>1, <2>2, <2>3 DEF StagesSound, DealInPipeline, StageOfItsDepartment, InPipeline, StagesOf, Overlapped
  <1>3. ASSUME NEW r \in Slot, LooksSoundly(r)
        PROVE  StagesSound'
    <2>1. PICK op, arg, seen : Looked(r, op, arg, seen) /\ Grounds(op, arg, seen)
      BY <1>3 DEF LooksSoundly
    <2>2. Others(r) /\ Still /\ StageAt(r)'
      BY <2>1, StagesNow DEF Looked
    <2> QED
      BY <2>2, StagesRead
  <1> QED
    BY <1>1, <1>2, <1>3, Steps, TeamStages, CrmStages, DeskStages DEF Serves
-----------------------------------------------------------------------------
(***************************************************************************)
(* The start.                                                              *)
(***************************************************************************)
LEMMA StartIs ==
  ASSUME OfficeInit
  PROVE  /\ db \in Tables /\ Sound(db) /\ kanban = FALSE
         /\ task = [r \in Slot |-> Free] /\ gone = [x \in Numbered |-> {}] /\ overlaps = {}
         /\ \E du, dd : /\ \A u \in User : db.user[u] # None => db.user[u].active /\ (db.user[u].dft => u = du)
                        /\ \A d \in Dept : db.dept[d] # None => db.dept[d].active /\ (db.dept[d].dft => d = dd)
  <1>1. PICK in \in [User -> Opt(SUBSET Dept)], du \in Opt(User), dd \in Opt(Dept), home \in [Stage -> Opt(Dept)],
             chat \in Opt(ChatRow), lead \in [Lead -> Opt(LeadRow)], deal \in [Deal -> Opt(DealRow)] :
               Starting(Company(in, du, dd, home, chat, lead, deal))
    BY DEF OfficeInit
  <1> DEFINE U == [u \in User |-> IF in[u] = None THEN None ELSE [active |-> TRUE, dft |-> u = du, in |-> in[u]]]
             D == [d \in Dept |-> [active |-> TRUE, dft |-> d = dd]]
             S == [s \in Stage |-> IF home[s] = None THEN None ELSE [dept |-> home[s], order |-> 0]]
             P == [p \in Project |-> "row"]
  <1>2. db = [user |-> U, dept |-> D, stage |-> S, project |-> P, chat |-> chat, lead |-> lead, deal |-> deal]
    BY <1>1 DEF Starting, Company
  <1>3. U \in [User -> Opt(UserRow)] /\ \A u \in User : U[u] # None => U[u].active /\ (U[u].dft => u = du)
    <2>1. \A u \in User : in[u] # None => in[u] \in SUBSET Dept
      BY <1>1 DEF Opt
    <2> QED
      BY <2>1 DEF Opt, UserRow
  <1>4. D \in [Dept -> Opt(DeptRow)] /\ \A d \in Dept : D[d] # None => D[d].active /\ (D[d].dft => d = dd)
    BY DEF Opt, DeptRow
  <1>5. S \in [Stage -> Opt(StageRow)]
    <2>1. \A s \in Stage : home[s] # None => home[s] \in Dept
      BY <1>1 DEF Opt
    <2> QED
      BY <2>1 DEF Opt, StageRow
  <1>6. P \in [Project -> Opt({"row"})]
    BY DEF Opt
  <1> HIDE DEF U, D, S, P
  <1>7. db \in Tables
    BY <1>1, <1>2, <1>3, <1>4, <1>5, <1>6 DEF Tables
  <1>8. db.user = U /\ db.dept = D
    BY <1>2
  <1>9. Sound(db) /\ kanban = FALSE /\ task = [r \in Slot |-> Free] /\ gone = [x \in Numbered |-> {}] /\ overlaps = {}
    BY <1>1 DEF Starting
  <1>10. \E a, b : /\ \A u \in User : db.user[u] # None => db.user[u].active /\ (db.user[u].dft => u = a)
                   /\ \A d \in Dept : db.dept[d] # None => db.dept[d].active /\ (db.dept[d].dft => d = b)
    <2>1. /\ \A u \in User : db.user[u] # None => db.user[u].active /\ (db.user[u].dft => u = du)
          /\ \A d \in Dept : db.dept[d] # None => db.dept[d].active /\ (db.dept[d].dft => d = dd)
      BY <1>3, <1>4, <1>8
    <2> QED
      BY <2>1, Zenon
  <1> QED
    BY <1>7, <1>9, <1>10

LEMMA StartSound ==
  ASSUME OfficeInit
  PROVE  IInv
  <1>1. /\ db \in Tables /\ kanban = FALSE /\ task = [r \in Slot |-> Free] /\ gone = [x \in Numbered |-> {}]
        /\ \E du, dd : /\ \A u \in User : db.user[u] # None => db.user[u].active /\ (db.user[u].dft => u = du)
                       /\ \A d \in Dept : db.dept[d] # None => db.dept[d].active /\ (db.dept[d].dft => d = dd)
    BY StartIs
  <1>2. \A r \in Slot : task[r] = Free
    BY <1>1
  <1>3. Shape
    BY <1>1, <1>2, FreeIs DEF Shape, Whole
  <1>4. \A r \in Slot : \A n \in 1..4 : \A op : ~At(r, op, n)
    BY <1>2, FreeIs DEF At
  <1>5. \A r \in Slot : AskedAt(r) /\ ConvertAt(r) /\ StageAt(r) /\ DeleteAt(r) /\ \A t : MarksAt(t, r)
    <2>1. \A r \in Slot : task[r].step = 0
      BY <1>2, FreeIs
    <2>2. \A r \in Slot : AskedTeam(r) /\ AskedCrm(r) /\ AskedDesk(r)
      BY <2>1 DEF AskedTeam, AskedCrm, AskedDesk, At
    <2>3. \A r \in Slot : ConvertAt(r) /\ StageAt(r) /\ DeleteAt(r)
      BY <2>1 DEF ConvertAt, StageAt, DeleteAt, At
    <2>4. \A r \in Slot : \A t : MarksAt(t, r)
      BY <2>1 DEF MarksAt, At
    <2> QED
      BY <2>2, <2>3, <2>4 DEF AskedAt
  <1>6. /\ \A k \in Live("deal") : k \in Deal /\ db.deal[k] # None
        /\ \A l \in Live("lead") : l \in Lead /\ db.lead[l] # None
        /\ Live("user") \subseteq User /\ Live("dept") \subseteq Dept /\ db["user"] = db.user /\ db["dept"] = db.dept
        /\ \A s \in Stage : db.stage[s] # None => s \in Live("stage")
        /\ \A x \in Live("user") : db.user[x] # None
        /\ \A x \in Live("dept") : db.dept[x] # None
    BY <1>3, TablesAre DEF Live
  <1>7. \A k \in Live("deal") : /\ db.deal[k].here => db.chat # None
                                /\ db.deal[k].from = None
                                /\ db.deal[k].stage \in Stage
                                /\ db.stage[db.deal[k].stage] # None /\ db.stage[db.deal[k].stage].dept = db.deal[k].dept
    <2>1. \A k \in Live("deal") : db.deal[k].stage \in Stage
      BY <1>3, RowsAreRows DEF DealRow
    <2> QED
      BY <1>6, <2>1, StartIs DEF Sound
  <1>8. \A l \in Live("lead") : db.lead[l].deal = None /\ (db.lead[l].here => db.chat # None)
    BY <1>6, StartIs DEF Sound
  <1>9. Asked
    BY <1>5, <1>7, <1>8 DEF Asked
  <1>10. ASSUME NEW t \in {"user", "dept"} PROVE MarksSound(t)
    <2>1. PICK du, dd : /\ \A u \in User : db.user[u] # None => db.user[u].active /\ (db.user[u].dft => u = du)
                        /\ \A d \in Dept : db.dept[d] # None => db.dept[d].active /\ (db.dept[d].dft => d = dd)
      BY <1>1
    <2>2. \A x \in Live("user") : db.user[x].active /\ (db.user[x].dft => x = du)
      BY <1>6, <2>1
    <2>3. \A x \in Live("dept") : db.dept[x].active /\ (db.dept[x].dft => x = dd)
      BY <1>6, <2>1
    <2>4. (\A x \in Live(t) : db[t][x].active) /\ \E a : \A x \in Live(t) : (db[t][x].dft => x = a)
      <3>1. CASE t = "user"
        BY <1>6, <2>2, <3>1
      <3>2. CASE t = "dept"
        BY <1>6, <2>3, <3>2
      <3> QED
        BY <3>1, <3>2
    <2> QED
      BY <1>5, <2>4 DEF MarksSound, OneDefault, ActiveDefault, Defaults
  <1>11. ConversionSound
    <2>1. None \notin Live("lead")
      BY <1>6, TablesAssumption
    <2> QED
      BY <1>5, <1>7, <1>8, <2>1 DEF ConversionSound, FromLeads, MarkedBack, OneDeal
  <1>12. StagesSound
    <2>1. DealInPipeline
      BY <1>6, <1>7 DEF DealInPipeline, InPipeline, StagesOf
    <2>2. ASSUME db.chat # None, db.chat.stage # None PROVE InPipeline(db.chat.stage, db.chat.dept)
      <3>1. db.chat.stage \in Stage
        BY <1>3, <2>2, TablesAre DEF Opt, ChatRow
      <3>2. db.stage[db.chat.stage] # None /\ db.stage[db.chat.stage].dept = db.chat.dept
        BY <2>2, StartIs DEF Sound
      <3> QED
        BY <1>6, <3>1, <3>2 DEF InPipeline, StagesOf
    <2> QED
      BY <1>5, <2>1, <2>2 DEF StagesSound, StageOfItsDepartment
  <1>13. DeletesSound
    BY <1>5 DEF DeletesSound
  <1> QED
    BY <1>3, <1>9, <1>10, <1>11, <1>12, <1>13 DEF IInv

LEMMA IInvStep ==
  ASSUME IInv, [OfficeNext]_officeVars
  PROVE  IInv' /\ DeletesEmpty
  <1>1. Shape' /\ Asked'
    BY AskedStep DEF IInv
  <1>2. \A t \in {"user", "dept"} : MarksSound(t)'
    BY MarksStep DEF IInv, Markable
  <1>3. ConversionSound' /\ StagesSound' /\ DeletesSound' /\ DeletesEmpty
    BY <1>1, ConversionStep, StagesStep, DeletesStep, EmptyStep DEF IInv
  <1> QED
    BY <1>1, <1>2, <1>3 DEF IInv

LEMMA IInvHolds == OfficeSpec => []IInv
  <1>1. IInv /\ [OfficeNext]_officeVars => IInv'
    BY IInvStep
  <1> QED
    BY <1>1, StartSound, PTL DEF OfficeSpec

\* A set without two different members has at most one.
LEMMA AtMostOne ==
  ASSUME NEW S, \A x, y \in S : x = y
  PROVE  Cardinality(S) <= 1
  <1>1. CASE S = {}
    BY <1>1, FS_EmptySet
  <1>2. ASSUME NEW x \in S PROVE Cardinality(S) <= 1
    <2>1. S = {x}
      OBVIOUS
    <2> QED
      BY <2>1, FS_Singleton
  <1> QED
    BY <1>1, <1>2
-----------------------------------------------------------------------------
\* A company never has two default agents or departments, nor an inactive one, for
\* any requests at once, unless two choices of a default overlapped, or a choice and
\* a deactivation (setDefaultAgent, setDefaultDepartment, team.service.ts).
THEOREM DefaultsHold == OfficeSpec => []DefaultsAreSound
  <1>1. ASSUME IInv, NEW t \in {"user", "dept"}
        PROVE  /\ Overlapped(DefaultOp[t], DefaultOp[t]) \/ Cardinality(Defaults(t)) <= 1
               /\ \/ Overlapped(DefaultOp[t], Update[t]) \/ Overlapped(Update[t], DefaultOp[t])
                  \/ \A x \in Defaults(t) : db[t][x].active
    <2>1. MarksSound(t)
      BY <1>1 DEF IInv
    <2> QED
      BY <2>1, AtMostOne DEF MarksSound, OneDefault, ActiveDefault
  <1>2. \A t \in {"user", "dept"} : Update[t] = IF t = "user" THEN "updateUser" ELSE "updateDepartment"
    BY DEF Update
  <1>3. IInv => DefaultsAreSound
    BY <1>1, <1>2 DEF DefaultsAreSound
  <1> QED
    BY <1>3, IInvHolds, PTL

\* A prospect is never two deals, for any requests at once, unless two conversions
\* overlapped or one stopped half-way (convert, leads.service.ts).
THEOREM ConvertedOnceHolds == OfficeSpec => []ConvertedOnce
  <1>1. ASSUME IInv, ~Overlapped("convert", "convert"), NEW l \in Live("lead") \ torn
        PROVE  Cardinality({k \in Live("deal") : db.deal[k].from = l}) <= 1
    <2>1. \A j, k \in {k \in Live("deal") : db.deal[k].from = l} : j = k
      BY <1>1 DEF IInv, ConversionSound, OneDeal
    <2> QED
      BY <2>1, AtMostOne
  <1>2. IInv => ConvertedOnce
    BY <1>1 DEF ConvertedOnce
  <1> QED
    BY <1>2, IInvHolds, PTL

\* Every deal stands in a stage of its department, and the chat in one of its own but
\* for the Kanban and for changes of the chat that overlapped: whatever was read is
\* written late, but a stage never changes its department and an id never comes back
\* (deals.service.ts, leads.service.ts, conversations.service.ts, team.service.ts).
THEOREM StagesFitHolds == OfficeSpec => []StagesFit
  <1>1. IInv => StagesFit
    BY DEF IInv, StagesSound, StagesFit
  <1> QED
    BY <1>1, IInvHolds, PTL

\* A department or a project that goes was empty, unless somebody joined it between
\* the count and the delete (deleteDepartment, deleteProject, team.service.ts).
THEOREM DeletesOnlyEmptyHolds == OfficeSpec => DeletesOnlyEmpty
  <1>1. IInv /\ [OfficeNext]_officeVars => [DeletesEmpty]_officeVars
    BY IInvStep
  <1> QED
    BY <1>1, IInvHolds, PTL DEF OfficeSpec, DeletesOnlyEmpty
=============================================================================
