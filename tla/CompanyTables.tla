---------------------------- MODULE CompanyTables ----------------------------
(***************************************************************************)
(* The rows of ONE company that the requests of the panel read and write,  *)
(* and what a request is.  A handler first reads and checks (Look), then   *)
(* writes; between the two any other request may write.  A write that a    *)
(* foreign key or a missing row refuses ends the request (Refused).        *)
(*                                                                         *)
(* Team and Crm hold the handlers, Office composes them.                   *)
(***************************************************************************)
EXTENDS Naturals, FiniteSets

CONSTANTS User, Dept, Stage, Project, Lead, Deal, None,
          Slot,                \* bound: requests at once, numbered
          MaxOps, MaxCrash     \* bounds: requests in all, deaths of the API

ASSUME TablesAssumption ==
  /\ Stage \subseteq Nat /\ Deal \subseteq Nat /\ Slot \subseteq Nat /\ MaxOps \in Nat /\ MaxCrash \in Nat
  /\ None \notin User \cup Dept \cup Stage \cup Project \cup Lead \cup Deal /\ IsFiniteSet(Stage)

VARIABLES db,         \* the tables
          task,       \* the request each slot is serving
          begun, crashes,
          gone,       \* history: ids of deleted rows
          overlaps,   \* history: <<p, o>>, a p wrote when an o had written, or was to, what p had not seen
          torn,       \* history: prospects whose conversion stopped half-way
          kanban,     \* history: the stage of the chat was last written from the Kanban
          died        \* history: what a follow-up missed that then brought the API down

officeVars == <<db, task, begun, crashes, gone, overlaps, torn, kanban, died>>

-----------------------------------------------------------------------------
UserRow == [active : BOOLEAN, dft : BOOLEAN, in : SUBSET Dept]
DeptRow == [active : BOOLEAN, dft : BOOLEAN]
StageRow == [dept : Dept, order : Nat]
ChatRow == [dept : Dept \cup {None}, stage : Stage \cup {None}, project : Project \cup {None}]
\* here: the row belongs to the chat.  from (history): the prospect a deal was made of.
LeadRow == [dept : Dept \cup {None}, deal : Deal \cup {None}, here : BOOLEAN]
DealRow == [dept : Dept, stage : Stage, here : BOOLEAN, from : Lead \cup {None}]

ASSUME NoRowAssumption ==
  None \notin UserRow \cup DeptRow \cup StageRow \cup {"row"} \cup ChatRow \cup LeadRow \cup DealRow

Opt(row) == row \cup {None}

Live(table) == {x \in DOMAIN db[table] : db[table][x] # None}

\* A stage, a prospect or a deal gets an id (a cuid) that none had before.
Numbered == {"stage", "lead", "deal"}
Fresh(table, x) == x \notin Live(table) \cup gone[table]

OfficeTypeOK ==
  /\ db.user \in [User -> Opt(UserRow)] /\ db.dept \in [Dept -> Opt(DeptRow)]
  /\ db.stage \in [Stage -> Opt(StageRow)] /\ db.project \in [Project -> Opt({"row"})]
  /\ db.chat \in Opt(ChatRow)
  /\ db.lead \in [Lead -> Opt(LeadRow)] /\ db.deal \in [Deal -> Opt(DealRow)]
  /\ \A r \in Slot : task[r].step \in 0..4
  /\ begun \in 0..MaxOps /\ crashes \in 0..MaxCrash /\ torn \subseteq Lead /\ kanban \in BOOLEAN

\* A reference is None or names a live row: what the foreign keys of the schema say.
Refers(x, table) == x = None \/ x \in Live(table)

StagesOf(d) == {s \in Live("stage") : db.stage[s].dept = d}

\* findFirst orderBy [order, createdAt]: stages are numbered as they are created.
FirstStage(d) ==
  IF StagesOf(d) = {} THEN None
  ELSE CHOOSE s \in StagesOf(d) : \A t \in StagesOf(d) \ {s} :
         \/ db.stage[s].order < db.stage[t].order
         \/ db.stage[s].order = db.stage[t].order /\ s < t

Members(d) == {u \in Live("user") : d \in db.user[u].in}

\* deleteDepartment takes the stages and memberships along (Cascade), the chat
\* and the prospects lose the reference (SetNull), a deal forbids it (Restrict).
SansStages(t, ss) ==
  [t EXCEPT !.stage = [s \in Stage |-> IF s \in ss THEN None ELSE @[s]],
            !.chat = IF @ # None /\ @.stage \in ss THEN [@ EXCEPT !.stage = None] ELSE @]

SansDept(d) ==
  LET t == SansStages(db, StagesOf(d))
  IN [t EXCEPT !.dept[d] = None,
               !.user = [u \in User |-> IF @[u] = None THEN None ELSE [@[u] EXCEPT !.in = db.user[u].in \ {d}]],
               !.chat = IF @ # None /\ @.dept = d THEN [@ EXCEPT !.dept = None] ELSE @,
               !.lead = [l \in Lead |-> IF @[l] # None /\ @[l].dept = d THEN [@[l] EXCEPT !.dept = None] ELSE @[l]]]

-----------------------------------------------------------------------------
Free == [op |-> None, step |-> 0, arg |-> None, seen |-> None, since |-> {}]

At(r, op, n) == task[r].op = op /\ task[r].step = n

\* Slots are alike: the first free one serves.
Ready(r) == begun < MaxOps /\ task[r] = Free /\ \A q \in Slot : q < r => task[q] # Free

\* A request arrives, reads and passes its checks.  It may miss what another one,
\* half-way, has still to write.
Look(r, op, arg, seen) ==
  /\ begun' = begun + 1
  /\ task' = [task EXCEPT ![r] = [op |-> op, step |-> 1, arg |-> arg, seen |-> seen,
                              since |-> {task[q].op : q \in {x \in Slot : task[x].step > 1}}]]
  /\ UNCHANGED <<db, crashes, gone, overlaps, torn, kanban, died>>

Goes(r, n, seen) ==
  /\ task' = [task EXCEPT ![r].step = n, ![r].seen = seen]
  /\ UNCHANGED <<db, begun, crashes, gone, overlaps, torn, kanban, died>>

\* A write: every other request under way has now read before it.
Writes(r, tables, next) ==
  /\ db' = tables
  /\ gone' = [t \in Numbered |-> gone[t] \cup {x \in Live(t) : tables[t][x] = None}]
  /\ task' = [q \in Slot |-> IF q = r THEN next
                             ELSE IF task[q] = Free THEN Free ELSE [task[q] EXCEPT !.since = @ \cup {task[r].op}]]
  /\ overlaps' = overlaps \cup {<<task[r].op, o>> : o \in task[r].since}
  /\ UNCHANGED <<begun, crashes, torn, died>>

Ends(r, tables) == Writes(r, tables, Free) /\ UNCHANGED kanban

Refused(r) == task' = [task EXCEPT ![r] = Free] /\ UNCHANGED <<db, begun, crashes, gone, overlaps, torn, kanban, died>>

\* A write that needs the condition to hold when it reaches the database.
EndsIf(cond, r, tables) == IF cond THEN Ends(r, tables) ELSE Refused(r)

AllLost ==
  /\ torn' = torn \cup {task[r].arg : r \in {x \in Slot : At(x, "convert", 2)}}
  /\ task' = [r \in Slot |-> Free]
  /\ UNCHANGED <<db, begun, gone, overlaps, kanban>>

\* The API dies: every request and every unfinished follow-up is lost.
Crash ==
  /\ crashes < MaxCrash /\ \E r \in Slot : task[r] # Free
  /\ crashes' = crashes + 1
  /\ AllLost /\ UNCHANGED died

\* A promise nobody awaits is rejected: nothing handles it, and Node ends the process.
Dies(r) == died' = died \cup task[r].since \cup {task[r].op} /\ AllLost /\ UNCHANGED crashes
=============================================================================
