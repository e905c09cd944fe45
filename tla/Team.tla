-------------------------------- MODULE Team --------------------------------
(***************************************************************************)
(* TeamService: users, departments with their stages, projects, and the    *)
(* default agent and department that new conversations are given.          *)
(* Names, tags, knowledge entries and AI settings are rows that nothing    *)
(* else here depends on, and are left out.                                 *)
(***************************************************************************)
EXTENDS CompanyTables

DefaultOp == [user |-> "setDefaultAgent", dept |-> "setDefaultDepartment"]

Defaults(table) == {x \in Live(table) : db[table][x].dft}

\* setDefaultAgent and setDefaultDepartment have one shape: check the row, then in
\* one transaction clear the marks it finds and set its own.  Under READ COMMITTED
\* the marks it finds are the committed ones when the clearing statement runs.
SetDefault(r, table, x) ==
  x \in Live(table) /\ db[table][x].active /\ Look(r, DefaultOp[table], x, None)

ClearDefaults(r, table) == At(r, DefaultOp[table], 1) /\ Goes(r, 2, Defaults(table))

CommitDefaultOnly(r, table) ==
  /\ At(r, DefaultOp[table], 2)
  /\ EndsIf(task[r].arg \in Live(table), r, [db EXCEPT ![table][task[r].arg].dft = TRUE])

CommitDefault(r, table) ==
  /\ At(r, DefaultOp[table], 2)
  /\ EndsIf(task[r].arg \in Live(table), r,
       [db EXCEPT ![table] = [x \in DOMAIN @ |->
          IF @[x] = None THEN None
          ELSE [@[x] EXCEPT !.dft = x = task[r].arg \/ x \in Defaults(table) \ task[r].seen]]])

ClearDefaultAgent(r, u) == u \in Live("user") /\ Look(r, "clearDefaultAgent", u, None)

WriteClearDefaultAgent(r) ==
  At(r, "clearDefaultAgent", 1) /\ Ends(r, [db EXCEPT !.user[task[r].arg].dft = FALSE])

-----------------------------------------------------------------------------
\* The address is unique: a second creation of the same user is refused.
CreateUser(r, u, in) == u \notin Live("user") /\ in \subseteq Live("dept") /\ Look(r, "createUser", u, in)

WriteUser(r) ==
  LET u == task[r].arg  in == task[r].seen
  IN /\ At(r, "createUser", 1)
     /\ EndsIf(u \notin Live("user") /\ in \subseteq Live("dept"), r,
          [db EXCEPT !.user[u] = [active |-> TRUE, dft |-> FALSE, in |-> in]])

\* change is [active, in], None where the request leaves the field alone.  Whether
\* the mark of default must go is decided on the row as it was read.
UpdateUser(r, u, change) ==
  /\ u \in Live("user")
  /\ change.in # None => change.in \subseteq Live("dept")
  /\ Look(r, "updateUser", [user |-> u, change |-> change], db.user[u].dft)

WriteUserUpdate(r) ==
  LET u == task[r].arg.user  c == task[r].arg.change
  IN /\ At(r, "updateUser", 1)
     /\ EndsIf(c.in # None => c.in \subseteq Live("dept"), r,
          [db EXCEPT !.user[u] = [active |-> IF c.active = None THEN @.active ELSE c.active,
                                  dft |-> @.dft /\ ~(c.active = FALSE /\ task[r].seen),
                                  in |-> IF c.in = None THEN @.in ELSE c.in]])

-----------------------------------------------------------------------------
CreateDepartment(r, d) == d \notin Live("dept") /\ Look(r, "createDepartment", d, None)

WriteDepartment(r) ==
  /\ At(r, "createDepartment", 1)
  /\ EndsIf(task[r].arg \notin Live("dept"), r, [db EXCEPT !.dept[task[r].arg] = [active |-> TRUE, dft |-> FALSE]])

UpdateDepartment(r, d, active) ==
  d \in Live("dept") /\ Look(r, "updateDepartment", [dept |-> d, active |-> active], db.dept[d].dft)

WriteDepartmentUpdate(r) ==
  LET d == task[r].arg.dept  active == task[r].arg.active
  IN /\ At(r, "updateDepartment", 1)
     /\ EndsIf(d \in Live("dept"), r,
          [db EXCEPT !.dept[d] = [active |-> active, dft |-> @.dft /\ (active \/ ~task[r].seen)]])

DeleteUncounted(r, d) ==
  /\ d \in Live("dept") /\ Members(d) = {}
  /\ \A k \in Live("deal") : db.deal[k].dept # d
  /\ Look(r, "deleteDepartment", d, None)

\* Counted before: members, conversations, deals (and incidents, not modelled).
DeleteDepartment(r, d) ==
  /\ d \in Live("dept") /\ Members(d) = {}
  /\ db.chat # None => db.chat.dept # d
  /\ \A k \in Live("deal") : db.deal[k].dept # d
  /\ Look(r, "deleteDepartment", d, None)

WriteDepartmentDelete(r) ==
  LET d == task[r].arg
  IN /\ At(r, "deleteDepartment", 1)
     /\ EndsIf(d \in Live("dept") /\ \A k \in Live("deal") : db.deal[k].dept # d, r, SansDept(d))

SetDepartmentMembers(r, d, us) ==
  /\ d \in Live("dept")
  /\ \A u \in us : u \in Live("user") /\ db.user[u].active
  /\ Look(r, "setDepartmentMembers", [dept |-> d, users |-> us], None)

WriteMembers(r) ==
  LET d == task[r].arg.dept  us == task[r].arg.users
  IN /\ At(r, "setDepartmentMembers", 1)
     /\ EndsIf(us = {} \/ d \in Live("dept"), r,
          [db EXCEPT !.user = [u \in User |-> IF @[u] = None THEN None
                                              ELSE [@[u] EXCEPT !.in = IF u \in us THEN db.user[u].in \cup {d}
                                                                                    ELSE db.user[u].in \ {d}]]])

-----------------------------------------------------------------------------
CreateProject(r, p) == p \notin Live("project") /\ Look(r, "createProject", p, None)

WriteProject(r) == At(r, "createProject", 1) /\ Ends(r, [db EXCEPT !.project[task[r].arg] = "row"])

DeleteProject(r, p) ==
  /\ p \in Live("project") /\ (db.chat # None => db.chat.project # p)
  /\ Look(r, "deleteProject", p, None)

WriteProjectDelete(r) ==
  LET p == task[r].arg
  IN /\ At(r, "deleteProject", 1)
     /\ EndsIf(p \in Live("project"), r,
          [db EXCEPT !.project[p] = None,
                     !.chat = IF @ # None /\ @.project = p THEN [@ EXCEPT !.project = None] ELSE @])

-----------------------------------------------------------------------------
\* A new stage goes last: its order is how many there are.
CreateStage(r, s, d) ==
  /\ d \in Live("dept") /\ Fresh("stage", s) /\ \A t \in Live("stage") : t < s
  /\ Look(r, "createStage", [stage |-> s, dept |-> d], Cardinality(StagesOf(d)))

WriteStage(r) ==
  LET s == task[r].arg.stage  d == task[r].arg.dept
  IN /\ At(r, "createStage", 1)
     /\ EndsIf(d \in Live("dept") /\ Fresh("stage", s), r,
          [db EXCEPT !.stage[s] = [dept |-> d, order |-> task[r].seen]])

UpdateStageRow(r, s, order) == s \in Live("stage") /\ Look(r, "updateStageRow", [stage |-> s, order |-> order], None)

WriteStageUpdate(r) ==
  /\ At(r, "updateStageRow", 1)
  /\ EndsIf(task[r].arg.stage \in Live("stage"), r, [db EXCEPT !.stage[task[r].arg.stage].order = task[r].arg.order])

\* Only deals are counted: the chat of a deleted stage loses it.
DeleteStage(r, s) ==
  /\ s \in Live("stage") /\ \A k \in Live("deal") : db.deal[k].stage # s
  /\ Look(r, "deleteStage", s, None)

WriteStageDelete(r) ==
  LET s == task[r].arg
  IN /\ At(r, "deleteStage", 1)
     /\ EndsIf(s \in Live("stage") /\ \A k \in Live("deal") : db.deal[k].stage # s, r, SansStages(db, {s}))

-----------------------------------------------------------------------------
UserChange == [active : BOOLEAN, in : {None}] \cup [active : {None}, in : SUBSET Dept]

TeamLooks(r) ==
  /\ Ready(r)
  /\ \/ \E u \in User : SetDefault(r, "user", u) \/ ClearDefaultAgent(r, u)
     \/ \E u \in User, in \in SUBSET Dept : CreateUser(r, u, in)
     \/ \E u \in User, c \in UserChange : UpdateUser(r, u, c)
     \/ \E d \in Dept : SetDefault(r, "dept", d) \/ CreateDepartment(r, d) \/ DeleteDepartment(r, d)
     \/ \E d \in Dept, active \in BOOLEAN : UpdateDepartment(r, d, active)
     \/ \E d \in Dept, us \in SUBSET User : SetDepartmentMembers(r, d, us)
     \/ \E p \in Project : CreateProject(r, p) \/ DeleteProject(r, p)
     \/ \E s \in Stage, d \in Dept : CreateStage(r, s, d)
     \/ \E s \in Stage, n \in 0..1 : UpdateStageRow(r, s, n)
     \/ \E s \in Stage : DeleteStage(r, s)

TeamWrites(r) ==
  \/ \E t \in {"user", "dept"} : ClearDefaults(r, t) \/ CommitDefault(r, t)
  \/ WriteClearDefaultAgent(r) \/ WriteUser(r) \/ WriteUserUpdate(r)
  \/ WriteDepartment(r) \/ WriteDepartmentUpdate(r) \/ WriteDepartmentDelete(r) \/ WriteMembers(r)
  \/ WriteProject(r) \/ WriteProjectDelete(r)
  \/ WriteStage(r) \/ WriteStageUpdate(r) \/ WriteStageDelete(r)
=============================================================================
