--------------------------------- MODULE Crm ---------------------------------
(***************************************************************************)
(* LeadsService and DealsService: prospects, deals on the Kanban of a      *)
(* department, the conversion of one into the other, and the stage a deal  *)
(* shares with the chat it came from.  And where that chat stands in the   *)
(* company, which ConversationsService.updateStage and update change       *)
(* (department, agent, project), and the widget that opens one with the    *)
(* defaults of the company.  An agent restricted to some departments sees  *)
(* fewer chats; since one with no restriction may do the same requests,    *)
(* the restriction adds no behaviour and is left out.                      *)
(***************************************************************************)
EXTENDS CompanyTables

NewDeal(k) == Fresh("deal", k) /\ \A j \in Live("deal") : j < k

CreateLead(r, l, d) ==
  /\ Fresh("lead", l) /\ Refers(d, "dept")
  /\ Look(r, "createLead", l, [dept |-> d, deal |-> None, here |-> FALSE])

WriteLead(r) ==
  /\ At(r, "createLead", 1)
  /\ EndsIf(Fresh("lead", task[r].arg) /\ Refers(task[r].seen.dept, "dept"), r,
       [db EXCEPT !.lead[task[r].arg] = task[r].seen])

UpdateLead(r, l, d) == l \in Live("lead") /\ Refers(d, "dept") /\ Look(r, "updateLead", [lead |-> l, dept |-> d], None)

WriteLeadUpdate(r) ==
  LET l == task[r].arg.lead  d == task[r].arg.dept
  IN /\ At(r, "updateLead", 1)
     /\ EndsIf(l \in Live("lead") /\ Refers(d, "dept"), r, [db EXCEPT !.lead[l].dept = d])

RemoveLead(r, l) == l \in Live("lead") /\ Look(r, "removeLead", l, None)

WriteLeadRemoval(r) ==
  At(r, "removeLead", 1) /\ EndsIf(task[r].arg \in Live("lead"), r, [db EXCEPT !.lead[task[r].arg] = None])

ConvertAgain(r, l) ==
  /\ l \in Live("lead") /\ db.lead[l].dept # None
  /\ FirstStage(db.lead[l].dept) # None
  /\ Look(r, "convert", l, [dept |-> db.lead[l].dept, stage |-> FirstStage(db.lead[l].dept),
                            here |-> db.lead[l].here, from |-> l])

\* convert: the deal is created in the first stage of the department of the prospect,
\* and only then, in another statement, the prospect is marked with it.
Convert(r, l) ==
  /\ l \in Live("lead") /\ db.lead[l].deal = None /\ db.lead[l].dept # None
  /\ FirstStage(db.lead[l].dept) # None
  /\ Look(r, "convert", l, [dept |-> db.lead[l].dept, stage |-> FirstStage(db.lead[l].dept),
                            here |-> db.lead[l].here, from |-> l])

CreateDealOf(r, k) ==
  LET deal == task[r].seen
  IN /\ At(r, "convert", 1)
     /\ IF deal.dept \in Live("dept") /\ deal.stage \in Live("stage")
        THEN /\ NewDeal(k)
             /\ Writes(r, [db EXCEPT !.deal[k] = deal], [task[r] EXCEPT !.step = 2, !.seen = k])
             /\ UNCHANGED kanban
        ELSE Refused(r)

MarkConverted(r) ==
  LET l == task[r].arg  k == task[r].seen
  IN /\ At(r, "convert", 2)
     /\ EndsIf(l \in Live("lead") /\ k \in Live("deal"), r, [db EXCEPT !.lead[l].deal = k])

-----------------------------------------------------------------------------
InPipeline(s, d) == s \in StagesOf(d)

CreateDeal(r, d, s, here) ==
  /\ InPipeline(s, d) /\ (here => db.chat # None)
  /\ Look(r, "createDeal", None, [dept |-> d, stage |-> s, here |-> here, from |-> None])

WriteDeal(r, k) ==
  LET deal == task[r].seen
  IN /\ At(r, "createDeal", 1)
     /\ IF deal.dept \in Live("dept") /\ deal.stage \in Live("stage")
        THEN NewDeal(k) /\ Ends(r, [db EXCEPT !.deal[k] = deal])
        ELSE Refused(r)

\* The deal moves on the Kanban, and then so does the chat it came from.
UpdateDeal(r, k, s) ==
  /\ k \in Live("deal") /\ InPipeline(s, db.deal[k].dept)
  /\ Look(r, "updateDeal", [deal |-> k, stage |-> s], db.deal[k].here)

MoveDeal(r) ==
  LET k == task[r].arg.deal  s == task[r].arg.stage
  IN /\ At(r, "updateDeal", 1)
     /\ IF k \in Live("deal") /\ s \in Live("stage")
        THEN /\ Writes(r, [db EXCEPT !.deal[k].stage = s],
                       IF task[r].seen THEN [task[r] EXCEPT !.step = 2] ELSE Free)
             /\ UNCHANGED kanban
        ELSE Refused(r)

\* hydrate fails if the deal is gone by now.
MoveChatToo(r) ==
  LET s == task[r].arg.stage
  IN /\ At(r, "updateDeal", 2)
     /\ IF task[r].arg.deal \in Live("deal") /\ s \in Live("stage")
        THEN Writes(r, [db EXCEPT !.chat.stage = s], Free) /\ kanban' = TRUE
        ELSE Refused(r)

RemoveDeal(r, k) == k \in Live("deal") /\ Look(r, "removeDeal", k, None)

WriteDealRemoval(r) ==
  LET k == task[r].arg
  IN /\ At(r, "removeDeal", 1)
     /\ EndsIf(k \in Live("deal"), r,
          [db EXCEPT !.deal[k] = None,
                     !.lead = [l \in Lead |-> IF @[l] # None /\ @[l].deal = k THEN [@[l] EXCEPT !.deal = None] ELSE @[l]]])

-----------------------------------------------------------------------------
\* What a change of the chat leaves running after its answer: todo holds the
\* follow-ups not begun, found the row the one at work has looked up.
FollowUp(todo, stage, dept) == [todo |-> todo, stage |-> stage, dept |-> dept, found |-> None]

Follows(r, kind) == task[r].step = 2 /\ task[r].op \in {"updateStage", "updateChat"} /\ kind \in task[r].seen.todo

Skips(r, kind) ==
  LET left == task[r].seen.todo \ {kind}
  IN IF left = {} THEN Refused(r) ELSE Goes(r, 2, [task[r].seen EXCEPT !.todo = left])

FollowUpWrites(r, kind, tables) ==
  LET left == task[r].seen.todo \ {kind}
  IN /\ Writes(r, tables, IF left = {} THEN Free ELSE [task[r] EXCEPT !.step = 2, !.seen.todo = left])
     /\ UNCHANGED kanban

\* syncStageFromConversation: some deal of the chat, if the stage is in its pipeline.
SyncStage(r) ==
  LET s == task[r].seen.stage  here == {k \in Live("deal") : db.deal[k].here}
  IN /\ Follows(r, "stage")
     /\ IF here = {} THEN Skips(r, "stage")
        ELSE \E k \in here :
               IF s # None /\ db.deal[k].stage # s /\ InPipeline(s, db.deal[k].dept)
               THEN Goes(r, 3, [task[r].seen EXCEPT !.found = k])
               ELSE Skips(r, "stage")

SyncStageWrites(r) ==
  LET k == task[r].seen.found  s == task[r].seen.stage
  IN /\ task[r].step = 3
     /\ IF k \in Live("deal") /\ s \in Live("stage")
        THEN FollowUpWrites(r, "stage", [db EXCEPT !.deal[k].stage = s])
        ELSE Dies(r)

\* syncDepartmentFromConversation: some prospect of the chat not yet converted.
SyncDept(r) ==
  LET d == task[r].seen.dept
      open == {l \in Live("lead") : db.lead[l].here /\ db.lead[l].deal = None}
  IN /\ Follows(r, "dept")
     /\ IF open = {} THEN Skips(r, "dept")
        ELSE \E l \in open : IF db.lead[l].dept # d THEN Goes(r, 4, [task[r].seen EXCEPT !.found = l])
                                                    ELSE Skips(r, "dept")

SyncDeptWrites(r) ==
  LET l == task[r].seen.found  d == task[r].seen.dept
  IN /\ task[r].step = 4
     /\ IF l \in Live("lead") /\ Refers(d, "dept")
        THEN FollowUpWrites(r, "dept", [db EXCEPT !.lead[l].dept = d])
        ELSE Dies(r)

-----------------------------------------------------------------------------
CrmLooks(r) ==
  /\ Ready(r)
  /\ \/ \E l \in Lead, d \in Dept \cup {None} : CreateLead(r, l, d) \/ UpdateLead(r, l, d)
     \/ \E l \in Lead : RemoveLead(r, l) \/ Convert(r, l)
     \/ \E d \in Dept, s \in Stage, here \in BOOLEAN : CreateDeal(r, d, s, here)
     \/ \E k \in Deal, s \in Stage : UpdateDeal(r, k, s)
     \/ \E k \in Deal : RemoveDeal(r, k)

CrmWrites(r) ==
  \/ WriteLead(r) \/ WriteLeadUpdate(r) \/ WriteLeadRemoval(r) \/ MarkConverted(r)
  \/ \E k \in Deal : CreateDealOf(r, k) \/ WriteDeal(r, k)
  \/ MoveDeal(r) \/ MoveChatToo(r) \/ WriteDealRemoval(r)
  \/ SyncStage(r) \/ SyncStageWrites(r) \/ SyncDept(r) \/ SyncDeptWrites(r)

-----------------------------------------------------------------------------
(* The chat. *)

UpdateStage(r, s) ==
  /\ db.chat # None
  /\ s # None => s \in Live("stage") /\ db.stage[s].dept = db.chat.dept
  /\ Look(r, "updateStage", s, None)

WriteStageOfChat(r) ==
  LET s == task[r].arg
  IN /\ At(r, "updateStage", 1)
     /\ IF Refers(s, "stage")
        THEN /\ Writes(r, [db EXCEPT !.chat.stage = s],
                       IF s = None THEN Free ELSE [task[r] EXCEPT !.step = 2, !.seen = FollowUp({"stage"}, s, None)])
             /\ kanban' = FALSE
        ELSE Refused(r)

\* change is [dept, user, project], Same where the request leaves the field alone.
\* An agent brings the department along, if it is in exactly one and none was given.
Same == "same"

DeptOf(change) ==
  IF change.user = Same \/ change.dept # Same THEN change.dept
  ELSE LET in == db.user[change.user].in IN IF Cardinality(in) = 1 THEN CHOOSE d \in in : TRUE ELSE Same

UpdateChat(r, change) ==
  /\ db.chat # None
  /\ change.user # Same => change.user \in Live("user") /\ db.user[change.user].active
  /\ LET d == DeptOf(change)
         moved == d # Same /\ d # db.chat.dept
     IN /\ d \notin {Same, None} => d \in Live("dept") /\ db.dept[d].active
        /\ change.project \notin {Same, None} => change.project \in Live("project")
        /\ Look(r, "updateChat", [dept |-> d, project |-> change.project],
                [moved |-> moved, stage |-> IF moved /\ d # None THEN FirstStage(d) ELSE None])

WriteChatKeepingStage(r) ==
  LET d == task[r].arg.dept  p == task[r].arg.project
  IN /\ At(r, "updateChat", 1)
     /\ IF (d = Same \/ Refers(d, "dept")) /\ (p = Same \/ Refers(p, "project"))
        THEN /\ Writes(r, [db EXCEPT !.chat.dept = IF d = Same THEN @ ELSE d], Free)
             /\ UNCHANGED kanban
        ELSE Refused(r)

WriteChat(r) ==
  LET d == task[r].arg.dept  p == task[r].arg.project  s == task[r].seen.stage  moved == task[r].seen.moved
  IN /\ At(r, "updateChat", 1)
     /\ IF (d = Same \/ Refers(d, "dept")) /\ (p = Same \/ Refers(p, "project")) /\ Refers(s, "stage")
        THEN /\ Writes(r, [db EXCEPT !.chat = [dept |-> IF d = Same THEN @.dept ELSE d,
                                               stage |-> IF moved THEN s ELSE @.stage,
                                               project |-> IF p = Same THEN @.project ELSE p]],
                       IF moved THEN [task[r] EXCEPT !.step = 2, !.seen = FollowUp({"stage", "dept"}, s, d)] ELSE Free)
             /\ kanban' = (kanban /\ ~moved)
        ELSE Refused(r)

-----------------------------------------------------------------------------
\* The first message of a visitor: the chat gets the active default department,
\* and a prospect in the same department.  The chat is unique.
OpenChat(r, l) ==
  /\ db.chat = None /\ Fresh("lead", l)
  /\ LET dft == {d \in Live("dept") : db.dept[d].dft /\ db.dept[d].active}
     IN \E d \in IF dft = {} THEN {None} ELSE dft : Look(r, "openChat", l, d)

WriteNewChat(r) ==
  LET d == task[r].seen
  IN /\ At(r, "openChat", 1)
     /\ IF db.chat = None /\ Refers(d, "dept")
        THEN /\ Writes(r, [db EXCEPT !.chat = [dept |-> d, stage |-> None, project |-> None]],
                       [task[r] EXCEPT !.step = 2])
             /\ kanban' = FALSE
        ELSE Refused(r)

WriteLeadOfChat(r) ==
  /\ At(r, "openChat", 2)
  /\ EndsIf(Refers(task[r].seen, "dept") /\ Fresh("lead", task[r].arg), r,
       [db EXCEPT !.lead[task[r].arg] = [dept |-> task[r].seen, deal |-> None, here |-> TRUE]])

-----------------------------------------------------------------------------
ChatChange ==
  {c \in [dept : Dept \cup {None, Same}, user : User \cup {Same}, project : Project \cup {None, Same}] :
     Cardinality({f \in DOMAIN c : c[f] # Same}) = 1}

DeskLooks(r) ==
  /\ Ready(r)
  /\ \/ \E s \in Stage \cup {None} : UpdateStage(r, s)
     \/ \E c \in ChatChange : UpdateChat(r, c)
     \/ \E l \in Lead : OpenChat(r, l)

DeskWrites(r) ==
  WriteStageOfChat(r) \/ WriteChat(r) \/ WriteNewChat(r) \/ WriteLeadOfChat(r)
=============================================================================
