------------------------------- MODULE Office -------------------------------
(***************************************************************************)
(* The company as a whole: requests about the team, the Kanban and the     *)
(* chats, served at the same time over the same tables.                    *)
(***************************************************************************)
EXTENDS Team, Crm

\* What the tables of a company may hold before: everyone active, the default
\* agent and department, a chat, stages, prospects and deals that belong together.
Company(in, du, dd, home, chat, lead, deal) ==
  [user |-> [u \in User |-> IF in[u] = None THEN None ELSE [active |-> TRUE, dft |-> u = du, in |-> in[u]]],
   dept |-> [d \in Dept |-> [active |-> TRUE, dft |-> d = dd]],
   stage |-> [s \in Stage |-> IF home[s] = None THEN None ELSE [dept |-> home[s], order |-> 0]],
   project |-> [p \in Project |-> "row"],
   chat |-> chat, lead |-> lead, deal |-> deal]

Sound(t) ==
  LET stage(s, d) == t.stage[s] # None /\ t.stage[s].dept = d
  IN /\ \A s1, s2 \in Stage : s1 < s2 /\ t.stage[s1] = None => t.stage[s2] = None
     /\ t.chat # None /\ t.chat.stage # None => stage(t.chat.stage, t.chat.dept)
     /\ \A l \in Lead : t.lead[l] # None => t.lead[l].deal = None /\ (t.lead[l].here => t.chat # None)
     /\ \A k \in Deal : t.deal[k] # None =>
          /\ stage(t.deal[k].stage, t.deal[k].dept) /\ t.deal[k].from = None
          /\ t.deal[k].here => t.chat # None
          /\ \A j \in Deal : j < k => t.deal[j] # None

Starting(t) ==
  /\ db = t /\ Sound(t)
  /\ task = [r \in Slot |-> Free] /\ begun = 0 /\ crashes = 0
  /\ gone = [x \in Numbered |-> {}] /\ overlaps = {} /\ torn = {} /\ kanban = FALSE /\ died = {}

OfficeInit ==
  \E in \in [User -> Opt(SUBSET Dept)], du \in Opt(User), dd \in Opt(Dept), home \in [Stage -> Opt(Dept)],
     chat \in Opt(ChatRow), lead \in [Lead -> Opt(LeadRow)], deal \in [Deal -> Opt(DealRow)] :
    Starting(Company(in, du, dd, home, chat, lead, deal))

OfficeNext ==
  \/ \E r \in Slot : TeamLooks(r) \/ TeamWrites(r) \/ CrmLooks(r) \/ CrmWrites(r) \/ DeskLooks(r) \/ DeskWrites(r)
  \/ Crash

OfficeSpec == OfficeInit /\ [][OfficeNext]_officeVars

Overlapped(p, o) == <<p, o>> \in overlaps

-----------------------------------------------------------------------------
(***************************************************************************)
(* Properties.  Each names the overlaps of two requests that break it; no  *)
(* other interleaving of the handlers may.                                 *)
(***************************************************************************)
\* At most one default agent and one default department, and it is active:
\* setDefault*, and the updates that deactivate a row.
DefaultsAreSound ==
  \A t \in {"user", "dept"} :
    LET set == DefaultOp[t]
        update == IF t = "user" THEN "updateUser" ELSE "updateDepartment"
    IN /\ Overlapped(set, set) \/ Cardinality(Defaults(t)) <= 1
       /\ Overlapped(set, update) \/ Overlapped(update, set) \/ \A x \in Defaults(t) : db[t][x].active

\* A deal stands in a stage of its own department, whatever moves it: the Kanban,
\* the chat, a conversion, or stages that come and go.
DealInPipeline == \A k \in Live("deal") : InPipeline(db.deal[k].stage, db.deal[k].dept)

\* A prospect becomes one deal: convert refuses one already converted.
ConvertedOnce ==
  Overlapped("convert", "convert") \/
  \A l \in Live("lead") \ torn : Cardinality({k \in Live("deal") : db.deal[k].from = l}) <= 1

\* The stage of a chat belongs to the department of the chat, unless the Kanban put it there.
StageOfItsDepartment ==
  db.chat = None \/ db.chat.stage = None \/ kanban
    \/ Overlapped("updateStage", "updateChat") \/ Overlapped("updateChat", "updateChat")
    \/ InPipeline(db.chat.stage, db.chat.dept)

\* Deals and chats stand where the board of their department shows them.
StagesFit == DealInPipeline /\ StageOfItsDepartment

\* Deleting a department or a project takes nobody and no chat out of it: the
\* counts said it was empty.
DeletesEmpty ==
  /\ \A d \in Live("dept") :
       db'.dept[d] # None \/ (Members(d) = {} /\ (db.chat # None => db.chat.dept # d))
         \/ \E o \in {"createUser", "updateUser", "setDepartmentMembers", "updateChat", "openChat"} :
              <<"deleteDepartment", o>> \in overlaps'
  /\ \A p \in Live("project") :
       db'.project[p] # None \/ (db.chat # None => db.chat.project # p)
         \/ <<"deleteProject", "updateChat">> \in overlaps'

DeletesOnlyEmpty == [][DeletesEmpty]_officeVars
=============================================================================
