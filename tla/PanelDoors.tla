------------------------------ MODULE PanelDoors ------------------------------
(***************************************************************************)
(* Every request of the panel passes a door: the guards of its controller, *)
(* which look at the role in the token and at the modules of the person.   *)
(* The pages look at the role the login stored, to offer a control or not, *)
(* and ask for their lists side by side, some of them under the module of  *)
(* another page.  Whether the menu shows a page is PanelAccess; here its   *)
(* menu is what the guard opens.  Routes with the same guards are one.     *)
(***************************************************************************)
EXTENDS Naturals

CONSTANTS
  Nowhere,
  Holdings,     \* bound: sets of modules a person may hold
  MaxLapses     \* bound: times they change

VARIABLES
  rank,         \* role of the token, and of the user the browser stored
  holds,        \* modules the guard opens to the person
  member,       \* is the person of the department of the incident?
  enrolled,     \* what the page knows of that
  stands,       \* the page shown
  awaiting,     \* its requests that were sent together, not yet answered
  arrived,      \* doors that answered its requests
  lapses, dated, \* history: changes of the tables, and whether one was since the page was opened
  pressed       \* the last control pressed, and whether its door opened

doorVars == <<rank, holds, member, enrolled, stands, awaiting, arrived, lapses, dated, pressed>>

-----------------------------------------------------------------------------
(* The doors. *)

Managers == {"OWNER", "ADMIN"}
Seniors == Managers \cup {"SUPERVISOR"}
Everyone == Seniors \cup {"AGENT", "SUPERADMIN"}
Vendor == {"SUPERADMIN"}

Door(roles, modules) == [roles |-> roles, modules |-> modules]
Open(roles) == Door(roles, {})

\* dashboard, conversations and the CRM look at the module only; automations at either of its two.
DashboardDoors == [dashboard |-> Door(Everyone, {"dashboard"})]
ConversationDoors == [conversations |-> Door(Everyone, {"conversations"})]
LeadDoors == [leads |-> Door(Everyone, {"crm-leads"})]
DealDoors == [deals |-> Door(Everyone, {"crm-deals"})]
PipelineDoors == [pipelines |-> Door(Everyone, {"crm-pipelines"})]
Flowing == {"automations-flows", "automations-templates"}
AutomationDoors == [flows |-> Door(Everyone, Flowing), flowEdits |-> Door(Seniors, Flowing)]

\* The rest looks at the role only, whatever the modules.
TeamDoors ==
  [team |-> Open(Everyone), teamEdits |-> Open(Managers), tagEdits |-> Open(Everyone),
   tagRemoval |-> Open(Seniors), assistant |-> Open(Managers)]
CalendarDoors == [calendar |-> Open(Everyone), calendarLink |-> Open(Managers)]
InstanceDoors == [instances |-> Open(Everyone), instanceEdits |-> Open(Managers)]
IncidentDoors == [incidents |-> Open(Everyone), incidentStatus |-> Open(Everyone)]
FeedbackDoors == [feedback |-> Open(Everyone), feedbackStatus |-> Open(Managers)]
QuickReplyDoors == [replies |-> Open(Everyone), replyEdits |-> Open(Seniors)]
StickerDoors == [stickers |-> Open(Everyone)]
AnnouncementDoors == [announcements |-> Open(Everyone), announcementEdits |-> Open(Vendor)]
CredentialDoors == [credentials |-> Open(Managers)]
BillingDoors == [billing |-> Open(Managers)]
ProfileDoors == [profile |-> Open(Everyone)]
AdminDoors == [admin |-> Open(Vendor)]
SettingsDoors == [settings |-> Open(Vendor)]

Tables ==
  {DashboardDoors, ConversationDoors, LeadDoors, DealDoors, PipelineDoors, AutomationDoors, TeamDoors, CalendarDoors,
   InstanceDoors, IncidentDoors, FeedbackDoors, QuickReplyDoors, StickerDoors, AnnouncementDoors, CredentialDoors,
   BillingDoors, ProfileDoors, AdminDoors, SettingsDoors}
Doors == [d \in UNION {DOMAIN table : table \in Tables} |-> (CHOOSE table \in Tables : d \in DOMAIN table)[d]]

\* RolesGuard and ModuleAccessGuard
RoleOpens(d) == rank \in Doors[d].roles
ModuleOpens(d) == Doors[d].modules = {} \/ Doors[d].modules \cap holds # {}
\* updateStatus of an incident looks at the department too.
Concerned(d) == d # "incidentStatus" \/ rank \in Managers \/ member
Opens(d) == RoleOpens(d) /\ ModuleOpens(d) /\ Concerned(d)

-----------------------------------------------------------------------------
(* The pages: the module that shows them in the menu, what they ask for    *)
(* when they or a dialog of theirs opens (what is in one set is awaited    *)
(* together, so that one refusal loses all of it), what they ask for once  *)
(* that has come, and the controls they offer to some roles only.          *)

Page(module, asks) == [module |-> module, asks |-> asks, then |-> {}, offers |-> <<>>]
Offering(page, offers) == [page EXCEPT !.offers = offers]

DashboardPage == Page("dashboard", {{"dashboard"}})
ConversationsPage ==
  Offering(Page("conversations", {{"conversations"}, {"team", "incidents", "replies", "calendar"}, {"leads"}, {"stickers"}, {"instances"}}),
           [assistant |-> Managers, tagRemoval |-> Seniors, replyEdits |-> Seniors, incidentStatus |-> Managers])
InstancesPage == Page("instances", {{"instances"}})
FlowsPage == Page("automations-flows", {{"flows"}, {"instances"}})
TemplatesPage == Page("automations-templates", {{"flows"}, {"instances"}})
TeamPage == Page("team", {{"team"}})
IncidentsPage == Offering(Page("incidents", {{"incidents", "team"}}), [incidentStatus |-> Managers])
CredentialsPage == Page("api-settings", {{"credentials"}, {"instances"}})
FeedbackPage == Offering(Page("feedback", {{"feedback"}}), [feedbackStatus |-> Managers])
\* The appointments are asked for once the state of the calendar is known.
CalendarPage == Offering([Page("calendar", {{"calendar", "team"}}) EXCEPT !.then = {"calendar"}], [calendarLink |-> Managers])
LeadsPage == Page("crm-leads", {{"team"}, {"leads"}})
DealsPage == Page("crm-deals", {{"team"}, {"pipelines"}, {"deals"}})
\* The deals of a department are asked for once there is one.
PipelinesPage == [Page("crm-pipelines", {{"pipelines"}}) EXCEPT !.then = {"deals"}]

\* "Mi Plan" is no page of a module; the menu shows it to an owner.
PlanPage == Page("none", {{"dashboard"}, {"billing"}})
\* What is about every page, and the dialog of the profile.
Shell == Offering(Page("none", {{"profile"}, {"instances"}, {"calendar"}}), [credentials |-> Managers, teamEdits |-> Managers])
\* The announcements are not asked for by the vendor.
Popup == Page("none", {{"announcements"}})

AdminPages ==
  [clients |-> Page("none", {{"admin"}}), announcements |-> Page("none", {{"announcements"}}), adminSettings |-> Page("none", {{"settings"}})]

CompanyPages ==
  [dashboard |-> DashboardPage, conversations |-> ConversationsPage, instances |-> InstancesPage, flows |-> FlowsPage,
   templates |-> TemplatesPage, team |-> TeamPage, incidents |-> IncidentsPage, credentials |-> CredentialsPage,
   feedback |-> FeedbackPage, calendar |-> CalendarPage, leads |-> LeadsPage, deals |-> DealsPage,
   pipelines |-> PipelinesPage, plan |-> PlanPage, shell |-> Shell, popup |-> Popup]
Pages ==
  [p \in DOMAIN CompanyPages \cup DOMAIN AdminPages |-> IF p \in DOMAIN AdminPages THEN AdminPages[p] ELSE CompanyPages[p]]

DoorsAssumption == Nowhere \notin DOMAIN Pages

-----------------------------------------------------------------------------
DoorsInit ==
  /\ rank \in Everyone /\ holds \in Holdings /\ member \in BOOLEAN /\ enrolled = FALSE
  /\ stands = Nowhere /\ awaiting = {} /\ arrived = {}
  /\ lapses = 0 /\ dated = FALSE /\ pressed = Nowhere

\* The menu, the two shells and the popup let the person to a page.
Shown(p) ==
  CASE p \in DOMAIN AdminPages -> rank \in Vendor
    [] p = "popup" -> rank \notin Vendor
    [] p = "plan" -> rank = "OWNER"
    [] p = "shell" -> TRUE
    [] OTHER -> Pages[p].module \in holds

Visit(p) ==
  /\ stands = Nowhere /\ Shown(p)
  /\ stands' = p /\ awaiting' = Pages[p].asks /\ dated' = FALSE
  /\ UNCHANGED <<rank, holds, member, enrolled, arrived, lapses, pressed>>

\* What a page asks for after its first answer is asked for then.
Following(asked) == IF asked \in Pages[stands].asks THEN {Pages[stands].then} \ {{}} ELSE {}
Answer(asked) ==
  /\ asked \in awaiting
  /\ IF \A d \in asked : Opens(d)
     THEN /\ arrived' = arrived \cup asked
          /\ awaiting' = (awaiting \ {asked}) \cup Following(asked)
          \* The members of the departments come with them.
          /\ enrolled' = IF "team" \in asked THEN member ELSE enrolled
     ELSE awaiting' = awaiting \ {asked} /\ UNCHANGED <<arrived, enrolled>>
  /\ UNCHANGED <<rank, holds, member, stands, lapses, dated, pressed>>

Offered(d) ==
  /\ stands # Nowhere /\ d \in DOMAIN Pages[stands].offers
  /\ rank \in Pages[stands].offers[d] \/ (d = "incidentStatus" /\ enrolled)
Press(d) ==
  /\ Offered(d) /\ pressed = Nowhere
  /\ pressed' = [door |-> d, opened |-> Opens(d)]
  /\ UNCHANGED <<rank, holds, member, enrolled, stands, awaiting, arrived, lapses, dated>>

\* An administrator changes what the person may use, or the licence ends.
Lapse ==
  /\ lapses < MaxLapses /\ lapses' = lapses + 1
  /\ \/ holds' \in Holdings /\ UNCHANGED member
     \/ member' = ~member /\ UNCHANGED holds
  /\ dated' = TRUE
  /\ UNCHANGED <<rank, enrolled, stands, awaiting, arrived, pressed>>

DoorsNext ==
  \/ \E p \in DOMAIN Pages : Visit(p)
  \/ \E asked \in awaiting : Answer(asked)
  \/ \E d \in DOMAIN Doors : Press(d)
  \/ Lapse

DoorsSpec == DoorsInit /\ [][DoorsNext]_doorVars

-----------------------------------------------------------------------------
Settled == stands # Nowhere /\ awaiting = {} /\ ~dated

(* A refusal loses nothing else: whatever a page asks for comes, if its    *)
(* door opens, whichever modules of other pages the person does without    *)
(* (conversations/page.tsx:952-954 says so of the CRM).                    *)
RefusalsStayAlone ==
  Settled => \A d \in (UNION Pages[stands].asks) \cup (IF UNION Pages[stands].asks \subseteq arrived THEN Pages[stands].then ELSE {}) :
               Opens(d) => d \in arrived

(* A page the menu shows gets what it asks for under its own module, and   *)
(* what is under none.  Excepted: the keys, which are the managers'.       *)
MenuLeadsToLists ==
  Settled /\ Pages[stands].module # "none" =>
    \A d \in (UNION Pages[stands].asks) \ {"credentials"} :
      Doors[d].modules = {} \/ Pages[stands].module \in Doors[d].modules => d \in arrived

(* Where a page looks at the role, it offers a control to those the guards *)
(* let through it and to no one else.                                      *)
ControlsAreTheDoors ==
  /\ pressed # Nowhere /\ ~dated => pressed.opened
  /\ Settled => \A d \in DOMAIN Pages[stands].offers : Opens(d) => Offered(d)

DoorsAgree == RefusalsStayAlone /\ MenuLeadsToLists /\ ControlsAreTheDoors
=============================================================================
