----------------------------- MODULE PanelAccess -----------------------------
(***************************************************************************)
(* Which modules of the panel a person may use is worked out twice: by the *)
(* guard of the API at every request (module-access.guard.ts), and by the  *)
(* menu of the page from the profile it loads (app-shell.tsx).  Both read  *)
(* the tables anew, so that what an administrator changes takes effect     *)
(* without a new login; the role is the one in the token.                  *)
(***************************************************************************)
EXTENDS Naturals

CONSTANTS
  Module,         \* keys of modules; each has a page
  Inner, Outer,   \* the page of Inner lies under the path of Outer
  MaxAmendments,  \* bound: changes to the tables
  MaxVisits,      \* bound: pages opened
  None

AccessAssumption ==
  /\ Inner \in Module /\ Outer \in Module /\ Inner # Outer
  /\ MaxAmendments \in Nat /\ MaxVisits \in Nat /\ None \notin Module

VARIABLES
  firm,           \* modules of its plan, of its own exception, and whether its licence ended
  allowedModules, \* of the person
  role,           \* of the token
  menu,           \* effectiveModules of the page
  profileDue,     \* is the profile on its way?
  at,             \* the page shown, None for "Mi Plan"
  followed,       \* history: the link of the menu that was clicked last, if one was
  outdated,       \* history: have the tables changed since the menu was made?
  amendments, visits

accessVars == <<firm, allowedModules, role, menu, profileDue, at, followed, outdated, amendments, visits>>

Role == {"SUPERADMIN", "OWNER", "AGENT"}   \* ADMIN and SUPERVISOR are treated as OWNER is

AccessTypeOK ==
  /\ firm \in [plan : SUBSET Module, overrides : SUBSET Module, expired : BOOLEAN]
  /\ allowedModules \subseteq Module /\ role \in Role /\ menu \subseteq Module
  /\ profileDue \in BOOLEAN /\ outdated \in BOOLEAN
  /\ at \in Module \cup {None} /\ followed \in Module \cup {None}
  /\ amendments \in 0..MaxAmendments /\ visits \in 0..MaxVisits

-----------------------------------------------------------------------------
(* The API.  An empty set of modules restricts nothing. *)

\* getAgentAccess: the exception of a company takes the place of its plan.
PlanModules == IF firm.overrides # {} THEN firm.overrides ELSE firm.plan

\* ModuleAccessGuard.canActivate
Opens(required) ==
  /\ ~firm.expired \/ role = "SUPERADMIN"
  /\ PlanModules = {} \/ required \cap PlanModules # {}
  /\ role # "AGENT" \/ allowedModules = {} \/ required \cap allowedModules # {}

\* getProfile does not know of the exception.
Profile == [role |-> role, allowedModules |-> allowedModules, planModules |-> firm.plan, licenseExpired |-> firm.expired]

\* updateCompany: the panel sends one field at a time; of a person, the modules only: a new role is in the next token.
EditCompany(modules) ==
  /\ amendments < MaxAmendments /\ amendments' = amendments + 1
  /\ \/ firm' = [firm EXCEPT !.plan = modules]
     \/ firm' = [firm EXCEPT !.overrides = modules]
     \/ firm' = [firm EXCEPT !.expired = ~@]
  /\ outdated' = TRUE
  /\ UNCHANGED <<allowedModules, role, menu, profileDue, at, followed, visits>>

EditPerson(modules) ==
  /\ amendments < MaxAmendments /\ amendments' = amendments + 1
  /\ allowedModules' = modules /\ outdated' = TRUE
  /\ UNCHANGED <<firm, role, menu, profileDue, at, followed, visits>>

-----------------------------------------------------------------------------
(* The page. *)

\* The menu made of a profile.
Effective(me) ==
  LET ceiling == IF me.planModules # {} THEN me.planModules ELSE Module IN
  IF me.licenseExpired /\ me.role # "SUPERADMIN" THEN {}
  ELSE IF me.role = "AGENT" /\ me.allowedModules # {} THEN ceiling \cap me.allowedModules
  ELSE ceiling

\* The first entry of the menu whose path the page has, or begins with.
EntryOf(page) == IF page = Inner THEN Outer ELSE page

\* Every page has a shell of its own, which shows all until the profile is there.
Visit(page) ==
  /\ visits < MaxVisits /\ visits' = visits + 1
  /\ menu' = Module /\ profileDue' = TRUE /\ at' = page
  /\ UNCHANGED <<firm, allowedModules, role, amendments>>

Follow(page) == page \in menu /\ Visit(page) /\ followed' = (IF profileDue THEN None ELSE page) /\ UNCHANGED outdated
Type(page) == Visit(page) /\ followed' = None /\ UNCHANGED outdated

\* The profile comes.  An effect leaves a page which is locked, for one with a shell of its own.
Answer ==
  /\ profileDue
  /\ LET modules == Effective(Profile) IN
     IF at # None /\ EntryOf(at) \notin modules
     THEN at' = None /\ menu' = Module /\ UNCHANGED profileDue
     ELSE menu' = modules /\ profileDue' = FALSE /\ UNCHANGED at
  /\ outdated' = FALSE
  /\ followed' = IF outdated THEN None ELSE followed
  /\ UNCHANGED <<firm, allowedModules, role, amendments, visits>>

\* The profile cannot be had: everything is shown.
ProfileFails ==
  /\ profileDue /\ profileDue' = FALSE
  /\ menu' = Module /\ outdated' = TRUE
  /\ UNCHANGED <<firm, allowedModules, role, at, followed, amendments, visits>>

AccessInit ==
  /\ firm \in [plan : SUBSET Module, overrides : {{}}, expired : {FALSE}]
  /\ allowedModules \in SUBSET Module /\ role \in Role
  /\ menu = Module /\ profileDue = TRUE /\ at = None /\ followed = None /\ outdated = TRUE
  /\ amendments = 0 /\ visits = 0

AccessNext ==
  \/ \E modules \in SUBSET Module : EditCompany(modules) \/ EditPerson(modules)
  \/ \E page \in Module : Follow(page) \/ Type(page)
  \/ Answer \/ ProfileFails

AccessSpec == AccessInit /\ [][AccessNext]_accessVars

-----------------------------------------------------------------------------
(* A menu made since the last change shows what the guard opens and hides  *)
(* what it refuses (app-shell.tsx:334-335, auth.service.ts:23-24), for     *)
(* every role, plan and restriction.  Excepted: a company with an          *)
(* exception of its own, which the profile leaves out.                     *)
MenuIsTheGuard ==
  ~profileDue /\ ~outdated /\ firm.overrides = {} => menu = {m \in Module : Opens({m})}

(* Nobody is thrown out of a page the guard opens by following the menu    *)
(* (app-shell.tsx:361-363 is for pages that are not in it).  Excepted: the *)
(* page under the path of a module the person has not.                     *)
LinksLead ==
  ~profileDue /\ ~outdated /\ followed # None /\ followed \in menu => at = followed \/ (followed = Inner /\ Outer \notin menu)

AccessIsOneRule == AccessTypeOK /\ MenuIsTheGuard /\ LinksLead
=============================================================================
