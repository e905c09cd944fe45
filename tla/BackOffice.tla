----------------------------- MODULE BackOffice -----------------------------
(***************************************************************************)
(* What a company and its vendor tend apart from the chats: accounts,      *)
(* plans and payments, the calendar, the flows they draw and try, the      *)
(* bubble on their site, the scripts that join duplicate contacts, and the *)
(* panel: who is logged in, what its menu and its pages open, whether its  *)
(* lists are true, and its reports.                                        *)
(* The models share no state, so a behaviour is one of a part, and the     *)
(* others rest.                                                            *)
(***************************************************************************)
EXTENDS Billing, Accounts, FlowSimulator, Reports, PanelDoors

CONSTANTS
  Account, Appointment, Caller, MaxConnects, MaxCalls, MaxFaults,             \* CalendarBook
  Oldest, Line, Kind,                                                         \* MergeContacts
  Tab, Box, Option, Block, MaxWork, MaxFiles, MaxClicks,                      \* FlowEditor
  MaxGestures, MaxReady,                                                      \* Bubble
  Module, Inner, Outer, MaxAmendments, MaxVisits,                             \* PanelAccess
  Person, Staff, MaxLogins, MaxRequests,                                      \* BrowserSession
  MaxExchanges, MaxOthers, MaxDrops                                           \* PanelLists

VARIABLES
  integration, granted, google, appointments, call, connects, calls, faults, apart,
  tool, people, owner, unread, place, home, step, survivor, losers, waiting, clash, begun, late,
  saved, drawing, sending, spent,
  opened, minimized, mobile, minimizeAllowed, seen, due, loaded, gestures, covered,
  firm, allowedModules, role, menu, profileDue, at, followed, outdated, amendments, visits,
  shared, own, copy, page, banner, asked, warned, lapsed, chosen, mixed, crossed, left, logins, requests,
  screen, table, filter, shown, exchanges, clock, used, socket, news, others, drops, excused,
  blocks, uploading, pending, uploads, picked, doubled, files, clicks, seconds, unit, before,
  part      \* the part at work

Calendar == INSTANCE CalendarBook
Merge == INSTANCE MergeContacts
Flows == INSTANCE FlowEditor
Site == INSTANCE Bubble
Menu == INSTANCE PanelAccess
Browser == INSTANCE BrowserSession
Lists == INSTANCE PanelLists

ASSUME BackOfficeAssumption ==
  /\ Calendar!CalendarAssumption /\ Merge!MergeAssumption
  /\ Flows!FlowEditorAssumption /\ Flows!ContentAssumption /\ Site!BubbleAssumption
  /\ AccountsAssumption /\ Menu!AccessAssumption
  /\ Browser!SessionAssumption /\ Lists!ListsAssumption
  /\ SimulatorAssumption /\ ReportsAssumption /\ DoorsAssumption

calendarVars == <<integration, granted, google, appointments, call, connects, calls, faults, apart>>
mergeVars == <<tool, people, owner, unread, place, home, step, survivor, losers, waiting, clash, begun, late>>
editorVars == <<saved, drawing, sending, spent>>
bubbleVars == <<opened, minimized, mobile, minimizeAllowed, seen, due, loaded, gestures, covered>>
accessVars == <<firm, allowedModules, role, menu, profileDue, at, followed, outdated, amendments, visits>>
browserVars == <<shared, own, copy, page, banner, asked, warned, lapsed, chosen, mixed, crossed, left, logins, requests>>
listVars == <<screen, table, filter, shown, exchanges, clock, used, socket, news, others, drops, excused>>
contentVars == <<blocks, uploading, pending, uploads, picked, doubled, files, clicks, seconds, unit, before>>
allVars ==
  <<vars, calendarVars, mergeVars, editorVars, bubbleVars, accountVars, accessVars, browserVars, listVars,
    simulatorVars, contentVars, reportVars, doorVars, part>>

\* How a part rests: nobody bought anything, nobody came, and no values at all.
BillingRests == Init /\ company.plan = None
CalendarRests ==
  /\ integration = 0 /\ granted = 0 /\ google = 0 /\ appointments = 0 /\ call = 0
  /\ connects = 0 /\ calls = 0 /\ faults = 0 /\ apart = 0
MergeRests ==
  /\ tool = 0 /\ people = 0 /\ owner = 0 /\ unread = 0 /\ place = 0 /\ home = 0 /\ step = 0
  /\ survivor = 0 /\ losers = 0 /\ waiting = 0 /\ clash = 0 /\ begun = 0 /\ late = 0
FlowsRest == saved = 0 /\ drawing = 0 /\ sending = 0 /\ spent = 0
SiteRests ==
  /\ opened = 0 /\ minimized = 0 /\ mobile = 0 /\ minimizeAllowed = 0 /\ seen = 0 /\ due = 0
  /\ loaded = 0 /\ gestures = 0 /\ covered = 0
LoginRests ==
  AccountsInit /\ offered = {CHOOSE p \in Offer : TRUE} /\ address = CHOOSE f \in Injection(Google, Email) : TRUE
MenuRests ==
  /\ firm = 0 /\ allowedModules = 0 /\ role = 0 /\ menu = 0 /\ profileDue = 0 /\ at = 0
  /\ followed = 0 /\ outdated = 0 /\ amendments = 0 /\ visits = 0
BrowserRests ==
  /\ shared = 0 /\ own = 0 /\ copy = 0 /\ page = 0 /\ banner = 0 /\ asked = 0 /\ warned = 0 /\ lapsed = 0
  /\ chosen = 0 /\ mixed = 0 /\ crossed = 0 /\ left = 0 /\ logins = 0 /\ requests = 0
ListsRest ==
  /\ screen = 0 /\ table = 0 /\ filter = 0 /\ shown = 0 /\ exchanges = 0 /\ clock = 0 /\ used = 0
  /\ socket = 0 /\ news = 0 /\ others = 0 /\ drops = 0 /\ excused = 0
TrialRests ==
  /\ flow = 0 /\ written = 0 /\ tried = 0 /\ live = 0 /\ off = 0 /\ parted = 0 /\ texts = 0 /\ touches = 0
NodeRests ==
  /\ blocks = 0 /\ uploading = 0 /\ pending = 0 /\ uploads = 0 /\ picked = 0 /\ doubled = 0
  /\ files = 0 /\ clicks = 0 /\ seconds = 0 /\ unit = 0 /\ before = 0
FiguresRest ==
  /\ instant = 0 /\ zone = 0 /\ talk = 0 /\ threads = 0 /\ active = 0 /\ period = 0 /\ picks = 0
DoorwayRests ==
  /\ rank = 0 /\ holds = 0 /\ member = 0 /\ enrolled = 0 /\ stands = 0 /\ awaiting = 0
  /\ arrived = 0 /\ lapses = 0 /\ dated = 0 /\ pressed = 0

Parts == {"billing", "calendar", "merge", "flows", "site", "login", "menu", "browser", "lists",
          "trial", "node", "figures", "doorway"}

\* One part starts as it does alone.
BackOfficeInit ==
  /\ part \in Parts
  /\ IF part = "billing" THEN Init ELSE BillingRests
  /\ IF part = "calendar" THEN Calendar!CalendarInit ELSE CalendarRests
  /\ IF part = "merge" THEN Merge!MergeInit ELSE MergeRests
  /\ IF part = "flows" THEN Flows!EditorInit ELSE FlowsRest
  /\ IF part = "site" THEN Site!BubbleInit ELSE SiteRests
  /\ IF part = "login" THEN AccountsInit ELSE LoginRests
  /\ IF part = "menu" THEN Menu!AccessInit ELSE MenuRests
  /\ IF part = "browser" THEN Browser!BrowserInit ELSE BrowserRests
  /\ IF part = "lists" THEN Lists!ListsInit ELSE ListsRest
  /\ IF part = "trial" THEN SimulatorInit ELSE TrialRests
  /\ IF part = "node" THEN Flows!ContentInit ELSE NodeRests
  /\ IF part = "figures" THEN ReportsInit ELSE FiguresRest
  /\ IF part = "doorway" THEN DoorsInit ELSE DoorwayRests

BackOfficeNext ==
  /\ UNCHANGED part
  /\ IF part = "billing" THEN Next ELSE UNCHANGED vars
  /\ IF part = "calendar" THEN Calendar!CalendarNext ELSE UNCHANGED calendarVars
  /\ IF part = "merge" THEN Merge!MergeNext ELSE UNCHANGED mergeVars
  /\ IF part = "flows" THEN Flows!EditorNext ELSE UNCHANGED editorVars
  /\ IF part = "site" THEN Site!BubbleNext ELSE UNCHANGED bubbleVars
  /\ IF part = "login" THEN AccountsNext ELSE UNCHANGED accountVars
  /\ IF part = "menu" THEN Menu!AccessNext ELSE UNCHANGED accessVars
  /\ IF part = "browser" THEN Browser!BrowserNext ELSE UNCHANGED browserVars
  /\ IF part = "lists" THEN Lists!ListsNext ELSE UNCHANGED listVars
  /\ IF part = "trial" THEN SimulatorNext ELSE UNCHANGED simulatorVars
  /\ IF part = "node" THEN Flows!ContentNext ELSE UNCHANGED contentVars
  /\ IF part = "figures" THEN ReportsNext ELSE UNCHANGED reportVars
  /\ IF part = "doorway" THEN DoorsNext ELSE UNCHANGED doorVars

BackOfficeSpec == BackOfficeInit /\ [][BackOfficeNext]_allVars

-----------------------------------------------------------------------------
(* What each part promises; the comments are where it is defined. *)

\* CalendarBook, MergeContacts: the table and Google Calendar agree, and joining contacts loses nothing.
NothingIsOrphaned == (part = "calendar" => Calendar!CalendarAgrees) /\ (part = "merge" => Merge!MergeKeepsAll)
\* FlowEditor, FlowSimulator: the graph the engine reads is whole, its blocks have
\* the files chosen for them, and a customer meets what the simulator showed.
FlowsAreSound ==
  /\ part = "flows" => Flows!GraphIsSound
  /\ part = "node" => Flows!ContentIsTrue
  /\ part = "trial" => FlowIsAsTried
\* Reports: days are those of the manager, and reports worked out apart agree.
FiguresAgree == part = "figures" => ReportsAgree
\* BrowserSession, PanelAccess, PanelDoors: every tab acts for the one it names, its menu
\* shows what the guard opens to that one, and so do its pages.
TabActsAsShown ==
  /\ part = "browser" => Browser!SessionIsOne
  /\ part = "menu" => Menu!AccessIsOneRule
  /\ part = "doorway" => DoorsAgree
\* PanelLists, Bubble: what a page shows, and a site, is what is so, once nothing is on its way.
ScreensSettle == (part = "lists" => Lists!ListsAreTrue) /\ (part = "site" => Site!BubbleSettles)
=============================================================================
