----------------------------- MODULE PanelLists -----------------------------
(***************************************************************************)
(* The pages of the panel that show a list and change it.  Each keeps its  *)
(* own copy, and the hand-written handlers differ in how they keep it up   *)
(* to date: some load again after every change, some show it at once and   *)
(* load or undo when it is refused, some patch the row; some listen to the *)
(* events of the others.  A page here is the record of what its handlers   *)
(* do; one row of the list is followed.                                    *)
(***************************************************************************)
EXTENDS Naturals, Sequences, FiniteSets

CONSTANTS
  MaxExchanges, \* bound: requests of the page
  MaxOthers,    \* bound: changes made elsewhere
  MaxDrops,     \* bound: times the socket drops
  None

ListsAssumption ==
  /\ MaxExchanges \in Nat \ {0} /\ MaxOthers \in Nat /\ MaxDrops \in Nat
  /\ None \notin {"a", "b", "gone"}

VARIABLES
  screen,       \* the page that is open
  table,        \* the row as stored
  filter,       \* the filter chosen: search, dates, department, status
  shown,        \* the row as shown, and the filter the list was asked with
  exchanges,    \* requests, in the order they were sent
  clock,        \* work the server has done
  used,         \* when the newest answer or event that was used was made
  socket,       \* "off", "joining" (connected, no room joined yet) or "on"
  news,         \* events on their way to the page
  others, drops,
  excused       \* history: what went wrong that the page does not mend

listVars == <<screen, table, filter, shown, exchanges, clock, used, socket, news, others, drops, excused>>

-----------------------------------------------------------------------------
(* What a handler does with a change: show it early, and what it does      *)
(* after it, or after it was refused.                                      *)
SaveThenLoad == [early |-> FALSE, after |-> "load", refused |-> "nothing"]
SaveThenPatch == [early |-> FALSE, after |-> "patch", refused |-> "nothing"]
TryOrLoad == [early |-> TRUE, after |-> "nothing", refused |-> "load"]
TryOrUndo == [early |-> TRUE, after |-> "nothing", refused |-> "undo"]          \* the row
TryOrRestore == [early |-> TRUE, after |-> "nothing", refused |-> "restore"]    \* the list
Try == [early |-> TRUE, after |-> "nothing", refused |-> "nothing"]

\* How a page makes a change (or a new row), and removes a row; the events it listens to;
\* whether it loads again when it connects; whether its list is filtered.
Page(changes, removals, event, again, filtered) ==
  [changes |-> changes, removals |-> removals, event |-> event, again |-> again, filtered |-> filtered]

TeamPage == Page({SaveThenLoad}, {SaveThenLoad}, "none", FALSE, FALSE)
StagesModal == Page({TryOrUndo, SaveThenPatch}, {Try}, "none", FALSE, TRUE)
DealsPage == Page({SaveThenLoad}, {SaveThenLoad}, "load", TRUE, TRUE)
LeadsPage == Page({TryOrLoad, SaveThenLoad}, {SaveThenLoad}, "load", TRUE, TRUE)
PipelinesPage == Page({TryOrLoad, SaveThenLoad}, {}, "load", TRUE, TRUE)
DashboardPage == Page({}, {}, "none", FALSE, TRUE)
WeekPage == Page({}, {TryOrRestore}, "none", FALSE, TRUE)
TodayBell == Page({TryOrRestore}, {}, "clock", FALSE, FALSE)
FlowsPage == Page({TryOrUndo, SaveThenPatch}, {SaveThenPatch}, "none", FALSE, TRUE)
FeedbackPage == Page({TryOrUndo}, {}, "none", FALSE, FALSE)
KeysPage == Page({SaveThenLoad}, {SaveThenLoad}, "merge", FALSE, FALSE)
InstancesPage == Page({SaveThenLoad}, {SaveThenLoad}, "merge", TRUE, FALSE)
StatusToast == Page({}, {}, "merge", TRUE, FALSE)
MyPlanPage == Page({SaveThenLoad}, {}, "none", FALSE, FALSE)
ClientsPage == Page({TryOrUndo, TryOrLoad, SaveThenPatch}, {SaveThenPatch}, "none", FALSE, FALSE)
LicensesPage == Page({TryOrLoad}, {}, "none", FALSE, FALSE)
PlansPage == Page({SaveThenLoad, SaveThenPatch, TryOrLoad}, {TryOrLoad}, "none", FALSE, FALSE)
PaymentMethodsPage == Page({SaveThenLoad, SaveThenPatch, TryOrLoad}, {TryOrLoad}, "none", FALSE, FALSE)
PaymentRequestsPage == Page({SaveThenLoad}, {}, "none", FALSE, TRUE)
AnnouncementsPage == Page({SaveThenLoad}, {SaveThenLoad}, "none", FALSE, FALSE)
AnnouncementPopup == Page({Try}, {}, "none", FALSE, FALSE)
SecurityPage == Page({}, {}, "none", FALSE, TRUE)
FilesPage == Page({}, {SaveThenLoad}, "none", FALSE, FALSE)

PanelPages ==
  {TeamPage, StagesModal, DealsPage, LeadsPage, PipelinesPage, DashboardPage, WeekPage, TodayBell, FlowsPage,
   FeedbackPage, KeysPage, InstancesPage, StatusToast, MyPlanPage}
AdminPages ==
  {ClientsPage, LicensesPage, PlansPage, PaymentMethodsPage, PaymentRequestsPage, AnnouncementsPage,
   AnnouncementPopup, SecurityPage, FilesPage}

Value == {"a", "b"}
Filter == {1, 2}
Handling(to) == IF to = "gone" THEN screen.removals ELSE screen.changes
Live == screen.event \in {"load", "merge"}

Loading(f) == [kind |-> "load", of |-> f, state |-> "sent", value |-> None, when |-> 0]
Writing(to, how) == [kind |-> "write", to |-> to, how |-> how, back |-> shown, state |-> "sent", when |-> 0]
InFlight(i) == exchanges[i].state # "used"
Pending == {i \in DOMAIN exchanges : InFlight(i)}

ListsTypeOK ==
  /\ screen \in PanelPages \cup AdminPages /\ table \in Value \cup {"gone"} /\ filter \in Filter
  /\ shown.value \in Value \cup {"gone", None} /\ Len(exchanges) <= MaxExchanges
  /\ socket \in {"off", "joining", "on"} /\ others \in 0..MaxOthers /\ drops \in 0..MaxDrops

\* The page has its list, or has just asked for it and for a socket.
ListsInit ==
  /\ screen \in PanelPages \cup AdminPages /\ table = "a" /\ filter = 1
  /\ \/ shown = [of |-> 1, value |-> "a"] /\ exchanges = <<>> /\ socket = "on"
     \/ /\ shown = [of |-> 1, value |-> None] /\ exchanges = <<Loading(1)>>
        /\ socket = (IF Live THEN "off" ELSE "on")
  /\ clock = 0 /\ used = 0
  /\ news = <<>> /\ others = 0 /\ drops = 0 /\ excused = {}

-----------------------------------------------------------------------------
(* The page. *)

Sends(call) == Len(exchanges) < MaxExchanges /\ exchanges' = Append(exchanges, call)
Excuse(why, if) == excused' = IF if THEN excused \cup {why} ELSE excused

SetFilter(f) ==
  /\ screen.filtered /\ f # filter /\ filter' = f /\ Sends(Loading(f))
  /\ UNCHANGED <<screen, table, shown, clock, used, socket, news, others, drops, excused>>

\* A click on the row: a change, or its removal.
Click(to, how) ==
  /\ shown.value \in Value /\ to # shown.value /\ Sends(Writing(to, how))
  /\ shown' = IF how.early THEN [shown EXCEPT !.value = to] ELSE shown
  /\ Excuse("hurried", \E i \in Pending : exchanges[i].kind = "write")
  /\ UNCHANGED <<screen, table, filter, clock, used, socket, news, others, drops>>

\* The bell asks every minute.
Tick ==
  /\ screen.event = "clock" /\ Sends(Loading(filter))
  /\ UNCHANGED <<screen, table, filter, shown, clock, used, socket, news, others, drops, excused>>

\* Of an answer used only its age matters.
Used(i) == [exchanges EXCEPT ![i] = [kind |-> @.kind, state |-> "used", when |-> @.when]]
\* An answer is used whatever was used since it was made.
Newest(i) == used' = IF exchanges[i].when > used THEN exchanges[i].when ELSE used

\* A list asked for later has been shown before this one.
Passed(i) == \E j \in DOMAIN exchanges : j > i /\ exchanges[j].kind = "load" /\ ~InFlight(j)
\* A change was on its way when the list was read.
Crossed(i) ==
  \E j \in DOMAIN exchanges : exchanges[j].kind = "write" /\
    (InFlight(j) \/ exchanges[j].when > exchanges[i].when)

UseLoad(i) ==
  /\ exchanges[i].kind = "load" /\ exchanges[i].state = "done"
  /\ shown' = [of |-> exchanges[i].of, value |-> exchanges[i].value]
  /\ exchanges' = Used(i) /\ Newest(i)
  /\ excused' = excused \cup (IF exchanges[i].when < used \/ Passed(i) THEN {"overtaken"} ELSE {})
                        \cup (IF Crossed(i) THEN {"crossed"} ELSE {})
  /\ UNCHANGED <<screen, table, filter, clock, socket, news, others, drops>>

LoadsAfter(i) == Len(exchanges) < MaxExchanges /\ exchanges' = Append(Used(i), Loading(filter))

UseWrite(i) ==
  LET then == exchanges[i].how.after IN
  /\ exchanges[i].kind = "write" /\ exchanges[i].state = "done"
  /\ IF then = "load" THEN LoadsAfter(i) ELSE exchanges' = Used(i)
  /\ IF then = "patch"
     THEN /\ shown' = [shown EXCEPT !.value = exchanges[i].to]
          /\ Newest(i) /\ Excuse("overtaken", exchanges[i].when < used)
     ELSE UNCHANGED <<shown, used, excused>>
  /\ UNCHANGED <<screen, table, filter, clock, socket, news, others, drops>>

\* The row is put back if the list still has it, or the list is, as it was at the click.
Undone(i) ==
  CASE exchanges[i].how.refused = "restore" -> exchanges[i].back
    [] exchanges[i].how.refused = "undo" /\ shown.value # "gone" -> [shown EXCEPT !.value = exchanges[i].back.value]
    [] OTHER -> shown

UseRefusal(i) ==
  /\ exchanges[i].kind = "write" /\ exchanges[i].state = "refused"
  /\ IF exchanges[i].how.refused = "load" THEN LoadsAfter(i) ELSE exchanges' = Used(i)
  /\ shown' = Undone(i)
  /\ excused' = excused \cup (IF exchanges[i].how = Try THEN {"kept"} ELSE {})
                        \cup (IF shown'.of # shown.of THEN {"overtaken"} ELSE {})
  /\ UNCHANGED <<screen, table, filter, clock, used, socket, news, others, drops>>

-----------------------------------------------------------------------------
(* The server, and the socket. *)

Tells(v) == news' = IF Live /\ socket = "on" THEN Append(news, [value |-> v, when |-> clock']) ELSE news
\* Nothing tells the page: it does not listen, its events do not tell removals, or it
\* was not connected and does not load again when it is.
Deaf(v) ==
  ~Live \/ (screen.event = "merge" /\ v = "gone") \/ (socket # "on" /\ ~screen.again)

ServeLoad(i) ==
  /\ exchanges[i].kind = "load" /\ exchanges[i].state = "sent" /\ clock' = clock + 1
  /\ exchanges' = [exchanges EXCEPT ![i].state = "done", ![i].value = table, ![i].when = clock']
  /\ Excuse("early", socket = "joining")
  /\ UNCHANGED <<screen, table, filter, shown, used, socket, news, others, drops>>

\* A row that is gone cannot be changed.
ServeWrite(i) ==
  /\ exchanges[i].kind = "write" /\ exchanges[i].state = "sent" /\ clock' = clock + 1
  /\ \/ /\ table # "gone" /\ table' = exchanges[i].to /\ Tells(exchanges[i].to)
        /\ exchanges' = [exchanges EXCEPT ![i].state = "done", ![i].when = clock']
     \/ exchanges' = [exchanges EXCEPT ![i].state = "refused"] /\ UNCHANGED <<table, news>>
  /\ UNCHANGED <<screen, filter, shown, used, socket, others, drops, excused>>

Elsewhere(v) ==
  /\ others < MaxOthers /\ others' = others + 1 /\ table # "gone" /\ v # table
  /\ table' = v /\ clock' = clock + 1 /\ Tells(v) /\ Excuse("deaf", Deaf(v))
  /\ UNCHANGED <<screen, filter, shown, exchanges, used, socket, drops>>

Hear ==
  /\ news # <<>> /\ news' = Tail(news)
  /\ IF screen.event = "load" THEN Sends(Loading(filter)) /\ UNCHANGED <<shown, used, excused>>
     ELSE /\ shown' = IF shown.value \in Value /\ Head(news).value # "gone"
                      THEN [shown EXCEPT !.value = Head(news).value] ELSE shown
          /\ used' = (IF Head(news).when > used THEN Head(news).when ELSE used)
          /\ Excuse("overtaken", Head(news).when < used) /\ UNCHANGED exchanges
  /\ UNCHANGED <<screen, table, filter, clock, socket, others, drops>>

\* A connection, which asks for the list again, or for nothing.
ConnectOnly ==
  /\ socket = "off" /\ socket' = "joining"
  /\ UNCHANGED <<screen, table, filter, shown, exchanges, clock, used, news, others, drops, excused>>

Connect ==
  /\ socket = "off" /\ socket' = "joining"
  /\ IF screen.again THEN Sends(Loading(filter)) ELSE UNCHANGED exchanges
  /\ UNCHANGED <<screen, table, filter, shown, clock, used, news, others, drops, excused>>
\* handleConnection has checked the token.
Join ==
  /\ socket = "joining" /\ socket' = "on"
  /\ UNCHANGED <<screen, table, filter, shown, exchanges, clock, used, news, others, drops, excused>>
Drop ==
  /\ Live /\ socket # "off" /\ drops < MaxDrops /\ drops' = drops + 1
  /\ socket' = "off" /\ news' = <<>> /\ Excuse("deaf", news # <<>> /\ ~screen.again)
  /\ UNCHANGED <<screen, table, filter, shown, exchanges, clock, used, others>>

ListsNext ==
  \/ \E i \in DOMAIN exchanges : UseLoad(i) \/ UseWrite(i) \/ UseRefusal(i) \/ ServeLoad(i) \/ ServeWrite(i)
  \/ \E v \in Value \cup {"gone"} : Elsewhere(v) \/ \E how \in Handling(v) : Click(v, how)
  \/ \E f \in Filter : SetFilter(f)
  \/ Tick \/ Hear \/ Connect \/ Join \/ Drop

ListsSpec == ListsInit /\ [][ListsNext]_listVars

-----------------------------------------------------------------------------
Quiet == Pending = {} /\ news = <<>> /\ socket = "on"

Ways == screen.changes \cup screen.removals
\* What a page mends by itself.
Mends(why) ==
  \/ why \in {"hurried", "crossed"} /\ (screen.event = "load" \/ Ways \subseteq {SaveThenLoad})
  \/ why = "crossed" /\ Ways \subseteq {SaveThenLoad, SaveThenPatch}

Mended == \A why \in excused : Mends(why)

(* When nothing is on its way the page shows the row as it is stored, and  *)
(* the list of the filter chosen: whatever was refused, removed, changed   *)
(* elsewhere or missed while the socket was down                           *)
(* (crm/deals/page.tsx:101-102, instances/page.tsx:66-69).  Excepted, for  *)
(* the pages that do not mend it: an answer used after a newer one, a list *)
(* read before the server had joined the socket to its room, changes       *)
(* nothing tells, two changes at once, and a refused removal of a stage.   *)
PageCatchesUp ==
  Quiet /\ Mended =>
    shown.value = table /\ (shown.of = filter)

ListsAreTrue == ListsTypeOK /\ PageCatchesUp
=============================================================================
