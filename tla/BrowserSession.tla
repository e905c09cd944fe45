--------------------------- MODULE BrowserSession ---------------------------
(***************************************************************************)
(* Where a browser keeps who is logged in (apps/web/lib/api.ts): a token   *)
(* and a user, in the storage that all tabs share when the session is to   *)
(* be remembered, else in that of the tab, which is read first.  A         *)
(* superadmin enters the panel of a client with the client's session and   *)
(* keeps a copy of his own to come back with.  Every tab has its own page, *)
(* its own requests and its own clock of inactivity.                       *)
(***************************************************************************)
EXTENDS Naturals, FiniteSets

CONSTANTS
  Tab, Person, Staff,   \* Staff: the superadmins
  MaxLogins,            \* bound: logins
  MaxRequests,          \* bound: requests sent
  None

SessionAssumption ==
  /\ IsFiniteSet(Tab) /\ Staff \subseteq Person /\ None \notin Person
  /\ MaxLogins \in Nat /\ MaxRequests \in Nat

VARIABLES
  shared,     \* localStorage: the owner of the token and that of the user
  own,        \* sessionStorage of each tab
  copy,       \* localStorage: the session a superadmin left
  page,       \* of each tab
  banner,     \* impersonating, as the page of the tab read it when it was opened
  asked,      \* request of each tab, with the token it was sent with
  warned,     \* the tab warns that nobody is there
  lapsed,     \* people whose token has run out
  chosen,     \* history: whose session the tab took last, None if another tab has changed it
  mixed,      \* history: a name was saved over a session of the tab, beside one that is shared
  crossed,    \* history: a client's panel was entered by a request sent under another session
  left,       \* history: a session ended, or another began, inside a client's panel
  logins, requests

browserVars == <<shared, own, copy, page, banner, asked, warned, lapsed, chosen, mixed, crossed, left, logins, requests>>

Item == [token : Person \cup {None}, user : Person \cup {None}]
NoSession == [token |-> None, user |-> None]
Both(p) == [token |-> p, user |-> p]
Nothing == [kind |-> "none"]

BrowserTypeOK ==
  /\ shared \in Item /\ own \in [Tab -> Item] /\ copy \in Item
  /\ page \in [Tab -> {"login", "panel", "admin"}] /\ banner \in [Tab -> BOOLEAN]
  /\ warned \in [Tab -> BOOLEAN] /\ lapsed \subseteq Person /\ chosen \in [Tab -> Person \cup {None}]
  /\ mixed \in BOOLEAN /\ crossed \in BOOLEAN /\ left \in BOOLEAN
  /\ logins \in 0..MaxLogins /\ requests \in 0..MaxRequests

BrowserInit ==
  /\ shared = NoSession /\ own = [t \in Tab |-> NoSession] /\ copy = NoSession
  /\ page = [t \in Tab |-> "login"] /\ banner = [t \in Tab |-> FALSE]
  /\ asked = [t \in Tab |-> Nothing] /\ warned = [t \in Tab |-> FALSE]
  /\ lapsed = {} /\ chosen = [t \in Tab |-> None]
  /\ mixed = FALSE /\ crossed = FALSE /\ left = FALSE /\ logins = 0 /\ requests = 0

-----------------------------------------------------------------------------
(* The storage. *)

\* readAuthItem
First(mine, all) == IF mine # None THEN mine ELSE all
Read(t) == [token |-> First(own[t].token, shared.token), user |-> First(own[t].user, shared.user)]

\* What others took from the shared storage is no longer what they chose.
Unsettled(t, mine) == [u \in Tab |-> IF u = t THEN mine ELSE IF own[u].token # None THEN chosen[u] ELSE None]

\* setAuthSession: written to one storage, removed from the other, or left there.
SetBesideTheOther(t, p, persist) ==
  /\ shared' = IF persist THEN Both(p) ELSE shared
  /\ own' = [own EXCEPT ![t] = IF persist THEN @ ELSE Both(p)]
  /\ chosen' = Unsettled(t, p)

SetAuthSession(t, p, persist) ==
  /\ shared' = IF persist THEN Both(p) ELSE NoSession
  /\ own' = [own EXCEPT ![t] = IF persist THEN NoSession ELSE Both(p)]
  /\ chosen' = Unsettled(t, p)

ClearAuthSession(t) ==
  /\ shared' = NoSession /\ own' = [own EXCEPT ![t] = NoSession]
  /\ chosen' = Unsettled(t, None)
  /\ left' = (left \/ copy # NoSession)

\* The items kept are copied whatever storage they are in; the tab's own go.
StartImpersonation(t, p) ==
  /\ copy' = [token |-> First(Read(t).token, copy.token), user |-> First(Read(t).user, copy.user)]
  /\ SetAuthSession(t, p, TRUE)

StopImpersonation(t) ==
  /\ shared' = [token |-> First(copy.token, shared.token), user |-> First(copy.user, shared.user)]
  /\ own' = [own EXCEPT ![t] = NoSession]
  /\ copy' = NoSession
  /\ chosen' = Unsettled(t, shared'.token)

\* patchAuthItem of the user: to the shared storage if it has one, else to the tab's.
UpdateStoredUser(t) ==
  LET p == Read(t).user IN
  /\ IF shared.user # None
     THEN shared' = [shared EXCEPT !.user = p] /\ own' = [own EXCEPT ![t].user = None]
     ELSE own' = [own EXCEPT ![t].user = p] /\ UNCHANGED shared
  /\ mixed' = (mixed \/ (shared.user # None /\ own[t].user # None))

-----------------------------------------------------------------------------
(* Pages.  Opening one reads the storage. *)

Opened(t, p, flag) ==
  page' = [page EXCEPT ![t] = p] /\ banner' = [banner EXCEPT ![t] = flag /\ p = "panel"]
  /\ warned' = [warned EXCEPT ![t] = FALSE]

\* Protected and ProtectedAdmin
Admitted(wanted, session) ==
  IF session.token = None THEN "login"
  ELSE IF wanted = "admin" /\ session.user \notin Staff THEN "panel" ELSE wanted

Login(t, p, remember) ==
  /\ page[t] = "login" /\ logins < MaxLogins /\ logins' = logins + 1 /\ p \notin lapsed
  /\ SetAuthSession(t, p, remember)
  /\ Opened(t, IF p \in Staff THEN "admin" ELSE "panel", copy # NoSession)
  /\ left' = (left \/ copy # NoSession)
  /\ UNCHANGED <<copy, asked, lapsed, mixed, crossed, requests>>

\* /login asks whether the session it found is good; any error ends it.
CheckFails(t) ==
  /\ page[t] = "login" /\ Read(t).token # None /\ ClearAuthSession(t)
  /\ UNCHANGED <<copy, page, banner, asked, warned, lapsed, mixed, crossed, logins, requests>>

Visit(t, wanted) ==
  /\ page[t] # "login" \/ wanted = "panel"
  /\ Opened(t, Admitted(wanted, Read(t)), copy # NoSession)
  /\ asked' = [asked EXCEPT ![t] = Nothing]
  /\ UNCHANGED <<shared, own, copy, lapsed, chosen, mixed, crossed, left, logins, requests>>

\* logout, and the end of the two minutes of warning.
Leave(t) ==
  /\ ClearAuthSession(t) /\ Opened(t, "login", FALSE)
  /\ asked' = [asked EXCEPT ![t] = Nothing]
  /\ UNCHANGED <<copy, lapsed, mixed, crossed, logins, requests>>
Logout(t) == page[t] # "login" /\ Leave(t)
TimeOut(t) == warned[t] /\ Leave(t)

\* Only the panel has the clock of inactivity; a warning ends by its button alone.
Warn(t) ==
  /\ page[t] = "panel" /\ ~warned[t] /\ warned' = [warned EXCEPT ![t] = TRUE]
  /\ UNCHANGED <<shared, own, copy, page, banner, asked, lapsed, chosen, mixed, crossed, left, logins, requests>>
StayConnected(t) ==
  /\ warned[t] /\ warned' = [warned EXCEPT ![t] = FALSE]
  /\ UNCHANGED <<shared, own, copy, page, banner, asked, lapsed, chosen, mixed, crossed, left, logins, requests>>

ReturnToAdmin(t) ==
  /\ banner[t] /\ StopImpersonation(t)
  /\ Opened(t, Admitted("admin", [token |-> shared'.token, user |-> shared'.user]), FALSE)
  /\ asked' = [asked EXCEPT ![t] = Nothing]
  /\ UNCHANGED <<lapsed, mixed, crossed, left, logins, requests>>

-----------------------------------------------------------------------------
(* Requests. *)

Send(t, request) ==
  /\ asked[t] = Nothing /\ requests < MaxRequests /\ requests' = requests + 1
  /\ asked' = [asked EXCEPT ![t] = request]
  /\ UNCHANGED <<shared, own, copy, page, banner, warned, lapsed, chosen, mixed, crossed, left, logins>>
AskName(t) == page[t] # "login" /\ Send(t, [kind |-> "name", token |-> Read(t).token])
AskPanel(t, p) == page[t] = "admin" /\ p \notin Staff /\ Send(t, [kind |-> "panel", token |-> Read(t).token, of |-> p])

Fails(t) == asked[t] # Nothing /\ asked[t].token \in lapsed \cup {None}

\* apiFetch: whatever the session is now, a 401 clears it.
Unauthorized(t) ==
  /\ Fails(t) /\ ClearAuthSession(t)
  /\ asked' = [asked EXCEPT ![t] = Nothing]
  /\ UNCHANGED <<copy, page, banner, warned, lapsed, mixed, crossed, logins, requests>>

NameSaved(t) ==
  /\ ~Fails(t) /\ asked[t].kind = "name" /\ UpdateStoredUser(t)
  /\ asked' = [asked EXCEPT ![t] = Nothing]
  /\ UNCHANGED <<copy, page, banner, warned, lapsed, chosen, crossed, left, logins, requests>>

\* Another's token than a superadmin's is answered 403.
PanelEntered(t) ==
  /\ ~Fails(t) /\ asked[t].kind = "panel"
  /\ asked' = [asked EXCEPT ![t] = Nothing]
  /\ IF asked[t].token \in Staff
     THEN /\ StartImpersonation(t, asked[t].of) /\ Opened(t, "panel", TRUE)
          /\ crossed' = (crossed \/ Read(t) # Both(asked[t].token))
     ELSE UNCHANGED <<shared, own, copy, page, banner, warned, chosen, crossed>>
  /\ UNCHANGED <<lapsed, mixed, left, logins, requests>>

Lapse(p) ==
  /\ lapsed = {} /\ lapsed' = {p}
  /\ UNCHANGED <<shared, own, copy, page, banner, asked, warned, chosen, mixed, crossed, left, logins, requests>>

BrowserNext ==
  \/ \E t \in Tab :
       \/ Logout(t) \/ TimeOut(t) \/ CheckFails(t) \/ Warn(t) \/ StayConnected(t) \/ ReturnToAdmin(t)
       \/ AskName(t) \/ Unauthorized(t) \/ NameSaved(t) \/ PanelEntered(t)
       \/ \E p \in Person : AskPanel(t, p) \/ \E remember \in BOOLEAN : Login(t, p, remember)
       \/ \E wanted \in {"panel", "admin"} : Visit(t, wanted)
  \/ \E p \in Person : Lapse(p)

BrowserSpec == BrowserInit /\ [][BrowserNext]_browserVars

-----------------------------------------------------------------------------
(* The name shown is of the one whose token is sent: both items are        *)
(* written and removed together (api.ts:4, 15-18), in whatever tab.        *)
(* Excepted: a name saved in a tab with a session of its own, which goes   *)
(* to the storage of the others (api.ts:52).                               *)
TokenAndUserMatch == mixed \/ \A t \in Tab : Read(t).token = Read(t).user

(* A tab acts for the one it took the session of last, by login, by        *)
(* entering a panel or by coming back, until another tab writes what it    *)
(* shares; a session of the tab is never what stays under a shared one.    *)
ChosenActs == mixed \/ \A t \in Tab : chosen[t] # None => Read(t).token = chosen[t]

(* "Volver a admin" gives back a superadmin's session (api.ts:66-68), and  *)
(* the copy is there only beside a client's session.  Excepted: two panels *)
(* entered at once, for the first; for the second, a session that ended or *)
(* began in a panel, which leaves the copy behind.                         *)
ComesBack ==
  ~crossed /\ ~mixed =>
    /\ copy.token \in Staff \cup {None} /\ copy.user = copy.token
    /\ copy # NoSession /\ ~left => shared.token \in Person \ Staff

SessionIsOne == BrowserTypeOK /\ TokenAndUserMatch /\ ChosenActs /\ ComesBack
=============================================================================
