--------------------------- MODULE BackOfficeProofs ---------------------------
(***************************************************************************)
(* What the panel and the bubble of a site show, proved for every value of *)
(* the constants of their parts.                                           *)
(*   Tabs: what a tab has read is what its storages held when it read      *)
(* them, its menu what the guard opens to the profile it has, its pages    *)
(* and doors those of the panel it is in.                                  *)
(*   The screens: what is not shown as it is stored has an answer, news or *)
(* a timer to come.                                                        *)
(***************************************************************************)
EXTENDS BackOffice, FiniteSetTheorems, TLAPS

-----------------------------------------------------------------------------
(* The session of a tab. *)

Owner == Person \cup {None}
Asking == {Browser!Nothing} \cup [kind : {"name"}, token : Owner] \cup [kind : {"panel"}, token : Owner, of : Person \ Staff]
Alike(s) == s.token = s.user
KeptAlike == mixed \/ (Alike(shared) /\ Alike(copy) /\ \A t \in Tab : Alike(own[t]))
TokenOf(t) == Browser!First(own[t].token, shared.token)
Chosen == \A t \in Tab : chosen[t] # None => TokenOf(t) = chosen[t]
SessionInv == Browser!BrowserTypeOK /\ asked \in [Tab -> Asking] /\ KeptAlike /\ Chosen /\ Browser!ComesBack

LEMMA ItemIs ==
  ASSUME NEW s \in Browser!Item
  PROVE  s.token \in Owner /\ s.user \in Owner /\ s = [token |-> s.token, user |-> s.user]
BY DEF Browser!Item, Owner

LEMMA ReadIs ==
  ASSUME Browser!BrowserTypeOK, NEW t \in Tab
  PROVE  /\ Browser!Read(t) \in Browser!Item
         /\ own[t] \in Browser!Item /\ own[t].token \in Owner /\ own[t].user \in Owner
         /\ shared \in Browser!Item /\ shared.token \in Owner /\ shared.user \in Owner
         /\ Browser!Read(t).token = TokenOf(t) /\ Browser!Read(t).user = Browser!First(own[t].user, shared.user)
BY DEF Browser!BrowserTypeOK, Browser!Item, Browser!Read, Browser!First, Owner, TokenOf

LEMMA BothIs == ASSUME NEW p \in Owner PROVE Browser!Both(p) \in Browser!Item /\ Browser!Both(p).token = p /\ Browser!Both(p).user = p
BY DEF Browser!Both, Browser!Item, Owner

LEMMA NoneIs == Browser!NoSession \in Browser!Item /\ Browser!NoSession.token = None /\ Browser!NoSession.user = None
BY DEF Browser!NoSession, Browser!Item

LEMMA UnsettledIs ==
  ASSUME Browser!BrowserTypeOK, NEW t \in Tab, NEW p \in Owner, chosen' = Browser!Unsettled(t, p)
  PROVE  /\ chosen' \in [Tab -> Owner] /\ chosen'[t] = p
         /\ \A u \in Tab \ {t} : chosen'[u] # None => own[u].token # None /\ chosen'[u] = chosen[u]
BY DEF Browser!BrowserTypeOK, Owner, Browser!Unsettled

\* Whatever becomes of the shared storage: who has a session of the tab's own keeps what was chosen.
LEMMA ChosenHolds ==
  ASSUME SessionInv, NEW t \in Tab, NEW p \in Owner, chosen' = Browser!Unsettled(t, p),
         \A u \in Tab \ {t} : own'[u] = own[u],
         p # None => Browser!First(own'[t].token, shared'.token) = p
  PROVE  chosen' \in [Tab -> Owner] /\ Chosen'
<1>1. chosen' \in [Tab -> Owner] /\ chosen'[t] = p /\ \A u \in Tab \ {t} : chosen'[u] # None => own[u].token # None /\ chosen'[u] = chosen[u]
  BY UnsettledIs DEF SessionInv
<1>2. ASSUME NEW u \in Tab, chosen'[u] # None PROVE TokenOf(u)' = chosen'[u]
  BY <1>1, <1>2 DEF Browser!First, Chosen, TokenOf, SessionInv
<1> QED BY <1>1, <1>2 DEF Chosen

\* One storage takes a session and the tab's own goes, or the tab's own does and the shared goes.
LEMMA SetHolds ==
  ASSUME SessionInv, NEW t \in Tab, NEW p \in Person, NEW persist \in BOOLEAN, Browser!SetAuthSession(t, p, persist)
  PROVE  /\ shared' \in Browser!Item /\ own' \in [Tab -> Browser!Item] /\ chosen' \in [Tab -> Owner]
         /\ Alike(shared') /\ Alike(own'[t]) /\ \A u \in Tab \ {t} : own'[u] = own[u]
         /\ persist => shared' = Browser!Both(p)
         /\ Chosen'
<1>p. p \in Owner BY DEF Owner
<1>1. shared' \in Browser!Item /\ Alike(shared') /\ (persist => shared' = Browser!Both(p))
  BY <1>p, BothIs, NoneIs DEF Browser!SetAuthSession, Alike, SessionInv, Browser!BrowserTypeOK
<1>2. own' \in [Tab -> Browser!Item] /\ Alike(own'[t]) /\ \A u \in Tab \ {t} : own'[u] = own[u]
  BY <1>p, BothIs, NoneIs DEF Browser!SetAuthSession, Alike, Browser!BrowserTypeOK, SessionInv
<1>3. own'[t] = IF persist THEN Browser!NoSession ELSE Browser!Both(p)
  BY DEF Browser!SetAuthSession, Browser!BrowserTypeOK, SessionInv
<1>4. Browser!First(own'[t].token, shared'.token) = p
  <2>1. shared' = IF persist THEN Browser!Both(p) ELSE Browser!NoSession BY DEF Browser!SetAuthSession
  <2>2. CASE persist BY <1>3, <2>1, <2>2, <1>p, BothIs, NoneIs DEF Browser!First
  <2>3. CASE ~persist BY <1>3, <2>1, <2>3, <1>p, BothIs, NoneIs DEF Browser!First
  <2> QED BY <2>2, <2>3
<1>5. chosen' = Browser!Unsettled(t, p) BY DEF Browser!SetAuthSession
<1> QED BY <1>p, <1>1, <1>2, <1>4, <1>5, ChosenHolds

LEMMA ClearHolds ==
  ASSUME SessionInv, NEW t \in Tab, Browser!ClearAuthSession(t), UNCHANGED <<copy, mixed, crossed>>
  PROVE  /\ shared' \in Browser!Item /\ own' \in [Tab -> Browser!Item] /\ copy' \in Browser!Item /\ chosen' \in [Tab -> Owner]
         /\ left' \in BOOLEAN /\ KeptAlike' /\ Chosen' /\ Browser!ComesBack'
<1>p. None \in Owner BY DEF Owner
<1>1. shared' = Browser!NoSession /\ own' = [own EXCEPT ![t] = Browser!NoSession] /\ left' = (left \/ copy # Browser!NoSession)
  BY DEF Browser!ClearAuthSession
<1>2. shared' \in Browser!Item /\ own' \in [Tab -> Browser!Item] /\ copy' \in Browser!Item /\ left' \in BOOLEAN
  BY <1>1, NoneIs DEF SessionInv, Browser!BrowserTypeOK
<1>3. \A u \in Tab \ {t} : own'[u] = own[u] BY <1>1 DEF SessionInv, Browser!BrowserTypeOK
<1>4. chosen' = Browser!Unsettled(t, None) BY DEF Browser!ClearAuthSession
<1>5. chosen' \in [Tab -> Owner] /\ Chosen' BY <1>3, <1>4, <1>p, ChosenHolds
<1>6. own'[t] = Browser!NoSession BY <1>1 DEF SessionInv, Browser!BrowserTypeOK
<1>7. KeptAlike' BY <1>1, <1>3, <1>6, NoneIs DEF KeptAlike, Alike, SessionInv
<1>8. Browser!ComesBack' BY <1>1 DEF Browser!ComesBack, SessionInv
<1> QED BY <1>2, <1>5, <1>7, <1>8

LEMMA OpenedIs ==
  ASSUME Browser!BrowserTypeOK, NEW t \in Tab, NEW p \in {"login", "panel", "admin"}, NEW flag \in BOOLEAN, Browser!Opened(t, p, flag)
  PROVE  page' \in [Tab -> {"login", "panel", "admin"}] /\ banner' \in [Tab -> BOOLEAN] /\ warned' \in [Tab -> BOOLEAN]
BY DEF Browser!Opened, Browser!BrowserTypeOK

LEMMA AdmittedIs ==
  ASSUME NEW wanted \in {"panel", "admin"}, NEW s PROVE Browser!Admitted(wanted, s) \in {"login", "panel", "admin"}
BY DEF Browser!Admitted

LEMMA AskedIs ==
  ASSUME SessionInv, NEW t \in Tab, NEW r \in Asking, asked' = [asked EXCEPT ![t] = r]
  PROVE  asked' \in [Tab -> Asking]
BY DEF SessionInv

LEMMA NothingIs == Browser!Nothing \in Asking
BY DEF Asking

Kept == shared' = shared /\ own' = own /\ copy' = copy /\ chosen' = chosen /\ mixed' = mixed /\ crossed' = crossed /\ left' = left
LEMMA KeptHolds ==
  ASSUME SessionInv, Kept
  PROVE  KeptAlike' /\ Chosen' /\ Browser!ComesBack'
BY DEF Kept, SessionInv, KeptAlike, Alike, Chosen, TokenOf, Browser!First, Browser!ComesBack, Browser!NoSession

LEMMA SessionSettle ==
  ASSUME Browser!SessionAssumption, SessionInv, [Browser!BrowserNext]_browserVars
  PROVE  SessionInv'
<1> USE DEF Browser!SessionAssumption
<1> SUFFICES ASSUME Browser!BrowserNext PROVE SessionInv'
  BY KeptHolds DEF browserVars, SessionInv, Kept, Browser!BrowserTypeOK
<1> DEFINE Rest == logins' \in 0..MaxLogins /\ requests' \in 0..MaxRequests /\ lapsed' \subseteq Person
<1>t. Browser!BrowserTypeOK BY DEF SessionInv
<1>1. ASSUME NEW t \in Tab, Browser!Leave(t) PROVE SessionInv'
  <2>1. Browser!Opened(t, "login", FALSE) BY <1>1 DEF Browser!Leave
  <2>2. page' \in [Tab -> {"login", "panel", "admin"}] /\ banner' \in [Tab -> BOOLEAN] /\ warned' \in [Tab -> BOOLEAN]
    BY <2>1, <1>t, OpenedIs
  <2>3. asked' \in [Tab -> Asking] BY <1>1, AskedIs, NothingIs DEF Browser!Leave
  <2> QED BY <1>1, <1>t, <2>2, <2>3, ClearHolds DEF Browser!Leave, SessionInv, Browser!BrowserTypeOK, Owner
<1>2. ASSUME NEW t \in Tab, Browser!CheckFails(t) PROVE SessionInv'
  BY <1>2, ClearHolds DEF Browser!CheckFails, SessionInv, Browser!BrowserTypeOK, Owner
<1>3. ASSUME NEW t \in Tab, Browser!Warn(t) \/ Browser!StayConnected(t) PROVE SessionInv'
  BY <1>3, KeptHolds DEF Browser!Warn, Browser!StayConnected, Kept, SessionInv, Browser!BrowserTypeOK
<1>4. ASSUME NEW t \in Tab, NEW r \in Asking, Browser!Send(t, r) PROVE SessionInv'
  BY <1>4, KeptHolds, AskedIs DEF Browser!Send, Kept, SessionInv, Browser!BrowserTypeOK
<1>5. ASSUME NEW t \in Tab, Browser!AskName(t) PROVE SessionInv'
  BY <1>4, <1>5, <1>t, ReadIs, ItemIs DEF Browser!AskName, Asking
<1>6. ASSUME NEW t \in Tab, NEW p \in Person, Browser!AskPanel(t, p) PROVE SessionInv'
  <2>1. [kind |-> "panel", token |-> Browser!Read(t).token, of |-> p] \in Asking
    BY <1>6, <1>t, ReadIs, ItemIs DEF Browser!AskPanel, Asking
  <2> QED BY <2>1, <1>4, <1>6 DEF Browser!AskPanel
<1>7. ASSUME NEW t \in Tab, Browser!Unauthorized(t) PROVE SessionInv'
  BY <1>7, ClearHolds, AskedIs, NothingIs DEF Browser!Unauthorized, SessionInv, Browser!BrowserTypeOK, Owner
<1>8. ASSUME NEW p \in Person, Browser!Lapse(p) PROVE SessionInv'
  BY <1>8, KeptHolds DEF Browser!Lapse, Kept, SessionInv, Browser!BrowserTypeOK
<1>9. ASSUME NEW t \in Tab, NEW wanted \in {"panel", "admin"}, Browser!Visit(t, wanted) PROVE SessionInv'
  <2>1. page' \in [Tab -> {"login", "panel", "admin"}] /\ banner' \in [Tab -> BOOLEAN] /\ warned' \in [Tab -> BOOLEAN]
    BY <1>9, <1>t, OpenedIs, AdmittedIs DEF Browser!Visit
  <2>2. asked' \in [Tab -> Asking] BY <1>9, AskedIs, NothingIs DEF Browser!Visit
  <2> QED BY <1>9, <2>1, <2>2, KeptHolds DEF Browser!Visit, Kept, SessionInv, Browser!BrowserTypeOK
<1>10. ASSUME NEW t \in Tab, NEW p \in Person, NEW remember \in BOOLEAN, Browser!Login(t, p, remember) PROVE SessionInv'
  <2>1. page' \in [Tab -> {"login", "panel", "admin"}] /\ banner' \in [Tab -> BOOLEAN] /\ warned' \in [Tab -> BOOLEAN]
    BY <1>10, <1>t, OpenedIs DEF Browser!Login
  <2>2. Browser!SetAuthSession(t, p, remember) BY <1>10 DEF Browser!Login
  <2>3. /\ shared' \in Browser!Item /\ own' \in [Tab -> Browser!Item] /\ chosen' \in [Tab -> Owner]
        /\ Alike(shared') /\ Alike(own'[t]) /\ (\A u \in Tab \ {t} : own'[u] = own[u]) /\ Chosen'
    BY <2>2, SetHolds
  <2>4. KeptAlike' BY <1>10, <2>3 DEF KeptAlike, SessionInv, Browser!Login
  <2>5. Browser!ComesBack' BY <1>10 DEF Browser!Login, Browser!ComesBack, SessionInv
  <2> QED BY <1>10, <2>1, <2>3, <2>4, <2>5 DEF Browser!Login, SessionInv, Browser!BrowserTypeOK, Owner
<1>11. ASSUME NEW t \in Tab, Browser!ReturnToAdmin(t) PROVE SessionInv'
  <2>1. page' \in [Tab -> {"login", "panel", "admin"}] /\ banner' \in [Tab -> BOOLEAN] /\ warned' \in [Tab -> BOOLEAN]
    BY <1>11, <1>t, OpenedIs, AdmittedIs DEF Browser!ReturnToAdmin
  <2>2. asked' \in [Tab -> Asking] BY <1>11, AskedIs, NothingIs DEF Browser!ReturnToAdmin
  <2>3. /\ shared' = [token |-> Browser!First(copy.token, shared.token), user |-> Browser!First(copy.user, shared.user)]
        /\ own' = [own EXCEPT ![t] = Browser!NoSession] /\ copy' = Browser!NoSession
        /\ chosen' = Browser!Unsettled(t, shared'.token)
        /\ UNCHANGED <<lapsed, mixed, crossed, left, logins, requests>>
    BY <1>11 DEF Browser!ReturnToAdmin, Browser!StopImpersonation
  <2>4. shared' \in Browser!Item /\ shared'.token \in Owner
    BY <2>3, <1>t, ItemIs DEF Browser!BrowserTypeOK, Browser!First, Browser!Item, Owner
  <2>5. own' \in [Tab -> Browser!Item] /\ own'[t] = Browser!NoSession /\ \A u \in Tab \ {t} : own'[u] = own[u]
    BY <2>3, NoneIs, <1>t DEF Browser!BrowserTypeOK
  <2>6. Browser!First(own'[t].token, shared'.token) = shared'.token BY <2>5, NoneIs DEF Browser!First
  <2>7. chosen' \in [Tab -> Owner] /\ Chosen' BY <2>3, <2>4, <2>5, <2>6, ChosenHolds
  <2>8. KeptAlike' BY <2>3, <2>5, NoneIs DEF KeptAlike, SessionInv, Alike, Browser!First
  <2>9. Browser!ComesBack' BY <2>3, NoneIs DEF Browser!ComesBack
  <2> QED BY <2>1, <2>2, <2>3, <2>4, <2>5, <2>7, <2>8, <2>9, NoneIs DEF SessionInv, Browser!BrowserTypeOK, Owner
<1>12. ASSUME NEW t \in Tab, Browser!NameSaved(t) PROVE SessionInv'
  <2>1. asked' \in [Tab -> Asking] BY <1>12, AskedIs, NothingIs DEF Browser!NameSaved
  <2> DEFINE p == Browser!Read(t).user
  <2>2. /\ IF shared.user # None
           THEN shared' = [shared EXCEPT !.user = p] /\ own' = [own EXCEPT ![t].user = None]
           ELSE own' = [own EXCEPT ![t].user = p] /\ UNCHANGED shared
        /\ mixed' = (mixed \/ (shared.user # None /\ own[t].user # None))
        /\ UNCHANGED <<copy, page, banner, warned, lapsed, chosen, crossed, left, logins, requests>>
    BY <1>12 DEF Browser!NameSaved, Browser!UpdateStoredUser
  <2>3. p \in Owner BY <1>t, ReadIs, ItemIs
  <2>4. p = Browser!First(own[t].user, shared.user) BY <1>t, ReadIs
  <2> HIDE DEF p
  <2>5. own[t] \in Browser!Item /\ shared \in Browser!Item BY <1>t, ReadIs
  <2>6. shared' \in Browser!Item /\ shared'.token = shared.token
    BY <2>2, <2>3, <2>5 DEF Browser!Item, Owner
  <2>7. own' \in [Tab -> Browser!Item] /\ (\A u \in Tab : own'[u].token = own[u].token) /\ \A u \in Tab \ {t} : own'[u] = own[u]
    <3>1. PICK v \in Owner : own' = [own EXCEPT ![t].user = v] BY <2>2, <2>3 DEF Owner
    <3>2. own'[t] = [own[t] EXCEPT !.user = v] /\ \A u \in Tab \ {t} : own'[u] = own[u] BY <3>1, <1>t DEF Browser!BrowserTypeOK
    <3>3. own'[t] \in Browser!Item /\ own'[t].token = own[t].token BY <3>2, <2>5 DEF Browser!Item, Owner
    <3>4. own \in [Tab -> Browser!Item] BY <1>t DEF Browser!BrowserTypeOK
    <3> QED BY <3>1, <3>2, <3>3, <3>4
  <2>8. Chosen' BY <2>2, <2>6, <2>7 DEF Chosen, TokenOf, SessionInv
  <2>9. KeptAlike'
    <3> SUFFICES ASSUME ~mixed' PROVE Alike(shared)' /\ Alike(copy)' /\ \A u \in Tab : Alike(own[u])'
      BY DEF KeptAlike
    <3>1. Alike(shared) /\ Alike(copy) /\ \A u \in Tab : Alike(own[u]) BY <2>2 DEF KeptAlike, SessionInv
    <3>2. shared.user = None \/ own[t].user = None BY <2>2
    <3>3. shared'.user = shared.user /\ own'[t].user = own[t].user
      BY <3>2, <2>2, <2>4, <2>5, <1>t, ItemIs DEF Browser!First, Browser!BrowserTypeOK, Browser!Item
    <3> QED BY <3>1, <3>3, <2>2, <2>6, <2>7 DEF Alike
  <2>10. Browser!ComesBack' BY <2>2, <2>6 DEF Browser!ComesBack, SessionInv
  <2> QED BY <2>1, <2>2, <2>6, <2>7, <2>8, <2>9, <2>10 DEF SessionInv, Browser!BrowserTypeOK
<1>13. ASSUME NEW t \in Tab, Browser!PanelEntered(t) PROVE SessionInv'
  <2>1. asked' \in [Tab -> Asking] BY <1>13, AskedIs, NothingIs DEF Browser!PanelEntered
  <2>2. CASE asked[t].token \notin Staff
    BY <2>1, <2>2, <1>13, KeptHolds DEF Browser!PanelEntered, Kept, SessionInv, Browser!BrowserTypeOK
  <2>3. CASE asked[t].token \in Staff
    <3> DEFINE p == asked[t].of
               s == asked[t].token
    <3>1. p \in Person \ Staff
      BY <1>13 DEF Browser!PanelEntered, SessionInv, Asking, Browser!Nothing
    <3>2. /\ Browser!StartImpersonation(t, p) /\ Browser!Opened(t, "panel", TRUE) /\ crossed' = (crossed \/ Browser!Read(t) # Browser!Both(s))
          /\ UNCHANGED <<lapsed, mixed, left, logins, requests>>
      BY <1>13, <2>3 DEF Browser!PanelEntered
    <3> HIDE DEF p, s
    <3>3. Browser!SetAuthSession(t, p, TRUE) BY <3>2 DEF Browser!StartImpersonation
    <3>4. /\ shared' \in Browser!Item /\ own' \in [Tab -> Browser!Item] /\ chosen' \in [Tab -> Owner]
          /\ Alike(shared') /\ Alike(own'[t]) /\ (\A u \in Tab \ {t} : own'[u] = own[u]) /\ Chosen'
          /\ shared' = Browser!Both(p)
      BY <3>3, <3>1, SetHolds
    <3>5. copy' = [token |-> Browser!First(Browser!Read(t).token, copy.token), user |-> Browser!First(Browser!Read(t).user, copy.user)]
      BY <3>2 DEF Browser!StartImpersonation
    <3>6. copy' \in Browser!Item
      BY <3>5, <1>t, ReadIs, ItemIs DEF Browser!BrowserTypeOK, Browser!First, Browser!Item, Owner
    <3>7. KeptAlike'
      BY <3>4, <3>5, <3>2, <1>t, ReadIs DEF KeptAlike, SessionInv, Alike, TokenOf, Browser!First
    <3>8. Browser!ComesBack'
      <4> SUFFICES ASSUME ~crossed', ~mixed' PROVE Browser!ComesBack' BY DEF Browser!ComesBack
      <4>1. Browser!Read(t) = Browser!Both(s) /\ s \in Staff BY <3>2, <2>3 DEF s
      <4>2. s # None /\ s \in Owner BY <4>1 DEF Owner
      <4>3. copy'.token = s /\ copy'.user = s BY <3>5, <4>1, <4>2, BothIs DEF Browser!First
      <4>4. shared'.token \in Person \ Staff BY <3>4, <3>1, BothIs DEF Owner
      <4> QED BY <4>1, <4>3, <4>4 DEF Browser!ComesBack
    <3>9. page' \in [Tab -> {"login", "panel", "admin"}] /\ banner' \in [Tab -> BOOLEAN] /\ warned' \in [Tab -> BOOLEAN]
      BY <3>2, <1>t, OpenedIs
    <3> QED BY <2>1, <3>2, <3>4, <3>6, <3>7, <3>8, <3>9 DEF SessionInv, Browser!BrowserTypeOK, Owner
  <2> QED BY <2>2, <2>3
<1> QED
  BY <1>1, <1>2, <1>3, <1>5, <1>6, <1>7, <1>8, <1>9, <1>10, <1>11, <1>12, <1>13 DEF Browser!BrowserNext, Browser!Logout, Browser!TimeOut

LEMMA SessionStarts == Browser!SessionAssumption /\ Browser!BrowserInit => SessionInv
<1> SUFFICES ASSUME Browser!SessionAssumption, Browser!BrowserInit PROVE SessionInv OBVIOUS
<1> USE NoneIs DEF Browser!BrowserInit
<1>1. Browser!BrowserTypeOK
  <2>1. shared \in Browser!Item /\ own \in [Tab -> Browser!Item] /\ copy \in Browser!Item BY NoneIs
  <2>2. logins \in 0..MaxLogins /\ requests \in 0..MaxRequests BY DEF Browser!SessionAssumption
  <2> QED BY <2>1, <2>2 DEF Browser!BrowserTypeOK
<1>2. asked \in [Tab -> Asking] BY NothingIs
<1>3. KeptAlike BY DEF KeptAlike, Alike
<1>4. Chosen BY DEF Chosen
<1>5. Browser!ComesBack BY DEF Browser!ComesBack
<1> QED BY <1>1, <1>2, <1>3, <1>4, <1>5 DEF SessionInv

LEMMA SessionShows == SessionInv => Browser!SessionIsOne
<1> SUFFICES ASSUME SessionInv PROVE Browser!SessionIsOne OBVIOUS
<1>1. Browser!BrowserTypeOK BY DEF SessionInv
<1>2. Browser!TokenAndUserMatch BY <1>1, ReadIs DEF Browser!TokenAndUserMatch, SessionInv, KeptAlike, Alike, TokenOf, Browser!First
<1>3. Browser!ChosenActs BY <1>1, ReadIs DEF Browser!ChosenActs, Chosen, SessionInv
<1> QED BY <1>1, <1>2, <1>3 DEF Browser!SessionIsOne, SessionInv

-----------------------------------------------------------------------------
(* The menu. *)

\* The menu is that of the profile, as long as the tables have not changed since.
MenuIsTheProfile == ~profileDue /\ ~outdated => menu = Menu!Effective(Menu!Profile)
\* The page followed is the one shown, or the profile has locked it: the path under which it lies is in no menu.
FollowedStands ==
  followed # None => at = followed \/ (at = None /\ (outdated \/ Menu!EntryOf(followed) \notin Menu!Effective(Menu!Profile)))
MenuInv == Menu!AccessTypeOK /\ MenuIsTheProfile /\ FollowedStands

\* What both work out, where the company has no exception.
MayUse(m) ==
  /\ ~firm.expired \/ role = "SUPERADMIN"
  /\ firm.plan = {} \/ m \in firm.plan
  /\ role # "AGENT" \/ allowedModules = {} \/ m \in allowedModules

LEMMA ProfileIs ==
  /\ Menu!Profile.role = role /\ Menu!Profile.allowedModules = allowedModules
  /\ Menu!Profile.planModules = firm.plan /\ Menu!Profile.licenseExpired = firm.expired
BY DEF Menu!Profile

LEMMA EffectiveIs ==
  ASSUME Menu!AccessTypeOK
  PROVE  Menu!Effective(Menu!Profile) =
           {m \in Module : MayUse(m)}
<1>1. firm.plan \subseteq Module BY DEF Menu!AccessTypeOK
<1> QED BY <1>1, ProfileIs DEF Menu!Effective, Menu!AccessTypeOK, Menu!Role, MayUse

LEMMA MenuSettle ==
  ASSUME Menu!AccessAssumption, MenuInv, [Menu!AccessNext]_accessVars
  PROVE  MenuInv'
<1> USE DEF Menu!AccessAssumption
<1>t. Menu!AccessTypeOK BY DEF MenuInv
<1>e. Menu!Effective(Menu!Profile) \subseteq Module BY <1>t, EffectiveIs
<1>k. ASSUME UNCHANGED <<firm, allowedModules, role>> PROVE Menu!Effective(Menu!Profile)' = Menu!Effective(Menu!Profile)
  BY <1>k DEF Menu!Effective, Menu!Profile
<1>1. CASE UNCHANGED accessVars
  BY <1>1 DEF accessVars, MenuInv, Menu!AccessTypeOK, MenuIsTheProfile, FollowedStands, Menu!Effective, Menu!Profile, Menu!EntryOf
<1>2. ASSUME NEW keys \in SUBSET Module, Menu!EditCompany(keys) PROVE MenuInv'
  <2> DEFINE Firms == [plan : SUBSET Module, overrides : SUBSET Module, expired : BOOLEAN]
  <2>a. firm \in Firms /\ firm.expired \in BOOLEAN BY <1>t DEF Menu!AccessTypeOK
  <2>b. firm' \in Firms BY <1>2, <2>a DEF Menu!EditCompany
  <2>c. amendments' \in 0..MaxAmendments BY <1>2, <1>t DEF Menu!EditCompany, Menu!AccessTypeOK
  <2>1. Menu!AccessTypeOK' BY <1>2, <2>b, <2>c, <1>t DEF Menu!EditCompany, Menu!AccessTypeOK
  <2> QED BY <1>2, <2>1 DEF Menu!EditCompany, MenuInv, MenuIsTheProfile, FollowedStands
<1>3. ASSUME NEW keys \in SUBSET Module, Menu!EditPerson(keys) PROVE MenuInv'
  <2>c. amendments' \in 0..MaxAmendments BY <1>3, <1>t DEF Menu!EditPerson, Menu!AccessTypeOK
  <2>1. Menu!AccessTypeOK' BY <1>3, <2>c, <1>t DEF Menu!EditPerson, Menu!AccessTypeOK
  <2> QED BY <1>3, <2>1 DEF Menu!EditPerson, MenuInv, MenuIsTheProfile, FollowedStands
<1>4. ASSUME NEW leaf \in Module, Menu!Follow(leaf) \/ Menu!Type(leaf) PROVE MenuInv'
  <2>c. visits' \in 0..MaxVisits BY <1>4, <1>t DEF Menu!Follow, Menu!Type, Menu!Visit, Menu!AccessTypeOK
  <2>1. Menu!AccessTypeOK' BY <1>4, <2>c, <1>t DEF Menu!Follow, Menu!Type, Menu!Visit, Menu!AccessTypeOK
  <2> QED BY <1>4, <2>1 DEF Menu!Follow, Menu!Type, Menu!Visit, MenuInv, MenuIsTheProfile, FollowedStands
<1>5. CASE Menu!ProfileFails
  <2>1. Menu!AccessTypeOK' BY <1>5, <1>t DEF Menu!ProfileFails, Menu!AccessTypeOK
  <2> QED BY <1>5, <2>1 DEF Menu!ProfileFails, MenuInv, MenuIsTheProfile, FollowedStands
<1>6. CASE Menu!Answer
  <2> DEFINE keys == Menu!Effective(Menu!Profile)
  <2>1. keys' = keys BY <1>6, <1>k DEF Menu!Answer
  <2>2. /\ profileDue
        /\ IF at # None /\ Menu!EntryOf(at) \notin keys
           THEN at' = None /\ menu' = Module /\ UNCHANGED profileDue
           ELSE menu' = keys /\ profileDue' = FALSE /\ UNCHANGED at
        /\ outdated' = FALSE /\ followed' = (IF outdated THEN None ELSE followed)
        /\ UNCHANGED <<firm, allowedModules, role, amendments, visits>>
    BY <1>6 DEF Menu!Answer
  <2> HIDE DEF keys
  <2>3. keys \subseteq Module BY <1>e DEF keys
  <2>4. Menu!AccessTypeOK' BY <2>2, <2>3, <1>t DEF Menu!AccessTypeOK
  <2>5. MenuIsTheProfile' BY <2>1, <2>2 DEF MenuIsTheProfile, keys
  <2>6. ASSUME NEW m \in Module PROVE Menu!EntryOf(m)' = Menu!EntryOf(m) BY DEF Menu!EntryOf
  <2>7. FollowedStands'
    <3> SUFFICES ASSUME followed' # None
                 PROVE  at' = followed' \/ (at' = None /\ Menu!EntryOf(followed)' \notin keys')
      BY DEF FollowedStands, keys
    <3>1. ~outdated /\ followed' = followed /\ followed # None BY <2>2
    <3>2. at = followed \/ (at = None /\ Menu!EntryOf(followed) \notin keys)
      BY <3>1 DEF MenuInv, FollowedStands, keys
    <3> QED BY <2>1, <2>2, <3>1, <3>2 DEF Menu!EntryOf
  <2> QED BY <2>4, <2>5, <2>7 DEF MenuInv
<1> QED BY <1>1, <1>2, <1>3, <1>4, <1>5, <1>6 DEF Menu!AccessNext

LEMMA MenuStarts == Menu!AccessAssumption /\ Menu!AccessInit => MenuInv
<1> SUFFICES ASSUME Menu!AccessAssumption, Menu!AccessInit PROVE MenuInv OBVIOUS
<1> USE DEF Menu!AccessInit
<1>1. firm \in [plan : SUBSET Module, overrides : SUBSET Module, expired : BOOLEAN] OBVIOUS
<1>2. Menu!AccessTypeOK BY <1>1 DEF Menu!AccessTypeOK, Menu!AccessAssumption
<1> QED BY <1>2 DEF MenuInv, MenuIsTheProfile, FollowedStands

LEMMA MenuShows == Menu!AccessAssumption /\ MenuInv => Menu!AccessIsOneRule
<1> SUFFICES ASSUME Menu!AccessAssumption, MenuInv PROVE Menu!AccessIsOneRule OBVIOUS
<1>t. Menu!AccessTypeOK BY DEF MenuInv
<1>1. Menu!MenuIsTheGuard
  <2> SUFFICES ASSUME ~profileDue, ~outdated, firm.overrides = {} PROVE menu = {m \in Module : Menu!Opens({m})}
    BY DEF Menu!MenuIsTheGuard
  <2>1. menu = Menu!Effective(Menu!Profile) BY DEF MenuInv, MenuIsTheProfile
  <2>2. Menu!PlanModules = firm.plan BY DEF Menu!PlanModules
  <2>3. ASSUME NEW m \in Module
        PROVE Menu!Opens({m}) <=> MayUse(m)
    <3>1. \A S : {m} \cap S # {} <=> m \in S OBVIOUS
    <3> QED BY <2>2, <3>1 DEF Menu!Opens, MayUse
  <2> QED BY <2>1, <2>3, <1>t, EffectiveIs
<1>2. Menu!LinksLead
  <2> SUFFICES ASSUME ~profileDue, ~outdated, followed # None, followed \in menu, at # followed
               PROVE  followed = Inner /\ Outer \notin menu
    BY DEF Menu!LinksLead
  <2> QED BY DEF MenuInv, MenuIsTheProfile, FollowedStands, Menu!EntryOf
<1> QED BY <1>t, <1>1, <1>2 DEF Menu!AccessIsOneRule

-----------------------------------------------------------------------------
(* The doors. *)

LEMMA DoorFields ==
  ASSUME NEW roles, NEW modules PROVE Door(roles, modules).roles = roles /\ Door(roles, modules).modules = modules
BY DEF Door

LEMMA TableNames ==
  /\ DOMAIN DashboardDoors = {"dashboard"}
  /\ DOMAIN ConversationDoors = {"conversations"}
  /\ DOMAIN LeadDoors = {"leads"}
  /\ DOMAIN DealDoors = {"deals"}
  /\ DOMAIN PipelineDoors = {"pipelines"}
  /\ DOMAIN AutomationDoors = {"flows", "flowEdits"}
  /\ DOMAIN TeamDoors = {"team", "teamEdits", "tagEdits", "tagRemoval", "assistant"}
  /\ DOMAIN CalendarDoors = {"calendar", "calendarLink"}
  /\ DOMAIN InstanceDoors = {"instances", "instanceEdits"}
  /\ DOMAIN IncidentDoors = {"incidents", "incidentStatus"}
  /\ DOMAIN FeedbackDoors = {"feedback", "feedbackStatus"}
  /\ DOMAIN QuickReplyDoors = {"replies", "replyEdits"}
  /\ DOMAIN StickerDoors = {"stickers"}
  /\ DOMAIN AnnouncementDoors = {"announcements", "announcementEdits"}
  /\ DOMAIN CredentialDoors = {"credentials"}
  /\ DOMAIN BillingDoors = {"billing"}
  /\ DOMAIN ProfileDoors = {"profile"}
  /\ DOMAIN AdminDoors = {"admin"}
  /\ DOMAIN SettingsDoors = {"settings"}
BY DEF DashboardDoors, ConversationDoors, LeadDoors, DealDoors, PipelineDoors, AutomationDoors, TeamDoors, CalendarDoors, InstanceDoors, IncidentDoors, FeedbackDoors, QuickReplyDoors, StickerDoors, AnnouncementDoors, CredentialDoors, BillingDoors, ProfileDoors, AdminDoors, SettingsDoors

LEMMA DoorIn ==
  ASSUME NEW list \in Tables, NEW d \in DOMAIN list, \A one \in Tables : d \in DOMAIN one => one = list
  PROVE  Doors[d] = list[d]
BY DEF Doors

\* What a door is, by its name.
LEMMA DoorIs ==
  /\ Doors["team"] = Open(Everyone)
  /\ Doors["teamEdits"] = Open(Managers)
  /\ Doors["tagRemoval"] = Open(Seniors)
  /\ Doors["assistant"] = Open(Managers)
  /\ Doors["calendar"] = Open(Everyone)
  /\ Doors["calendarLink"] = Open(Managers)
  /\ Doors["instances"] = Open(Everyone)
  /\ Doors["incidents"] = Open(Everyone)
  /\ Doors["incidentStatus"] = Open(Everyone)
  /\ Doors["feedback"] = Open(Everyone)
  /\ Doors["feedbackStatus"] = Open(Managers)
  /\ Doors["replies"] = Open(Everyone)
  /\ Doors["replyEdits"] = Open(Seniors)
  /\ Doors["stickers"] = Open(Everyone)
  /\ Doors["announcements"] = Open(Everyone)
  /\ Doors["profile"] = Open(Everyone)
  /\ Doors["credentials"] = Open(Managers)
  /\ Doors["dashboard"] = Door(Everyone, {"dashboard"})
  /\ Doors["conversations"] = Door(Everyone, {"conversations"})
  /\ Doors["leads"] = Door(Everyone, {"crm-leads"})
  /\ Doors["deals"] = Door(Everyone, {"crm-deals"})
  /\ Doors["pipelines"] = Door(Everyone, {"crm-pipelines"})
  /\ Doors["flows"] = Door(Everyone, Flowing)
<1>1. Doors["team"] = Open(Everyone) /\ Doors["teamEdits"] = Open(Managers) /\ Doors["tagRemoval"] = Open(Seniors) /\ Doors["assistant"] = Open(Managers)
  <2>1. \A one \in Tables : "team" \in DOMAIN one => one = TeamDoors BY TableNames DEF Tables
  <2>2. \A one \in Tables : "teamEdits" \in DOMAIN one => one = TeamDoors BY TableNames DEF Tables
  <2>3. \A one \in Tables : "tagRemoval" \in DOMAIN one => one = TeamDoors BY TableNames DEF Tables
  <2>4. \A one \in Tables : "assistant" \in DOMAIN one => one = TeamDoors BY TableNames DEF Tables
  <2>0. TeamDoors \in Tables BY DEF Tables
  <2> QED BY <2>0, <2>1, <2>2, <2>3, <2>4, TableNames, DoorIn DEF TeamDoors
<1>2. Doors["calendar"] = Open(Everyone) /\ Doors["calendarLink"] = Open(Managers)
  <2>1. \A one \in Tables : "calendar" \in DOMAIN one => one = CalendarDoors BY TableNames DEF Tables
  <2>2. \A one \in Tables : "calendarLink" \in DOMAIN one => one = CalendarDoors BY TableNames DEF Tables
  <2>0. CalendarDoors \in Tables BY DEF Tables
  <2> QED BY <2>0, <2>1, <2>2, TableNames, DoorIn DEF CalendarDoors
<1>3. Doors["instances"] = Open(Everyone)
  <2>1. \A one \in Tables : "instances" \in DOMAIN one => one = InstanceDoors BY TableNames DEF Tables
  <2>0. InstanceDoors \in Tables BY DEF Tables
  <2> QED BY <2>0, <2>1, TableNames, DoorIn DEF InstanceDoors
<1>4. Doors["incidents"] = Open(Everyone) /\ Doors["incidentStatus"] = Open(Everyone)
  <2>1. \A one \in Tables : "incidents" \in DOMAIN one => one = IncidentDoors BY TableNames DEF Tables
  <2>2. \A one \in Tables : "incidentStatus" \in DOMAIN one => one = IncidentDoors BY TableNames DEF Tables
  <2>0. IncidentDoors \in Tables BY DEF Tables
  <2> QED BY <2>0, <2>1, <2>2, TableNames, DoorIn DEF IncidentDoors
<1>5. Doors["feedback"] = Open(Everyone) /\ Doors["feedbackStatus"] = Open(Managers)
  <2>1. \A one \in Tables : "feedback" \in DOMAIN one => one = FeedbackDoors BY TableNames DEF Tables
  <2>2. \A one \in Tables : "feedbackStatus" \in DOMAIN one => one = FeedbackDoors BY TableNames DEF Tables
  <2>0. FeedbackDoors \in Tables BY DEF Tables
  <2> QED BY <2>0, <2>1, <2>2, TableNames, DoorIn DEF FeedbackDoors
<1>6. Doors["replies"] = Open(Everyone) /\ Doors["replyEdits"] = Open(Seniors)
  <2>1. \A one \in Tables : "replies" \in DOMAIN one => one = QuickReplyDoors BY TableNames DEF Tables
  <2>2. \A one \in Tables : "replyEdits" \in DOMAIN one => one = QuickReplyDoors BY TableNames DEF Tables
  <2>0. QuickReplyDoors \in Tables BY DEF Tables
  <2> QED BY <2>0, <2>1, <2>2, TableNames, DoorIn DEF QuickReplyDoors
<1>7. Doors["stickers"] = Open(Everyone)
  <2>1. \A one \in Tables : "stickers" \in DOMAIN one => one = StickerDoors BY TableNames DEF Tables
  <2>0. StickerDoors \in Tables BY DEF Tables
  <2> QED BY <2>0, <2>1, TableNames, DoorIn DEF StickerDoors
<1>8. Doors["announcements"] = Open(Everyone)
  <2>1. \A one \in Tables : "announcements" \in DOMAIN one => one = AnnouncementDoors BY TableNames DEF Tables
  <2>0. AnnouncementDoors \in Tables BY DEF Tables
  <2> QED BY <2>0, <2>1, TableNames, DoorIn DEF AnnouncementDoors
<1>9. Doors["profile"] = Open(Everyone)
  <2>1. \A one \in Tables : "profile" \in DOMAIN one => one = ProfileDoors BY TableNames DEF Tables
  <2>0. ProfileDoors \in Tables BY DEF Tables
  <2> QED BY <2>0, <2>1, TableNames, DoorIn DEF ProfileDoors
<1>10. Doors["credentials"] = Open(Managers)
  <2>1. \A one \in Tables : "credentials" \in DOMAIN one => one = CredentialDoors BY TableNames DEF Tables
  <2>0. CredentialDoors \in Tables BY DEF Tables
  <2> QED BY <2>0, <2>1, TableNames, DoorIn DEF CredentialDoors
<1>11. Doors["dashboard"] = Door(Everyone, {"dashboard"})
  <2>1. \A one \in Tables : "dashboard" \in DOMAIN one => one = DashboardDoors BY TableNames DEF Tables
  <2>0. DashboardDoors \in Tables BY DEF Tables
  <2> QED BY <2>0, <2>1, TableNames, DoorIn DEF DashboardDoors
<1>12. Doors["conversations"] = Door(Everyone, {"conversations"})
  <2>1. \A one \in Tables : "conversations" \in DOMAIN one => one = ConversationDoors BY TableNames DEF Tables
  <2>0. ConversationDoors \in Tables BY DEF Tables
  <2> QED BY <2>0, <2>1, TableNames, DoorIn DEF ConversationDoors
<1>13. Doors["leads"] = Door(Everyone, {"crm-leads"})
  <2>1. \A one \in Tables : "leads" \in DOMAIN one => one = LeadDoors BY TableNames DEF Tables
  <2>0. LeadDoors \in Tables BY DEF Tables
  <2> QED BY <2>0, <2>1, TableNames, DoorIn DEF LeadDoors
<1>14. Doors["deals"] = Door(Everyone, {"crm-deals"})
  <2>1. \A one \in Tables : "deals" \in DOMAIN one => one = DealDoors BY TableNames DEF Tables
  <2>0. DealDoors \in Tables BY DEF Tables
  <2> QED BY <2>0, <2>1, TableNames, DoorIn DEF DealDoors
<1>15. Doors["pipelines"] = Door(Everyone, {"crm-pipelines"})
  <2>1. \A one \in Tables : "pipelines" \in DOMAIN one => one = PipelineDoors BY TableNames DEF Tables
  <2>0. PipelineDoors \in Tables BY DEF Tables
  <2> QED BY <2>0, <2>1, TableNames, DoorIn DEF PipelineDoors
<1>16. Doors["flows"] = Door(Everyone, Flowing)
  <2>1. \A one \in Tables : "flows" \in DOMAIN one => one = AutomationDoors BY TableNames DEF Tables
  <2>0. AutomationDoors \in Tables BY DEF Tables
  <2> QED BY <2>0, <2>1, TableNames, DoorIn DEF AutomationDoors
<1> QED BY <1>1, <1>2, <1>3, <1>4, <1>5, <1>6, <1>7, <1>8, <1>9, <1>10, <1>11, <1>12, <1>13, <1>14, <1>15, <1>16

LEMMA PageIs ==
  /\ DOMAIN Pages = {"dashboard", "conversations", "instances", "flows", "templates", "team", "incidents", "credentials",
                     "feedback", "calendar", "leads", "deals", "pipelines", "plan", "shell", "popup",
                     "clients", "announcements", "adminSettings"}
  /\ Pages["dashboard"] = DashboardPage /\ Pages["conversations"] = ConversationsPage /\ Pages["instances"] = InstancesPage
  /\ Pages["flows"] = FlowsPage /\ Pages["templates"] = TemplatesPage /\ Pages["team"] = TeamPage
  /\ Pages["incidents"] = IncidentsPage /\ Pages["credentials"] = CredentialsPage /\ Pages["feedback"] = FeedbackPage
  /\ Pages["calendar"] = CalendarPage /\ Pages["leads"] = LeadsPage /\ Pages["deals"] = DealsPage
  /\ Pages["pipelines"] = PipelinesPage /\ Pages["plan"] = PlanPage /\ Pages["shell"] = Shell /\ Pages["popup"] = Popup
  /\ Pages["clients"] = AdminPages["clients"] /\ Pages["announcements"] = AdminPages["announcements"]
  /\ Pages["adminSettings"] = AdminPages["adminSettings"]
BY DEF Pages, CompanyPages, AdminPages

LEMMA PageFields ==
  ASSUME NEW module, NEW asks
  PROVE  LET leaf == Page(module, asks) IN leaf.module = module /\ leaf.asks = asks /\ leaf.then = {} /\ leaf.offers = <<>>
BY DEF Page

LEMMA OpenIs == \A roles : Open(roles).roles = roles /\ Open(roles).modules = {}
BY DEF Open, Door

EachAlone(leaf) ==
  \A group \in leaf.asks :
    "incidentStatus" \notin group /\ ((\A d \in group : Doors[d] = Open(Everyone)) \/ (\E d : group = {d}))
ThenAlone(leaf) == leaf.then = {} \/ (leaf.asks # {} /\ \E d : d # "incidentStatus" /\ leaf.then = {d})
ForEveryone(leaf) ==
  leaf.module # "none" => \A group \in leaf.asks : \A d \in group : d # "credentials" => Doors[d].roles = Everyone
OffersMatch(leaf) ==
  \A d \in DOMAIN leaf.offers :
    /\ Doors[d].modules = {}
    /\ d # "incidentStatus" => Doors[d].roles = leaf.offers[d]
    /\ d = "incidentStatus" =>
         Doors[d].roles = Everyone /\ leaf.offers[d] = Managers /\ \E group \in leaf.asks : "team" \in group
PageSound(leaf) == EachAlone(leaf) /\ ThenAlone(leaf) /\ ForEveryone(leaf) /\ OffersMatch(leaf)

LEMMA DashboardPageSound == PageSound(DashboardPage) /\ DashboardPage.module = "dashboard"
<1>1. DashboardPage.module = "dashboard" /\ DashboardPage.asks = {{"dashboard"}}
      /\ DashboardPage.then = {} /\ DOMAIN DashboardPage.offers = {}
  BY DEF DashboardPage, Page
<1>2. OffersMatch(DashboardPage) BY <1>1 DEF OffersMatch
<1>3. EachAlone(DashboardPage)
  <2>1. \A group \in DashboardPage.asks : \E d : group = {d} /\ d # "incidentStatus" BY <1>1
  <2> QED BY <2>1 DEF EachAlone
<1>4. ThenAlone(DashboardPage) BY <1>1 DEF ThenAlone
<1>5. ForEveryone(DashboardPage) BY <1>1, DoorIs, OpenIs, DoorFields DEF ForEveryone
<1> QED BY <1>1, <1>2, <1>3, <1>4, <1>5 DEF PageSound

LEMMA ConversationsPageSound == PageSound(ConversationsPage) /\ ConversationsPage.module = "conversations"
<1>1. ConversationsPage.module = "conversations" /\ ConversationsPage.asks = {{"conversations"}, {"team", "incidents", "replies", "calendar"}, {"leads"}, {"stickers"}, {"instances"}}
      /\ ConversationsPage.then = {} /\ ConversationsPage.offers = [assistant |-> Managers, tagRemoval |-> Seniors, replyEdits |-> Seniors, incidentStatus |-> Managers]
  BY DEF ConversationsPage, Page, Offering
<1>2. OffersMatch(ConversationsPage) BY <1>1, DoorIs, OpenIs DEF OffersMatch
<1>3. EachAlone(ConversationsPage) BY <1>1, DoorIs DEF EachAlone
<1>4. ThenAlone(ConversationsPage) BY <1>1 DEF ThenAlone
<1>5. ForEveryone(ConversationsPage) BY <1>1, DoorIs, OpenIs, DoorFields DEF ForEveryone
<1> QED BY <1>1, <1>2, <1>3, <1>4, <1>5 DEF PageSound

LEMMA InstancesPageSound == PageSound(InstancesPage) /\ InstancesPage.module = "instances"
<1>1. InstancesPage.module = "instances" /\ InstancesPage.asks = {{"instances"}}
      /\ InstancesPage.then = {} /\ DOMAIN InstancesPage.offers = {}
  BY DEF InstancesPage, Page
<1>2. OffersMatch(InstancesPage) BY <1>1 DEF OffersMatch
<1>3. EachAlone(InstancesPage)
  <2>1. \A group \in InstancesPage.asks : \E d : group = {d} /\ d # "incidentStatus" BY <1>1
  <2> QED BY <2>1 DEF EachAlone
<1>4. ThenAlone(InstancesPage) BY <1>1 DEF ThenAlone
<1>5. ForEveryone(InstancesPage) BY <1>1, DoorIs, OpenIs, DoorFields DEF ForEveryone
<1> QED BY <1>1, <1>2, <1>3, <1>4, <1>5 DEF PageSound

LEMMA FlowsPageSound == PageSound(FlowsPage) /\ FlowsPage.module = "automations-flows"
<1>1. FlowsPage.module = "automations-flows" /\ FlowsPage.asks = {{"flows"}, {"instances"}}
      /\ FlowsPage.then = {} /\ DOMAIN FlowsPage.offers = {}
  BY DEF FlowsPage, Page
<1>2. OffersMatch(FlowsPage) BY <1>1 DEF OffersMatch
<1>3. EachAlone(FlowsPage)
  <2>1. \A group \in FlowsPage.asks : \E d : group = {d} /\ d # "incidentStatus" BY <1>1
  <2> QED BY <2>1 DEF EachAlone
<1>4. ThenAlone(FlowsPage) BY <1>1 DEF ThenAlone
<1>5. ForEveryone(FlowsPage) BY <1>1, DoorIs, OpenIs, DoorFields DEF ForEveryone
<1> QED BY <1>1, <1>2, <1>3, <1>4, <1>5 DEF PageSound

LEMMA TemplatesPageSound == PageSound(TemplatesPage) /\ TemplatesPage.module = "automations-templates"
<1>1. TemplatesPage.module = "automations-templates" /\ TemplatesPage.asks = {{"flows"}, {"instances"}}
      /\ TemplatesPage.then = {} /\ DOMAIN TemplatesPage.offers = {}
  BY DEF TemplatesPage, Page
<1>2. OffersMatch(TemplatesPage) BY <1>1 DEF OffersMatch
<1>3. EachAlone(TemplatesPage)
  <2>1. \A group \in TemplatesPage.asks : \E d : group = {d} /\ d # "incidentStatus" BY <1>1
  <2> QED BY <2>1 DEF EachAlone
<1>4. ThenAlone(TemplatesPage) BY <1>1 DEF ThenAlone
<1>5. ForEveryone(TemplatesPage) BY <1>1, DoorIs, OpenIs, DoorFields DEF ForEveryone
<1> QED BY <1>1, <1>2, <1>3, <1>4, <1>5 DEF PageSound

LEMMA TeamPageSound == PageSound(TeamPage) /\ TeamPage.module = "team"
<1>1. TeamPage.module = "team" /\ TeamPage.asks = {{"team"}}
      /\ TeamPage.then = {} /\ DOMAIN TeamPage.offers = {}
  BY DEF TeamPage, Page
<1>2. OffersMatch(TeamPage) BY <1>1 DEF OffersMatch
<1>3. EachAlone(TeamPage)
  <2>1. \A group \in TeamPage.asks : \E d : group = {d} /\ d # "incidentStatus" BY <1>1
  <2> QED BY <2>1 DEF EachAlone
<1>4. ThenAlone(TeamPage) BY <1>1 DEF ThenAlone
<1>5. ForEveryone(TeamPage) BY <1>1, DoorIs, OpenIs, DoorFields DEF ForEveryone
<1> QED BY <1>1, <1>2, <1>3, <1>4, <1>5 DEF PageSound

LEMMA IncidentsPageSound == PageSound(IncidentsPage) /\ IncidentsPage.module = "incidents"
<1>1. IncidentsPage.module = "incidents" /\ IncidentsPage.asks = {{"incidents", "team"}}
      /\ IncidentsPage.then = {} /\ IncidentsPage.offers = [incidentStatus |-> Managers]
  BY DEF IncidentsPage, Page, Offering
<1>2. OffersMatch(IncidentsPage) BY <1>1, DoorIs, OpenIs DEF OffersMatch
<1>3. EachAlone(IncidentsPage) BY <1>1, DoorIs DEF EachAlone
<1>4. ThenAlone(IncidentsPage) BY <1>1 DEF ThenAlone
<1>5. ForEveryone(IncidentsPage) BY <1>1, DoorIs, OpenIs, DoorFields DEF ForEveryone
<1> QED BY <1>1, <1>2, <1>3, <1>4, <1>5 DEF PageSound

LEMMA CredentialsPageSound == PageSound(CredentialsPage) /\ CredentialsPage.module = "api-settings"
<1>1. CredentialsPage.module = "api-settings" /\ CredentialsPage.asks = {{"credentials"}, {"instances"}}
      /\ CredentialsPage.then = {} /\ DOMAIN CredentialsPage.offers = {}
  BY DEF CredentialsPage, Page
<1>2. OffersMatch(CredentialsPage) BY <1>1 DEF OffersMatch
<1>3. EachAlone(CredentialsPage)
  <2>1. \A group \in CredentialsPage.asks : \E d : group = {d} /\ d # "incidentStatus" BY <1>1
  <2> QED BY <2>1 DEF EachAlone
<1>4. ThenAlone(CredentialsPage) BY <1>1 DEF ThenAlone
<1>5. ForEveryone(CredentialsPage) BY <1>1, DoorIs, OpenIs, DoorFields DEF ForEveryone
<1> QED BY <1>1, <1>2, <1>3, <1>4, <1>5 DEF PageSound

LEMMA FeedbackPageSound == PageSound(FeedbackPage) /\ FeedbackPage.module = "feedback"
<1>1. FeedbackPage.module = "feedback" /\ FeedbackPage.asks = {{"feedback"}}
      /\ FeedbackPage.then = {} /\ FeedbackPage.offers = [feedbackStatus |-> Managers]
  BY DEF FeedbackPage, Page, Offering
<1>2. OffersMatch(FeedbackPage) BY <1>1, DoorIs, OpenIs DEF OffersMatch
<1>3. EachAlone(FeedbackPage)
  <2>1. \A group \in FeedbackPage.asks : \E d : group = {d} /\ d # "incidentStatus" BY <1>1
  <2> QED BY <2>1 DEF EachAlone
<1>4. ThenAlone(FeedbackPage) BY <1>1 DEF ThenAlone
<1>5. ForEveryone(FeedbackPage) BY <1>1, DoorIs, OpenIs, DoorFields DEF ForEveryone
<1> QED BY <1>1, <1>2, <1>3, <1>4, <1>5 DEF PageSound

LEMMA CalendarPageSound == PageSound(CalendarPage) /\ CalendarPage.module = "calendar"
<1>1. CalendarPage.module = "calendar" /\ CalendarPage.asks = {{"calendar", "team"}}
      /\ CalendarPage.then = {"calendar"} /\ CalendarPage.offers = [calendarLink |-> Managers]
  BY DEF CalendarPage, Page, Offering
<1>2. OffersMatch(CalendarPage) BY <1>1, DoorIs, OpenIs DEF OffersMatch
<1>3. EachAlone(CalendarPage) BY <1>1, DoorIs DEF EachAlone
<1>4. ThenAlone(CalendarPage) BY <1>1 DEF ThenAlone
<1>5. ForEveryone(CalendarPage) BY <1>1, DoorIs, OpenIs, DoorFields DEF ForEveryone
<1> QED BY <1>1, <1>2, <1>3, <1>4, <1>5 DEF PageSound

LEMMA LeadsPageSound == PageSound(LeadsPage) /\ LeadsPage.module = "crm-leads"
<1>1. LeadsPage.module = "crm-leads" /\ LeadsPage.asks = {{"team"}, {"leads"}}
      /\ LeadsPage.then = {} /\ DOMAIN LeadsPage.offers = {}
  BY DEF LeadsPage, Page
<1>2. OffersMatch(LeadsPage) BY <1>1 DEF OffersMatch
<1>3. EachAlone(LeadsPage)
  <2>1. \A group \in LeadsPage.asks : \E d : group = {d} /\ d # "incidentStatus" BY <1>1
  <2> QED BY <2>1 DEF EachAlone
<1>4. ThenAlone(LeadsPage) BY <1>1 DEF ThenAlone
<1>5. ForEveryone(LeadsPage) BY <1>1, DoorIs, OpenIs, DoorFields DEF ForEveryone
<1> QED BY <1>1, <1>2, <1>3, <1>4, <1>5 DEF PageSound

LEMMA DealsPageSound == PageSound(DealsPage) /\ DealsPage.module = "crm-deals"
<1>1. DealsPage.module = "crm-deals" /\ DealsPage.asks = {{"team"}, {"pipelines"}, {"deals"}}
      /\ DealsPage.then = {} /\ DOMAIN DealsPage.offers = {}
  BY DEF DealsPage, Page
<1>2. OffersMatch(DealsPage) BY <1>1 DEF OffersMatch
<1>3. EachAlone(DealsPage)
  <2>1. \A group \in DealsPage.asks : \E d : group = {d} /\ d # "incidentStatus" BY <1>1
  <2> QED BY <2>1 DEF EachAlone
<1>4. ThenAlone(DealsPage) BY <1>1 DEF ThenAlone
<1>5. ForEveryone(DealsPage) BY <1>1, DoorIs, OpenIs, DoorFields DEF ForEveryone
<1> QED BY <1>1, <1>2, <1>3, <1>4, <1>5 DEF PageSound

LEMMA PipelinesPageSound == PageSound(PipelinesPage) /\ PipelinesPage.module = "crm-pipelines"
<1>1. PipelinesPage.module = "crm-pipelines" /\ PipelinesPage.asks = {{"pipelines"}}
      /\ PipelinesPage.then = {"deals"} /\ DOMAIN PipelinesPage.offers = {}
  BY DEF PipelinesPage, Page
<1>2. OffersMatch(PipelinesPage) BY <1>1 DEF OffersMatch
<1>3. EachAlone(PipelinesPage)
  <2>1. \A group \in PipelinesPage.asks : \E d : group = {d} /\ d # "incidentStatus" BY <1>1
  <2> QED BY <2>1 DEF EachAlone
<1>4. ThenAlone(PipelinesPage) BY <1>1 DEF ThenAlone
<1>5. ForEveryone(PipelinesPage) BY <1>1, DoorIs, OpenIs, DoorFields DEF ForEveryone
<1> QED BY <1>1, <1>2, <1>3, <1>4, <1>5 DEF PageSound

LEMMA PlanPageSound == PageSound(PlanPage) /\ PlanPage.module = "none"
<1>1. PlanPage.module = "none" /\ PlanPage.asks = {{"dashboard"}, {"billing"}}
      /\ PlanPage.then = {} /\ DOMAIN PlanPage.offers = {}
  BY DEF PlanPage, Page
<1>2. OffersMatch(PlanPage) BY <1>1 DEF OffersMatch
<1>3. EachAlone(PlanPage)
  <2>1. \A group \in PlanPage.asks : \E d : group = {d} /\ d # "incidentStatus" BY <1>1
  <2> QED BY <2>1 DEF EachAlone
<1>4. ThenAlone(PlanPage) BY <1>1 DEF ThenAlone
<1>5. ForEveryone(PlanPage) BY <1>1 DEF ForEveryone
<1> QED BY <1>1, <1>2, <1>3, <1>4, <1>5 DEF PageSound

LEMMA ShellSound == PageSound(Shell) /\ Shell.module = "none"
<1>1. Shell.module = "none" /\ Shell.asks = {{"profile"}, {"instances"}, {"calendar"}}
      /\ Shell.then = {} /\ Shell.offers = [credentials |-> Managers, teamEdits |-> Managers]
  BY DEF Shell, Page, Offering
<1>2. OffersMatch(Shell) BY <1>1, DoorIs, OpenIs DEF OffersMatch
<1>3. EachAlone(Shell)
  <2>1. \A group \in Shell.asks : \E d : group = {d} /\ d # "incidentStatus" BY <1>1
  <2> QED BY <2>1 DEF EachAlone
<1>4. ThenAlone(Shell) BY <1>1 DEF ThenAlone
<1>5. ForEveryone(Shell) BY <1>1 DEF ForEveryone
<1> QED BY <1>1, <1>2, <1>3, <1>4, <1>5 DEF PageSound

LEMMA PopupSound == PageSound(Popup) /\ Popup.module = "none"
<1>1. Popup.module = "none" /\ Popup.asks = {{"announcements"}}
      /\ Popup.then = {} /\ DOMAIN Popup.offers = {}
  BY DEF Popup, Page
<1>2. OffersMatch(Popup) BY <1>1 DEF OffersMatch
<1>3. EachAlone(Popup)
  <2>1. \A group \in Popup.asks : \E d : group = {d} /\ d # "incidentStatus" BY <1>1
  <2> QED BY <2>1 DEF EachAlone
<1>4. ThenAlone(Popup) BY <1>1 DEF ThenAlone
<1>5. ForEveryone(Popup) BY <1>1 DEF ForEveryone
<1> QED BY <1>1, <1>2, <1>3, <1>4, <1>5 DEF PageSound

LEMMA AdminSound ==
  ASSUME NEW p \in {"clients", "announcements", "adminSettings"}
  PROVE  PageSound(AdminPages[p]) /\ AdminPages[p].module = "none"
<1>1. PICK d \in {"admin", "announcements", "settings"} : AdminPages[p] = Page("none", {{d}})
  BY DEF AdminPages
<1>2. AdminPages[p].module = "none" /\ AdminPages[p].asks = {{d}} /\ AdminPages[p].then = {} /\ DOMAIN AdminPages[p].offers = {}
  BY <1>1 DEF Page
<1> QED BY <1>2 DEF PageSound, EachAlone, ThenAlone, ForEveryone, OffersMatch

LEMMA PagesSound ==
  \A p \in DOMAIN Pages :
    PageSound(Pages[p]) /\ (Pages[p].module # "none" => p \notin DOMAIN AdminPages \cup {"popup", "plan", "shell"})
<1>1. DOMAIN AdminPages = {"clients", "announcements", "adminSettings"} BY DEF AdminPages
<1>2. \A p \in DOMAIN AdminPages : PageSound(AdminPages[p]) /\ AdminPages[p].module = "none" BY <1>1, AdminSound
<1> QED
  BY <1>1, <1>2, PageIs, DashboardPageSound, ConversationsPageSound, InstancesPageSound, FlowsPageSound, TemplatesPageSound, TeamPageSound, IncidentsPageSound, CredentialsPageSound, FeedbackPageSound, CalendarPageSound, LeadsPageSound, DealsPageSound, PipelinesPageSound, PlanPageSound, ShellSound, PopupSound

Stands == stands # Nowhere
Here == Pages[stands]
Lost(group) == \E d \in group : ~Opens(d)
\* As long as nothing has changed since the page was opened.
AnswersAreTrue ==
  /\ \A d \in arrived : Opens(d)
  /\ enrolled => member
  /\ pressed # Nowhere => pressed.opened
  /\ Stands =>
       /\ Here.module # "none" => Here.module \in holds
       /\ \A group \in Here.asks :
            \/ group \in awaiting
            \/ Lost(group)
            \/ /\ group \subseteq arrived
               /\ (Here.then = {} \/ Here.then \in awaiting \/ Lost(Here.then) \/ Here.then \subseteq arrived)
       /\ \A group \in Here.asks : "team" \in group => group \in awaiting \/ enrolled = member
DoorInv ==
  /\ rank \in Everyone /\ member \in BOOLEAN /\ enrolled \in BOOLEAN /\ dated \in BOOLEAN
  /\ IF Stands THEN stands \in DOMAIN Pages /\ (\A group \in awaiting : group \in Here.asks \/ (group = Here.then /\ group # {}))
               ELSE awaiting = {} /\ arrived = {} /\ ~enrolled /\ pressed = Nowhere
  /\ ~dated => AnswersAreTrue

LEMMA OpensToAll == ASSUME rank \in Everyone, NEW d, d # "incidentStatus", Doors[d] = Open(Everyone) PROVE Opens(d)
BY DoorFields DEF Opens, RoleOpens, ModuleOpens, Concerned, Open

LEMMA OpensStays == ASSUME UNCHANGED <<rank, holds, member>> PROVE \A d : Opens(d)' = Opens(d)
BY DEF Opens, RoleOpens, ModuleOpens, Concerned

LEMMA DoorsSettle ==
  ASSUME Nowhere \notin DOMAIN Pages, DoorInv, [DoorsNext]_doorVars
  PROVE  DoorInv'
<1>u. CASE UNCHANGED doorVars
  BY <1>u, OpensStays DEF doorVars, DoorInv, AnswersAreTrue, Stands, Here, Lost
<1>1. ASSUME NEW p \in DOMAIN Pages, Visit(p) PROVE DoorInv'
  <2>1. /\ ~Stands /\ Shown(p) /\ stands' = p /\ awaiting' = Pages[p].asks /\ dated' = FALSE
        /\ UNCHANGED <<rank, holds, member, enrolled, arrived, lapses, pressed>>
    BY <1>1 DEF Visit, Stands
  <2>2. awaiting = {} /\ arrived = {} /\ ~enrolled /\ pressed = Nowhere BY <2>1 DEF DoorInv
  <2>3. Here' = Pages[p] BY <2>1 DEF Here
  <2>4. Pages[p].module # "none" => Pages[p].module \in holds
    BY <2>1, PagesSound DEF Shown
  <2>5. AnswersAreTrue' BY <2>1, <2>2, <2>3, <2>4 DEF AnswersAreTrue
  <2> QED BY <2>1, <2>2, <2>3, <2>5 DEF DoorInv, Stands
<1>2. ASSUME NEW group \in awaiting, Answer(group) PROVE DoorInv'
  <2>1. UNCHANGED <<rank, holds, member, stands, lapses, dated, pressed>> BY <1>2 DEF Answer
  <2>2. Here' = Here /\ (Stands' <=> Stands) BY <2>1 DEF Here, Stands
  <2>3. Stands /\ stands \in DOMAIN Pages /\ \A q \in awaiting : q \in Here.asks \/ (q = Here.then /\ q # {})
    BY DEF DoorInv
  <2>4. PageSound(Here) BY <2>3, PagesSound DEF Here
  <2>5. \A d : Opens(d)' = Opens(d) BY <2>1, OpensStays
  <2>l. \A q : Lost(q)' <=> Lost(q) BY <2>5 DEF Lost
  <2>6. IF \A d \in group : Opens(d)
        THEN /\ arrived' = arrived \cup group
             /\ awaiting' = (awaiting \ {group}) \cup Following(group)
             /\ enrolled' = IF "team" \in group THEN member ELSE enrolled
        ELSE awaiting' = awaiting \ {group} /\ UNCHANGED <<arrived, enrolled>>
    BY <1>2 DEF Answer
  <2>7. Following(group) = IF group \in Here.asks THEN {Here.then} \ {{}} ELSE {} BY DEF Following, Here
  <2>8. enrolled' \in BOOLEAN /\ \A q \in awaiting' : q \in Here.asks \/ (q = Here.then /\ q # {})
    BY <2>3, <2>6, <2>7 DEF DoorInv
  <2>9. ASSUME ~dated PROVE AnswersAreTrue'
    <3>0. AnswersAreTrue BY <2>9 DEF DoorInv
    <3>1. \A d \in arrived' : Opens(d)' BY <3>0, <2>5, <2>6 DEF AnswersAreTrue
    <3>2. enrolled' => member' BY <3>0, <2>1, <2>6 DEF AnswersAreTrue
    <3>3. (pressed' # Nowhere => pressed'.opened) /\ (Here'.module # "none" => Here'.module \in holds')
      BY <3>0, <2>1, <2>2, <2>3 DEF AnswersAreTrue
    <3>4. ASSUME NEW q \in Here.asks
          PROVE  \/ q \in awaiting'
                 \/ Lost(q)
                 \/ /\ q \subseteq arrived'
                    /\ (Here.then = {} \/ Here.then \in awaiting' \/ Lost(Here.then) \/ Here.then \subseteq arrived')
      <4>1. CASE q = group
        BY <4>1, <2>6, <2>7 DEF Lost
      <4>2. CASE q # group
        <5>1. \/ q \in awaiting
              \/ Lost(q)
              \/ /\ q \subseteq arrived
                 /\ (Here.then = {} \/ Here.then \in awaiting \/ Lost(Here.then) \/ Here.then \subseteq arrived)
          BY <3>0, <2>3 DEF AnswersAreTrue
        <5>2. Here.then \in awaiting => Here.then \in awaiting' \/ Lost(Here.then) \/ Here.then \subseteq arrived'
          BY <2>6 DEF Lost
        <5>3. arrived \subseteq arrived' /\ (q \in awaiting => q \in awaiting') BY <2>6, <4>2
        <5> QED BY <5>1, <5>2, <5>3
      <4> QED BY <4>1, <4>2
    <3>5. ASSUME NEW q \in Here.asks, "team" \in q PROVE q \in awaiting' \/ enrolled' = member
      <4>1. q \in awaiting \/ enrolled = member BY <3>0, <2>3, <3>5 DEF AnswersAreTrue
      <4>2. \A d \in q : Opens(d)
        <5>1. "incidentStatus" \notin q /\ ((\A d \in q : Doors[d] = Open(Everyone)) \/ (\E d : q = {d}))
          BY <2>4 DEF PageSound, EachAlone
        <5>2. \A d \in q : d # "incidentStatus" /\ Doors[d] = Open(Everyone) BY <5>1, <3>5, DoorIs
        <5> QED BY <5>2, OpensToAll DEF DoorInv
      <4>3. CASE group = q BY <4>2, <4>3, <2>6, <3>5
      <4>4. CASE group # q BY <4>1, <4>4, <2>6
      <4> QED BY <4>3, <4>4
    <3> QED BY <3>1, <3>2, <3>3, <3>4, <3>5, <2>1, <2>2, <2>l DEF AnswersAreTrue
  <2> QED BY <2>1, <2>2, <2>3, <2>8, <2>9 DEF DoorInv
<1>3. ASSUME NEW d \in DOMAIN Doors, Press(d) PROVE DoorInv'
  <2>1. /\ Offered(d) /\ pressed' = [door |-> d, opened |-> Opens(d)]
        /\ UNCHANGED <<rank, holds, member, enrolled, stands, awaiting, arrived, lapses, dated>>
    BY <1>3 DEF Press
  <2>2. Stands /\ stands \in DOMAIN Pages BY <2>1 DEF Offered, DoorInv, Stands
  <2>3. PageSound(Here) BY <2>2, PagesSound DEF Here
  <2>4. d \in DOMAIN Here.offers /\ (rank \in Here.offers[d] \/ (d = "incidentStatus" /\ enrolled))
    BY <2>1 DEF Offered, Here
  <2>5. ASSUME ~dated PROVE Opens(d)
    <3>1. enrolled => member BY <2>5 DEF DoorInv, AnswersAreTrue
    <3>2. Doors[d].modules = {} /\ (d # "incidentStatus" => Doors[d].roles = Here.offers[d])
          /\ (d = "incidentStatus" => Doors[d].roles = Everyone /\ Here.offers[d] = Managers)
      BY <2>3, <2>4 DEF PageSound, OffersMatch
    <3>3. rank \in Everyone BY DEF DoorInv
    <3> QED BY <3>1, <3>2, <3>3, <2>4 DEF Opens, RoleOpens, ModuleOpens, Concerned
  <2>6. \A e : Opens(e)' = Opens(e) BY <2>1, OpensStays
  <2>7. pressed'.opened = Opens(d) BY <2>1
  <2> QED BY <2>1, <2>2, <2>5, <2>6, <2>7 DEF DoorInv, AnswersAreTrue, Stands, Here, Lost
<1>4. CASE Lapse
  BY <1>4 DEF Lapse, DoorInv, Stands, Here
<1> QED BY <1>u, <1>1, <1>2, <1>3, <1>4 DEF DoorsNext

LEMMA DoorsStart == DoorsInit => DoorInv
BY DEF DoorsInit, DoorInv, AnswersAreTrue, Stands

LEMMA DoorsShow == DoorInv => DoorsAgree
<1> SUFFICES ASSUME DoorInv PROVE DoorsAgree OBVIOUS
<1>p. ASSUME Settled
      PROVE  /\ Stands /\ stands \in DOMAIN Pages /\ awaiting = {} /\ ~dated /\ AnswersAreTrue /\ PageSound(Here)
  <2>1. Stands /\ awaiting = {} /\ ~dated BY <1>p DEF Settled, Stands
  <2>2. stands \in DOMAIN Pages /\ AnswersAreTrue BY <2>1 DEF DoorInv
  <2> QED BY <2>1, <2>2, PagesSound DEF Here
<1>a. ASSUME Settled, NEW group \in Here.asks
      PROVE  \/ Lost(group)
             \/ (group \subseteq arrived /\ (Here.then = {} \/ Lost(Here.then) \/ Here.then \subseteq arrived))
  BY <1>a, <1>p DEF AnswersAreTrue
<1>d. ASSUME Settled, NEW d \in UNION Here.asks, Opens(d) PROVE d \in arrived
  <2>1. PICK group \in Here.asks : d \in group OBVIOUS
  <2>2. CASE group \subseteq arrived BY <2>1, <2>2
  <2>3. CASE Lost(group)
    <3>1. "incidentStatus" \notin group /\ ((\A e \in group : Doors[e] = Open(Everyone)) \/ (\E e : group = {e}))
      BY <1>d, <1>p DEF PageSound, EachAlone
    <3>2. rank \in Everyone BY DEF DoorInv
    <3>3. ~\E e : group = {e} BY <2>1, <2>3, <1>d DEF Lost
    <3> QED BY <3>1, <3>2, <3>3, <2>3, OpensToAll DEF Lost
  <2> QED BY <2>2, <2>3, <1>a, <1>d
<1>1. RefusalsStayAlone
  <2> SUFFICES ASSUME Settled, UNION Here.asks \subseteq arrived, NEW d \in Here.then, Opens(d) PROVE d \in arrived
    <3>1. \A d \in UNION Here.asks : Settled /\ Opens(d) => d \in arrived BY <1>d
    <3> QED BY <3>1 DEF RefusalsStayAlone, Here
  <2>1. PICK group \in Here.asks : TRUE BY <1>p DEF PageSound, ThenAlone
  <2>2. \E e : Here.then = {e} BY <1>p DEF PageSound, ThenAlone
  <2>3. group \subseteq arrived OBVIOUS
  <2>4. ~Lost(group) BY <2>3, <1>p DEF AnswersAreTrue, Lost
  <2>5. ~Lost(Here.then) BY <2>2 DEF Lost
  <2> QED BY <2>4, <2>5, <1>a
<1>2. MenuLeadsToLists
  <2> SUFFICES ASSUME Settled, Here.module # "none", NEW d \in (UNION Here.asks) \ {"credentials"},
                      Doors[d].modules = {} \/ Here.module \in Doors[d].modules
               PROVE  d \in arrived
    BY DEF MenuLeadsToLists, Here
  <2>0. PICK group \in Here.asks : d \in group OBVIOUS
  <2>a. ForEveryone(Here) BY <1>p DEF PageSound
  <2>b. d # "credentials" OBVIOUS
  <2>1. Doors[d].roles = Everyone BY <2>0, <2>a, <2>b DEF ForEveryone
  <2>2. d # "incidentStatus" BY <2>0, <1>p DEF PageSound, EachAlone
  <2>3. Here.module \in holds BY <1>p DEF AnswersAreTrue
  <2>4. Opens(d) BY <2>1, <2>2, <2>3 DEF Opens, RoleOpens, ModuleOpens, Concerned, DoorInv
  <2> QED BY <2>4, <1>d
<1>3. ControlsAreTheDoors
  <2>1. pressed # Nowhere /\ ~dated => pressed.opened BY DEF DoorInv, AnswersAreTrue
  <2>2. ASSUME Settled, NEW d \in DOMAIN Here.offers, Opens(d) PROVE Offered(d)
    <3>1. /\ d # "incidentStatus" => Doors[d].roles = Here.offers[d]
          /\ d = "incidentStatus" => Here.offers[d] = Managers /\ \E group \in Here.asks : "team" \in group
      BY <2>2, <1>p DEF PageSound, OffersMatch
    <3>2. (\E group \in Here.asks : "team" \in group) => enrolled = member
      BY <2>2, <1>p DEF AnswersAreTrue
    <3>3. rank \in Doors[d].roles /\ (d # "incidentStatus" \/ rank \in Managers \/ member)
      BY <2>2 DEF Opens, RoleOpens, Concerned
    <3>4. enrolled \in BOOLEAN /\ member \in BOOLEAN BY DEF DoorInv
    <3>5. rank \in Here.offers[d] \/ (d = "incidentStatus" /\ enrolled) BY <3>1, <3>2, <3>3, <3>4
    <3> QED BY <3>5, <2>2, <1>p DEF Offered, Here, Stands
  <2> QED BY <2>1, <2>2 DEF ControlsAreTheDoors, Here
<1> QED BY <1>1, <1>2, <1>3 DEF DoorsAgree

TabInv ==
  /\ part = "browser" => SessionInv
  /\ part = "menu" => MenuInv
  /\ part = "doorway" => DoorInv

(* Whatever tabs are opened, whoever logs in, enters a client's panel or is *)
(* gone meanwhile: every tab acts for the one it names, its menu shows what *)
(* the guard opens to that one, and so do its pages (api.ts,                *)
(* app-shell.tsx, module-access.guard.ts).                                  *)
THEOREM EveryTabActsAsShown == BackOfficeSpec => []TabActsAsShown
<1> USE BackOfficeAssumption
<1>1. BackOfficeInit => TabInv
  BY SessionStarts, MenuStarts, DoorsStart DEF BackOfficeInit, BackOfficeAssumption, TabInv
<1>2. TabInv /\ [BackOfficeNext]_allVars => TabInv'
  <2> SUFFICES ASSUME TabInv, [BackOfficeNext]_allVars PROVE TabInv'
    OBVIOUS
  <2>1. part' = part
    BY DEF BackOfficeNext, allVars
  <2>2. ASSUME part = "browser" PROVE SessionInv'
    <3>1. SessionInv /\ [Browser!BrowserNext]_browserVars
      BY <2>2 DEF BackOfficeNext, allVars, TabInv, browserVars
    <3> QED BY <3>1, SessionSettle DEF BackOfficeAssumption, browserVars
  <2>3. ASSUME part = "menu" PROVE MenuInv'
    <3>1. MenuInv /\ [Menu!AccessNext]_accessVars
      BY <2>3 DEF BackOfficeNext, allVars, TabInv, accessVars
    <3> QED BY <3>1, MenuSettle DEF BackOfficeAssumption, accessVars
  <2>4. ASSUME part = "doorway" PROVE DoorInv'
    <3>1. DoorInv /\ [DoorsNext]_doorVars
      BY <2>4 DEF BackOfficeNext, allVars, TabInv
    <3> QED BY <3>1, DoorsSettle DEF DoorsAssumption
  <2> QED BY <2>1, <2>2, <2>3, <2>4 DEF TabInv
<1>3. TabInv => TabActsAsShown
  BY SessionShows, MenuShows, DoorsShow DEF TabInv, TabActsAsShown, BackOfficeAssumption
<1> QED BY <1>1, <1>2, <1>3, PTL DEF BackOfficeSpec

-----------------------------------------------------------------------------
(* The lists. *)

Content == Lists!Value \cup {"gone"}
Hows == {Lists!SaveThenLoad, Lists!SaveThenPatch, Lists!TryOrLoad, Lists!TryOrUndo, Lists!TryOrRestore, Lists!Try}
ALoad == [kind : {"load"}, of : Lists!Filter, state : {"sent", "done"}, value : Content \cup {None}, when : Nat]
AWrite == [kind : {"write"}, to : Content, how : Hows, back : [of : Lists!Filter, value : Lists!Value], state : {"sent", "done", "refused"}, when : Nat]
AnAnswer == [kind : {"load", "write"}, state : {"used"}, when : Nat]
Item == [value : Content, when : Nat]
AnExchange == ALoad \cup AWrite \cup AnAnswer
Is(i, k, s) == exchanges[i].kind = k /\ exchanges[i].state = s
Sent == {i \in DOMAIN exchanges : Is(i, "load", "sent")}
Done == {i \in DOMAIN exchanges : Is(i, "load", "done")}
Writes == {i \in DOMAIN exchanges : exchanges[i].kind = "write" /\ exchanges[i].state # "used"}

\* What is so of every page.
PageOK ==
  /\ screen.changes \subseteq Hows /\ screen.removals \subseteq Hows
  /\ screen.event = "load" => screen.again /\ Lists!Ways \subseteq {Lists!SaveThenLoad, Lists!TryOrLoad}
  /\ screen.event = "merge" => Lists!Ways \subseteq {Lists!SaveThenLoad}
  /\ screen.event \notin {"load", "merge"} => Lists!Ways \subseteq {Lists!SaveThenLoad} \/ ~(Lists!Ways \subseteq {Lists!SaveThenLoad, Lists!SaveThenPatch})
  /\ Lists!TryOrUndo \notin screen.removals

LEMMA HowsAre ==
  /\ Lists!SaveThenLoad.early = FALSE /\ Lists!SaveThenLoad.after = "load" /\ Lists!SaveThenLoad.refused = "nothing"
  /\ Lists!SaveThenPatch.early = FALSE /\ Lists!SaveThenPatch.after = "patch" /\ Lists!SaveThenPatch.refused = "nothing"
  /\ Lists!TryOrLoad.early = TRUE /\ Lists!TryOrLoad.after = "nothing" /\ Lists!TryOrLoad.refused = "load"
  /\ Lists!TryOrUndo.early = TRUE /\ Lists!TryOrUndo.after = "nothing" /\ Lists!TryOrUndo.refused = "undo"
  /\ Lists!TryOrRestore.early = TRUE /\ Lists!TryOrRestore.after = "nothing" /\ Lists!TryOrRestore.refused = "restore"
  /\ Lists!Try.early = TRUE /\ Lists!Try.after = "nothing" /\ Lists!Try.refused = "nothing"
BY DEF Lists!SaveThenLoad, Lists!SaveThenPatch, Lists!TryOrLoad, Lists!TryOrUndo, Lists!TryOrRestore, Lists!Try

LEMMA HowsApart ==
  /\ Lists!SaveThenLoad \notin {Lists!SaveThenPatch, Lists!TryOrLoad, Lists!TryOrUndo, Lists!TryOrRestore, Lists!Try}
  /\ Lists!SaveThenPatch \notin {Lists!TryOrLoad, Lists!TryOrUndo, Lists!TryOrRestore, Lists!Try}
  /\ Lists!TryOrLoad \notin {Lists!TryOrUndo, Lists!TryOrRestore, Lists!Try}
  /\ Lists!TryOrUndo \notin {Lists!TryOrRestore, Lists!Try}
  /\ Lists!TryOrRestore # Lists!Try
BY HowsAre

LEMMA PagesAre == ASSUME screen \in Lists!PanelPages \cup Lists!AdminPages PROVE PageOK
<1> SUFFICES ASSUME NEW c \in SUBSET Hows, NEW r \in SUBSET Hows, NEW e, NEW a \in BOOLEAN, NEW f,
                    screen = Lists!Page(c, r, e, a, f),
                    e = "load" => a /\ c \cup r \subseteq {Lists!SaveThenLoad, Lists!TryOrLoad},
                    e = "merge" => c \cup r \subseteq {Lists!SaveThenLoad},
                    e \notin {"load", "merge"} => c \cup r \subseteq {Lists!SaveThenLoad} \/ ~(c \cup r \subseteq {Lists!SaveThenLoad, Lists!SaveThenPatch}),
                    Lists!TryOrUndo \notin r
             PROVE PageOK
  BY HowsApart DEF Lists!PanelPages, Lists!AdminPages, Lists!TeamPage, Lists!StagesModal, Lists!DealsPage, Lists!LeadsPage, Lists!PipelinesPage, Lists!DashboardPage, Lists!WeekPage,
     Lists!TodayBell, Lists!FlowsPage, Lists!FeedbackPage, Lists!KeysPage, Lists!InstancesPage, Lists!StatusToast, Lists!MyPlanPage, Lists!ClientsPage, Lists!LicensesPage, Lists!PlansPage,
     Lists!PaymentMethodsPage, Lists!PaymentRequestsPage, Lists!AnnouncementsPage, Lists!AnnouncementPopup, Lists!SecurityPage, Lists!FilesPage, Hows
<1>1. screen.changes = c /\ screen.removals = r /\ screen.event = e /\ screen.again = a
  BY DEF Lists!Page
<1> QED BY <1>1 DEF PageOK, Lists!Ways

-----------------------------------------------------------------------------
(* What the steps do to the exchanges. *)

ListTyped ==
  /\ screen \in Lists!PanelPages \cup Lists!AdminPages /\ table \in Content /\ filter \in Lists!Filter
  /\ shown \in [of : Lists!Filter, value : Content \cup {None}]
  /\ exchanges \in Seq(AnExchange) /\ Len(exchanges) <= MaxExchanges
  /\ clock \in Nat /\ used \in 0..clock /\ \A i \in DOMAIN exchanges : exchanges[i].when <= clock
  /\ news \in Seq(Item) /\ \A n \in DOMAIN news : news[n].when <= clock
  /\ socket \in {"off", "joining", "on"} /\ others \in 0..MaxOthers /\ drops \in 0..MaxDrops
  /\ ~Lists!Live => socket = "on" /\ news = <<>>
  /\ \A i \in Done : exchanges[i].value \in Content
  /\ \A i \in Writes : exchanges[i].how \in Lists!Handling(exchanges[i].to)

New == Len(exchanges) + 1
ExchangesKept == \A k \in DOMAIN exchanges : exchanges'[k] = exchanges[k]
OthersKept(i) == \A k \in DOMAIN exchanges \ {i} : exchanges'[k] = exchanges[k]

LEMMA Indexes ==
  ASSUME exchanges \in Seq(AnExchange)
  PROVE  /\ DOMAIN exchanges = 1..Len(exchanges) /\ Len(exchanges) \in Nat /\ New \in Nat /\ New \notin DOMAIN exchanges
         /\ \A i \in DOMAIN exchanges : exchanges[i] \in AnExchange /\ i \in Nat /\ i < New
BY DEF New

LEMMA Kinds ==
  ASSUME exchanges \in Seq(AnExchange), NEW i \in DOMAIN exchanges
  PROVE  /\ exchanges[i].kind \in {"load", "write"} /\ exchanges[i].when \in Nat
         /\ exchanges[i].state \in {"sent", "done", "refused", "used"}
         /\ i \in Sent \cup Done => exchanges[i] \in ALoad
         /\ i \in Writes => exchanges[i] \in AWrite
         /\ exchanges[i].kind = "load" /\ exchanges[i].state # "used" => i \in Sent \cup Done
BY Indexes DEF AnExchange, ALoad, AWrite, AnAnswer, Sent, Done, Writes, Is

LEMMA AddLoad ==
  ASSUME ListTyped, NEW f \in Lists!Filter, exchanges' = Append(exchanges, Lists!Loading(f))
  PROVE  /\ exchanges' \in Seq(AnExchange) /\ Len(exchanges') = New /\ DOMAIN exchanges' = DOMAIN exchanges \cup {New}
         /\ ExchangesKept /\ exchanges'[New].kind = "load" /\ exchanges'[New].when = 0 /\ exchanges'[New].of = f /\ exchanges'[New].state = "sent"
         /\ Sent' = Sent \cup {New} /\ Done' = Done /\ Writes' = Writes
<1>1. Lists!Loading(f) \in AnExchange /\ exchanges \in Seq(AnExchange)
  BY DEF Lists!Loading, AnExchange, ALoad, ListTyped
<1>2. /\ exchanges' \in Seq(AnExchange) /\ Len(exchanges') = New /\ DOMAIN exchanges' = DOMAIN exchanges \cup {New}
      /\ ExchangesKept /\ exchanges'[New] = Lists!Loading(f)
  BY <1>1, Indexes DEF New, ExchangesKept
<1>3. exchanges'[New].kind = "load" /\ exchanges'[New].of = f /\ exchanges'[New].state = "sent" /\ exchanges'[New].when = 0
  BY <1>2 DEF Lists!Loading
<1> QED BY <1>1, <1>2, <1>3, Indexes DEF Sent, Done, Writes, Is, ExchangesKept

LEMMA AddWrite ==
  ASSUME ListTyped, NEW to \in Content, NEW how \in Hows, shown.value \in Lists!Value, exchanges' = Append(exchanges, Lists!Writing(to, how))
  PROVE  /\ exchanges' \in Seq(AnExchange) /\ Len(exchanges') = New /\ DOMAIN exchanges' = DOMAIN exchanges \cup {New}
         /\ ExchangesKept /\ exchanges'[New].kind = "write" /\ exchanges'[New].to = to /\ exchanges'[New].how = how /\ exchanges'[New].when = 0
         /\ exchanges'[New].back = shown /\ exchanges'[New].state = "sent"
         /\ Sent' = Sent /\ Done' = Done /\ Writes' = Writes \cup {New}
<1>1. Lists!Writing(to, how) \in AnExchange /\ exchanges \in Seq(AnExchange)
  BY DEF Lists!Writing, AnExchange, AWrite, ListTyped
<1>2. /\ exchanges' \in Seq(AnExchange) /\ Len(exchanges') = New /\ DOMAIN exchanges' = DOMAIN exchanges \cup {New}
      /\ ExchangesKept /\ exchanges'[New] = Lists!Writing(to, how)
  BY <1>1, Indexes DEF New, ExchangesKept
<1>3. /\ exchanges'[New].kind = "write" /\ exchanges'[New].to = to /\ exchanges'[New].how = how /\ exchanges'[New].when = 0
      /\ exchanges'[New].back = shown /\ exchanges'[New].state = "sent"
  BY <1>2 DEF Lists!Writing
<1> QED BY <1>1, <1>2, <1>3, Indexes DEF Sent, Done, Writes, Is, ExchangesKept

LEMMA UseIs ==
  ASSUME ListTyped, NEW i \in DOMAIN exchanges, NEW q, q = Lists!Used(i)
  PROVE  /\ q \in Seq(AnExchange) /\ Len(q) = Len(exchanges) /\ DOMAIN q = DOMAIN exchanges
         /\ \A k \in DOMAIN exchanges \ {i} : q[k] = exchanges[k]
         /\ q[i].kind = exchanges[i].kind /\ q[i].state = "used" /\ q[i].when = exchanges[i].when
<1> DEFINE e == [kind |-> exchanges[i].kind, state |-> "used", when |-> exchanges[i].when]
<1>1. exchanges \in Seq(AnExchange)
  BY DEF ListTyped
<1>2. e \in AnExchange
  BY <1>1, Kinds DEF AnExchange, AnAnswer
<1>3. q = [exchanges EXCEPT ![i] = e]
  BY DEF Lists!Used
<1>4. q[i] = e
  BY <1>1, <1>3
<1> HIDE DEF e
<1>5. q \in Seq(AnExchange) /\ Len(q) = Len(exchanges) /\ DOMAIN q = DOMAIN exchanges /\ \A k \in DOMAIN exchanges \ {i} : q[k] = exchanges[k]
  BY <1>1, <1>2, <1>3
<1> QED BY <1>4, <1>5 DEF e

LEMMA JustUse ==
  ASSUME ListTyped, NEW i \in DOMAIN exchanges, exchanges' = Lists!Used(i)
  PROVE  /\ exchanges' \in Seq(AnExchange) /\ Len(exchanges') = Len(exchanges) /\ DOMAIN exchanges' = DOMAIN exchanges
         /\ OthersKept(i) /\ exchanges'[i].kind = exchanges[i].kind /\ exchanges'[i].state = "used" /\ exchanges'[i].when = exchanges[i].when
         /\ Sent' = Sent \ {i} /\ Done' = Done \ {i} /\ Writes' = Writes \ {i}
<1>1. /\ exchanges' \in Seq(AnExchange) /\ Len(exchanges') = Len(exchanges) /\ DOMAIN exchanges' = DOMAIN exchanges
      /\ \A k \in DOMAIN exchanges \ {i} : exchanges'[k] = exchanges[k]
      /\ exchanges'[i].kind = exchanges[i].kind /\ exchanges'[i].state = "used" /\ exchanges'[i].when = exchanges[i].when
  BY UseIs
<1> QED BY <1>1 DEF OthersKept, Sent, Done, Writes, Is

LEMMA UseAndLoad ==
  ASSUME ListTyped, NEW i \in DOMAIN exchanges, exchanges' = Append(Lists!Used(i), Lists!Loading(filter))
  PROVE  /\ exchanges' \in Seq(AnExchange) /\ Len(exchanges') = New /\ DOMAIN exchanges' = DOMAIN exchanges \cup {New}
         /\ OthersKept(i) /\ exchanges'[i].kind = exchanges[i].kind /\ exchanges'[i].state = "used" /\ exchanges'[i].when = exchanges[i].when
         /\ exchanges'[New].kind = "load" /\ exchanges'[New].of = filter /\ exchanges'[New].state = "sent" /\ exchanges'[New].when = 0
         /\ Sent' = (Sent \ {i}) \cup {New} /\ Done' = Done \ {i} /\ Writes' = Writes \ {i}
<1>1. PICK q : q = Lists!Used(i)
  OBVIOUS
<1>2. /\ q \in Seq(AnExchange) /\ Len(q) = Len(exchanges) /\ DOMAIN q = DOMAIN exchanges
      /\ \A k \in DOMAIN exchanges \ {i} : q[k] = exchanges[k]
      /\ q[i].kind = exchanges[i].kind /\ q[i].state = "used" /\ q[i].when = exchanges[i].when
  BY <1>1, UseIs
<1>3. Lists!Loading(filter) \in AnExchange /\ exchanges' = Append(q, Lists!Loading(filter)) /\ exchanges \in Seq(AnExchange)
  BY <1>1 DEF Lists!Loading, AnExchange, ALoad, ListTyped
<1>4. /\ exchanges' \in Seq(AnExchange) /\ Len(exchanges') = New /\ DOMAIN exchanges' = DOMAIN exchanges \cup {New}
      /\ \A k \in DOMAIN exchanges : exchanges'[k] = q[k]
      /\ exchanges'[New] = Lists!Loading(filter)
  BY <1>2, <1>3, Indexes DEF New
<1>5. exchanges'[New].kind = "load" /\ exchanges'[New].of = filter /\ exchanges'[New].state = "sent" /\ exchanges'[New].when = 0
  BY <1>4 DEF Lists!Loading
<1>6. /\ OthersKept(i) /\ exchanges'[i].kind = exchanges[i].kind /\ exchanges'[i].state = "used" /\ exchanges'[i].when = exchanges[i].when
  BY <1>2, <1>4 DEF OthersKept
<1>7. New \notin DOMAIN exchanges
  BY <1>3, Indexes
<1> QED BY <1>4, <1>5, <1>6, <1>7 DEF OthersKept, Sent, Done, Writes, Is

LEMMA LoadServed ==
  ASSUME ListTyped, NEW i \in DOMAIN exchanges, Lists!ServeLoad(i)
  PROVE  /\ exchanges' \in Seq(AnExchange) /\ Len(exchanges') = Len(exchanges) /\ DOMAIN exchanges' = DOMAIN exchanges
         /\ OthersKept(i) /\ exchanges'[i].kind = "load" /\ exchanges'[i].state = "done" /\ exchanges'[i].of = exchanges[i].of
         /\ exchanges'[i].value = table /\ exchanges'[i].when = clock + 1
         /\ i \in Sent /\ Sent' = Sent \ {i} /\ Done' = Done \cup {i} /\ Writes' = Writes
<1> DEFINE e == [exchanges[i] EXCEPT !.state = "done", !.value = table, !.when = clock']
<1>0. exchanges \in Seq(AnExchange) /\ i \in Sent /\ table \in Content /\ clock' \in Nat /\ clock' = clock + 1
  BY DEF ListTyped, Lists!ServeLoad, Sent, Is
<1>1. exchanges[i] \in ALoad
  BY <1>0, Kinds
<1>2. e \in ALoad /\ e.kind = "load" /\ e.state = "done" /\ e.of = exchanges[i].of /\ e.value = table /\ e.when = clock'
  BY <1>0, <1>1 DEF ALoad, Content
<1>3. exchanges' = [exchanges EXCEPT ![i] = e]
  BY <1>0 DEF Lists!ServeLoad
<1> HIDE DEF e
<1>4. /\ exchanges' \in Seq(AnExchange) /\ Len(exchanges') = Len(exchanges) /\ DOMAIN exchanges' = DOMAIN exchanges
      /\ OthersKept(i) /\ exchanges'[i] = e
  BY <1>0, <1>2, <1>3 DEF AnExchange, OthersKept
<1> QED BY <1>0, <1>2, <1>4 DEF OthersKept, Sent, Done, Writes, Is

LEMMA WriteServed ==
  ASSUME ListTyped, NEW i \in DOMAIN exchanges, Lists!ServeWrite(i)
  PROVE  /\ exchanges' \in Seq(AnExchange) /\ Len(exchanges') = Len(exchanges) /\ DOMAIN exchanges' = DOMAIN exchanges
         /\ OthersKept(i) /\ exchanges'[i].kind = "write" /\ exchanges'[i].to = exchanges[i].to /\ exchanges'[i].how = exchanges[i].how
         /\ exchanges'[i].back = exchanges[i].back
         /\ \/ exchanges'[i].state = "done" /\ exchanges'[i].when = clock + 1 /\ table # "gone" /\ table' = exchanges[i].to /\ Lists!Tells(exchanges[i].to)
            \/ exchanges'[i].state = "refused" /\ exchanges'[i].when = exchanges[i].when /\ UNCHANGED <<table, news>>
         /\ i \in Writes /\ exchanges[i].state = "sent" /\ Sent' = Sent /\ Done' = Done /\ Writes' = Writes
<1>0. exchanges \in Seq(AnExchange) /\ i \in Writes /\ clock' \in Nat /\ clock' = clock + 1 /\ exchanges[i].state = "sent"
  BY DEF ListTyped, Lists!ServeWrite, Writes
<1>1. exchanges[i] \in AWrite
  BY <1>0, Kinds
<1>2. PICK e : /\ exchanges' = [exchanges EXCEPT ![i] = e]
               /\ e \in AWrite /\ e.kind = "write" /\ e.to = exchanges[i].to /\ e.how = exchanges[i].how /\ e.back = exchanges[i].back
               /\ \/ e.state = "done" /\ e.when = clock + 1 /\ table # "gone" /\ table' = exchanges[i].to /\ Lists!Tells(exchanges[i].to)
                  \/ e.state = "refused" /\ e.when = exchanges[i].when /\ UNCHANGED <<table, news>>
  <2>1. CASE table # "gone" /\ table' = exchanges[i].to /\ Lists!Tells(exchanges[i].to) /\ exchanges' = [exchanges EXCEPT ![i].state = "done", ![i].when = clock']
    <3> DEFINE e == [exchanges[i] EXCEPT !.state = "done", !.when = clock']
    <3>1. /\ e \in AWrite /\ e.kind = "write" /\ e.to = exchanges[i].to /\ e.how = exchanges[i].how /\ e.back = exchanges[i].back
          /\ e.state = "done" /\ e.when = clock + 1
      BY <1>0, <1>1 DEF AWrite
    <3>2. exchanges' = [exchanges EXCEPT ![i] = e]
      BY <2>1
    <3> HIDE DEF e
    <3> QED BY <3>1, <3>2, <2>1
  <2>2. CASE exchanges' = [exchanges EXCEPT ![i].state = "refused"] /\ UNCHANGED <<table, news>>
    <3> DEFINE e == [exchanges[i] EXCEPT !.state = "refused"]
    <3>1. /\ e \in AWrite /\ e.kind = "write" /\ e.to = exchanges[i].to /\ e.how = exchanges[i].how /\ e.back = exchanges[i].back
          /\ e.state = "refused" /\ e.when = exchanges[i].when
      BY <1>0, <1>1 DEF AWrite
    <3>2. exchanges' = [exchanges EXCEPT ![i] = e]
      BY <2>2
    <3> HIDE DEF e
    <3> QED BY <3>1, <3>2, <2>2
  <2> QED BY <2>1, <2>2 DEF Lists!ServeWrite
<1>4. /\ exchanges' \in Seq(AnExchange) /\ Len(exchanges') = Len(exchanges) /\ DOMAIN exchanges' = DOMAIN exchanges
      /\ OthersKept(i) /\ exchanges'[i] = e
  BY <1>0, <1>2 DEF AnExchange, OthersKept
<1>5. Sent' = Sent /\ Done' = Done /\ Writes' = Writes
  BY <1>0, <1>2, <1>4 DEF OthersKept, Sent, Done, Writes, Is
<1> QED BY <1>0, <1>2, <1>4, <1>5

-----------------------------------------------------------------------------
(* The types. *)

LEMMA TypesAre ==
  ASSUME ListTyped
  PROVE  /\ exchanges \in Seq(AnExchange) /\ shown.of \in Lists!Filter /\ shown.value \in Content \cup {None} /\ PageOK
         /\ table \in Content /\ clock \in Nat /\ used \in Nat /\ filter \in Lists!Filter
         /\ \A i \in DOMAIN exchanges : exchanges[i].when \in Nat /\ exchanges[i].when <= clock
         /\ \A i \in Writes : exchanges[i].how \in Hows /\ exchanges[i].how \in Lists!Ways /\ exchanges[i].to \in Content
         /\ \A i \in Writes : exchanges[i].back.of \in Lists!Filter /\ exchanges[i].back.value \in Lists!Value
         /\ \A i \in Done : exchanges[i].value \in Content
         /\ \A i \in Sent \cup Done : exchanges[i].of \in Lists!Filter
<1>1. exchanges \in Seq(AnExchange) /\ PageOK
  BY PagesAre DEF ListTyped
<1>2. \A i \in DOMAIN exchanges : exchanges[i].when \in Nat /\ exchanges[i].when <= clock
  BY <1>1, Kinds DEF ListTyped
<1>3. \A i \in Writes : exchanges[i] \in AWrite
  BY <1>1, Kinds DEF Writes
<1>4. \A i \in Sent \cup Done : exchanges[i] \in ALoad
  BY <1>1, Kinds DEF Sent, Done
<1>5. \A i \in Writes : exchanges[i].how \in Hows /\ exchanges[i].how \in Lists!Ways /\ exchanges[i].to \in Content
  BY <1>3, <1>1 DEF AWrite, ListTyped, Lists!Handling, Lists!Ways, PageOK
<1>6. \A i \in Writes : exchanges[i].back.of \in Lists!Filter /\ exchanges[i].back.value \in Lists!Value
  BY <1>3 DEF AWrite
<1>7. \A i \in Sent \cup Done : exchanges[i].of \in Lists!Filter
  BY <1>4 DEF ALoad
<1> QED BY <1>1, <1>2, <1>5, <1>6, <1>7 DEF ListTyped

LEMMA NewsAre ==
  ASSUME news \in Seq(Item)
  PROVE  \A n \in DOMAIN news : news[n].when \in Nat /\ news[n].value \in Content
<1>1. \A n \in DOMAIN news : news[n] \in Item
  OBVIOUS
<1> QED BY <1>1 DEF Item

\* What a step leaves alone, or does to the row and the answers, as a type.
LEMMA RecordShown ==
  ASSUME NEW s \in [of : Lists!Filter, value : Content \cup {None}], NEW v \in Content
  PROVE  [s EXCEPT !.value = v] \in [of : Lists!Filter, value : Content \cup {None}]
OBVIOUS

LEMMA TypedSettle ==
  ASSUME Lists!ListsAssumption, ListTyped, [Lists!ListsNext]_listVars
  PROVE  ListTyped'
<1> USE DEF Lists!ListsAssumption
<1>t. /\ clock \in Nat /\ exchanges \in Seq(AnExchange) /\ Len(exchanges) \in Nat /\ New \notin DOMAIN exchanges /\ PageOK
      /\ \A i \in DOMAIN exchanges : exchanges[i].when \in Nat /\ exchanges[i].when <= clock
  BY TypesAre, Indexes
<1>u. CASE UNCHANGED listVars
  BY <1>u DEF listVars, ListTyped, Done, Writes, Is, Lists!Handling, Lists!Live
<1>1. ASSUME NEW i \in DOMAIN exchanges, Lists!UseLoad(i) PROVE ListTyped'
  <2>1. exchanges' = Lists!Used(i) /\ i \in Done /\ shown' = [of |-> exchanges[i].of, value |-> exchanges[i].value]
    BY <1>1 DEF Lists!UseLoad, Done, Is
  <2>2. shown' \in [of : Lists!Filter, value : Content \cup {None}]
    BY <2>1, TypesAre
  <2>3. used' \in 0..clock
    BY <1>1, <1>t DEF Lists!UseLoad, Lists!Newest, ListTyped
  <2> QED BY <1>1, <1>t, <2>1, <2>2, <2>3, JustUse DEF Lists!UseLoad, ListTyped, OthersKept, Lists!Handling, Lists!Live, Writes, Done, Is
<1>2. ASSUME NEW i \in DOMAIN exchanges, Lists!UseWrite(i) PROVE ListTyped'
  <2>0. i \in Writes /\ exchanges[i].to \in Content
    BY <1>2, TypesAre DEF Lists!UseWrite, Writes
  <2>1. shown' \in [of : Lists!Filter, value : Content \cup {None}]
    BY <1>2, <2>0, RecordShown DEF Lists!UseWrite, ListTyped
  <2>2. used' \in 0..clock
    BY <1>2, <1>t DEF Lists!UseWrite, Lists!Newest, ListTyped
  <2>3. CASE exchanges' = Lists!Used(i)
    <3> clock' = clock BY <1>2 DEF Lists!UseWrite
    <3>a. \A k \in DOMAIN exchanges' : exchanges'[k].when <= clock'
      BY <2>3, <1>t, JustUse DEF OthersKept
    <3>b. \A k \in Done' : exchanges'[k].value \in Content
      BY <2>3, JustUse DEF OthersKept, ListTyped, Done
    <3>c. \A k \in Writes' : exchanges'[k].how \in Lists!Handling(exchanges'[k].to)
      BY <2>3, JustUse DEF OthersKept, ListTyped, Writes
    <3>d. exchanges' \in Seq(AnExchange) /\ Len(exchanges') <= MaxExchanges
      BY <2>3, <1>t, JustUse DEF ListTyped
    <3> QED BY <1>2, <2>1, <2>2, <3>a, <3>b, <3>c, <3>d DEF Lists!UseWrite, ListTyped, Lists!Handling, Lists!Live
  <2>4. CASE Lists!LoadsAfter(i)
    <3>1. exchanges' = Append(Lists!Used(i), Lists!Loading(filter)) /\ New <= MaxExchanges
      BY <2>4, <1>t DEF Lists!LoadsAfter, New
    <3> clock' = clock BY <1>2 DEF Lists!UseWrite
    <3>a. \A k \in DOMAIN exchanges' : exchanges'[k].when <= clock'
      <4>1. \A k \in DOMAIN exchanges' : k = New \/ k = i \/ k \in DOMAIN exchanges \ {i}
        BY <3>1, UseAndLoad
      <4>2. exchanges'[New].when = 0 /\ exchanges'[i].when = exchanges[i].when
        BY <3>1, UseAndLoad
      <4>3. \A k \in DOMAIN exchanges \ {i} : exchanges'[k] = exchanges[k]
        BY <3>1, UseAndLoad DEF OthersKept
      <4> QED BY <4>1, <4>2, <4>3, <1>t
    <3>b. \A k \in Done' : exchanges'[k].value \in Content
      BY <3>1, UseAndLoad DEF OthersKept, ListTyped, Done
    <3>c. \A k \in Writes' : exchanges'[k].how \in Lists!Handling(exchanges'[k].to)
      BY <3>1, UseAndLoad DEF OthersKept, ListTyped, Writes
    <3>d. exchanges' \in Seq(AnExchange) /\ Len(exchanges') <= MaxExchanges
      BY <3>1, <1>t, UseAndLoad DEF ListTyped
    <3> QED BY <1>2, <2>1, <2>2, <3>a, <3>b, <3>c, <3>d DEF Lists!UseWrite, ListTyped, Lists!Handling, Lists!Live
  <2> QED BY <1>2, <2>3, <2>4 DEF Lists!UseWrite
<1>3. ASSUME NEW i \in DOMAIN exchanges, Lists!UseRefusal(i) PROVE ListTyped'
  <2>0. i \in Writes /\ exchanges[i] \in AWrite
    BY <1>3, <1>t, Kinds DEF Lists!UseRefusal, Writes
  <2>1. shown' \in [of : Lists!Filter, value : Content \cup {None}]
    <3>1. exchanges[i].back \in [of : Lists!Filter, value : Content \cup {None}] /\ exchanges[i].back.value \in Content
      BY <2>0 DEF AWrite, Content
    <3>2. shown' \in {exchanges[i].back, [shown EXCEPT !.value = exchanges[i].back.value], shown}
      BY <1>3 DEF Lists!UseRefusal, Lists!Undone
    <3> QED BY <3>1, <3>2, RecordShown DEF ListTyped
  <2>3. CASE exchanges' = Lists!Used(i)
    BY <1>3, <1>t, <2>1, <2>3, JustUse DEF Lists!UseRefusal, ListTyped, OthersKept, Lists!Handling, Lists!Live, Writes, Done, Is
  <2>4. CASE Lists!LoadsAfter(i)
    <3>1. exchanges' = Append(Lists!Used(i), Lists!Loading(filter)) /\ New <= MaxExchanges
      BY <2>4, <1>t DEF Lists!LoadsAfter, New
    <3> clock' = clock BY <1>3 DEF Lists!UseRefusal
    <3>a. \A k \in DOMAIN exchanges' : exchanges'[k].when <= clock'
      <4>1. \A k \in DOMAIN exchanges' : k = New \/ k = i \/ k \in DOMAIN exchanges \ {i}
        BY <3>1, UseAndLoad
      <4>2. exchanges'[New].when = 0 /\ exchanges'[i].when = exchanges[i].when
        BY <3>1, UseAndLoad
      <4>3. \A k \in DOMAIN exchanges \ {i} : exchanges'[k] = exchanges[k]
        BY <3>1, UseAndLoad DEF OthersKept
      <4> QED BY <4>1, <4>2, <4>3, <1>t
    <3>b. \A k \in Done' : exchanges'[k].value \in Content
      BY <3>1, UseAndLoad DEF OthersKept, ListTyped, Done
    <3>c. \A k \in Writes' : exchanges'[k].how \in Lists!Handling(exchanges'[k].to)
      BY <3>1, UseAndLoad DEF OthersKept, ListTyped, Writes
    <3>d. exchanges' \in Seq(AnExchange) /\ Len(exchanges') <= MaxExchanges
      BY <3>1, <1>t, UseAndLoad DEF ListTyped
    <3> QED BY <1>3, <2>1, <3>a, <3>b, <3>c, <3>d DEF Lists!UseRefusal, ListTyped, Lists!Handling, Lists!Live
  <2> QED BY <1>3, <2>3, <2>4 DEF Lists!UseRefusal
<1>4. ASSUME NEW i \in DOMAIN exchanges, Lists!ServeLoad(i) PROVE ListTyped'
  <2>1. clock' = clock + 1 /\ clock \in Nat /\ table \in Content
    BY <1>4 DEF Lists!ServeLoad, ListTyped
  <2>a. \A k \in DOMAIN exchanges' : exchanges'[k].when <= clock'
    BY <1>4, <2>1, <1>t, LoadServed DEF OthersKept
  <2>b. \A k \in Done' : exchanges'[k].value \in Content
    BY <1>4, <2>1, LoadServed DEF OthersKept, ListTyped, Done
  <2>c. \A k \in Writes' : exchanges'[k].how \in Lists!Handling(exchanges'[k].to)
    BY <1>4, <2>1, LoadServed DEF OthersKept, ListTyped, Writes
  <2>d. exchanges' \in Seq(AnExchange) /\ Len(exchanges') <= MaxExchanges
    BY <1>4, <2>1, <1>t, LoadServed DEF ListTyped
  <2>e. \A n \in DOMAIN news' : news'[n].when <= clock'
    <3>1. \A n \in DOMAIN news : news[n].when <= clock
      BY DEF ListTyped
    <3>2. \A n \in DOMAIN news : news[n].when \in Nat
      BY NewsAre DEF ListTyped
    <3> QED BY <1>4, <2>1, <3>1, <3>2 DEF Lists!ServeLoad
  <2>f. /\ screen' = screen /\ table' = table /\ filter' = filter /\ shown' = shown /\ used' = used /\ socket' = socket
        /\ news' = news /\ others' = others /\ drops' = drops
    BY <1>4 DEF Lists!ServeLoad
  <2>g. used' \in 0..clock'
    BY <2>1, <2>f DEF ListTyped
  <2> QED BY <2>1, <2>a, <2>b, <2>c, <2>d, <2>e, <2>f, <2>g DEF ListTyped, Lists!Handling, Lists!Live
<1>n. ASSUME NEW v \in Content, clock' = clock + 1, Lists!Tells(v) PROVE news' \in Seq(Item) /\ \A n \in DOMAIN news' : news'[n].when <= clock'
  <2>1. news \in Seq(Item) /\ clock \in Nat /\ \A n \in DOMAIN news : news[n].when <= clock
    BY DEF ListTyped
  <2>2. CASE news' = news
    <3>2. \A n \in DOMAIN news : news[n].when \in Nat
      BY <2>1, NewsAre
    <3> QED BY <1>n, <2>1, <2>2, <3>2
  <2>3. CASE news' = Append(news, [value |-> v, when |-> clock'])
    <3>1. [value |-> v, when |-> clock'] \in Item
      BY <1>n, <2>1 DEF Item
    <3>2. \A n \in DOMAIN news' : (n \in DOMAIN news /\ news'[n] = news[n]) \/ news'[n] = [value |-> v, when |-> clock']
      BY <2>1, <2>3, <3>1
    <3>3. \A n \in DOMAIN news : news[n].when \in Nat
      BY <2>1, NewsAre
    <3> QED BY <1>n, <2>1, <2>3, <3>1, <3>2, <3>3
  <2> QED BY <1>n, <2>2, <2>3 DEF Lists!Tells
<1>5. ASSUME NEW i \in DOMAIN exchanges, Lists!ServeWrite(i) PROVE ListTyped'
  <2>1. exchanges[i].to \in Content /\ exchanges[i].how \in Lists!Handling(exchanges[i].to) /\ i \in Writes
    BY <1>5, WriteServed, TypesAre DEF ListTyped
  <2>2. clock' = clock + 1 /\ clock \in Nat
    BY <1>5 DEF Lists!ServeWrite, ListTyped
  <2>3. news' \in Seq(Item) /\ (\A n \in DOMAIN news' : news'[n].when <= clock') /\ (~Lists!Live => news' = news)
    <3>1. CASE Lists!Tells(exchanges[i].to)
      BY <3>1, <2>1, <2>2, <1>n DEF Lists!Tells
    <3>2. CASE news' = news
      <4>1. \A n \in DOMAIN news : news[n].when <= clock
        BY DEF ListTyped
      <4>2. \A n \in DOMAIN news : news[n].when \in Nat
        BY NewsAre DEF ListTyped
      <4> QED BY <3>2, <2>2, <4>1, <4>2 DEF ListTyped
    <3> QED BY <1>5, <3>1, <3>2, WriteServed
  <2>4. table' \in Content
    BY <1>5, <2>1, WriteServed DEF ListTyped
  <2>5. /\ screen' = screen /\ filter' = filter /\ shown' = shown /\ used' = used /\ socket' = socket /\ others' = others /\ drops' = drops
    BY <1>5 DEF Lists!ServeWrite
  <2>6. \A k \in DOMAIN exchanges' : exchanges'[k].when <= clock'
    BY <1>5, <1>t, <2>2, WriteServed DEF OthersKept
  <2>7. /\ \A k \in Done' : exchanges'[k].value \in Content
        /\ \A k \in Writes' : exchanges'[k].how \in Lists!Handling(exchanges'[k].to)
    <3>1. i \notin Done
      BY <2>1 DEF Done, Writes, Is
    <3>2. /\ Done' = Done /\ Writes' = Writes /\ exchanges'[i].to = exchanges[i].to /\ exchanges'[i].how = exchanges[i].how
          /\ \A k \in DOMAIN exchanges \ {i} : exchanges'[k] = exchanges[k]
      BY <1>5, WriteServed DEF OthersKept
    <3>3. \A k \in Done \cup Writes : k \in DOMAIN exchanges
      BY DEF Done, Writes
    <3>4. \A k \in Done' : exchanges'[k].value \in Content
      BY <3>1, <3>2, <3>3 DEF ListTyped
    <3>5. \A k \in Writes' : exchanges'[k].how \in Lists!Handling(exchanges'[k].to)
      BY <2>1, <3>2, <3>3 DEF ListTyped
    <3> QED BY <3>4, <3>5
  <2>8. /\ exchanges' \in Seq(AnExchange) /\ Len(exchanges') <= MaxExchanges
    BY <1>5, WriteServed DEF ListTyped
  <2> QED BY <2>2, <2>3, <2>4, <2>5, <2>6, <2>7, <2>8 DEF ListTyped, Lists!Live, Lists!Handling
<1>6. ASSUME NEW v \in Content, Lists!Elsewhere(v) PROVE ListTyped'
  <2>1. news' \in Seq(Item) /\ (\A n \in DOMAIN news' : news'[n].when <= clock') /\ (~Lists!Live => news' = news)
    BY <1>6, <1>n DEF Lists!Elsewhere, Lists!Tells
  <2> QED BY <1>6, <1>t, <2>1 DEF Lists!Elsewhere, ListTyped, Lists!Live, Lists!Handling, Done, Writes, Is
<1>7. ASSUME NEW v \in Content, NEW how \in Lists!Handling(v), Lists!Click(v, how) PROVE ListTyped'
  <2>1. how \in Hows
    BY <1>7, <1>t DEF Lists!Handling, PageOK
  <2>2. exchanges' = Append(exchanges, Lists!Writing(v, how)) /\ New <= MaxExchanges /\ shown.value \in Lists!Value
    BY <1>7, <1>t DEF Lists!Click, Lists!Sends, New
  <2>3. shown' \in [of : Lists!Filter, value : Content \cup {None}]
    BY <1>7, RecordShown DEF Lists!Click, ListTyped
  <2>4. /\ screen' = screen /\ filter' = filter /\ table' = table /\ used' = used /\ socket' = socket /\ others' = others /\ drops' = drops
        /\ clock' = clock /\ news' = news
    BY <1>7 DEF Lists!Click
  <2>5. \A k \in DOMAIN exchanges' : exchanges'[k].when <= clock'
    BY <1>t, <2>1, <2>2, <2>4, AddWrite DEF ExchangesKept, ListTyped
  <2>6. \A k \in Done' : exchanges'[k].value \in Content
    BY <2>1, <2>2, AddWrite DEF ExchangesKept, ListTyped, Done
  <2>7. \A k \in Writes' : exchanges'[k].how \in Lists!Handling(exchanges'[k].to)
    BY <1>7, <2>1, <2>2, AddWrite DEF ExchangesKept, ListTyped, Writes
  <2>8. exchanges' \in Seq(AnExchange) /\ Len(exchanges') <= MaxExchanges
    BY <2>1, <2>2, AddWrite
  <2> QED BY <2>3, <2>4, <2>5, <2>6, <2>7, <2>8 DEF ListTyped, Lists!Live, Lists!Handling
<1>s. ASSUME NEW f \in Lists!Filter, Lists!Sends(Lists!Loading(f)), filter' \in Lists!Filter, shown' \in [of : Lists!Filter, value : Content \cup {None}],
             UNCHANGED <<screen, table, clock, others>>, used' \in 0..clock, drops' = drops, socket' \in {"off", "joining", "on"},
             news' \in Seq(Item), \A n \in DOMAIN news' : news'[n].when <= clock', ~Lists!Live => socket' = "on" /\ news' = <<>>
      PROVE ListTyped'
  <2>1. exchanges' = Append(exchanges, Lists!Loading(f)) /\ New <= MaxExchanges
    BY <1>s, <1>t DEF Lists!Sends, New
  <2>5. \A k \in DOMAIN exchanges' : exchanges'[k].when <= clock'
    BY <1>s, <1>t, <2>1, AddLoad DEF ExchangesKept, ListTyped
  <2>6. \A k \in Done' : exchanges'[k].value \in Content
    BY <2>1, AddLoad DEF ExchangesKept, ListTyped, Done
  <2>7. \A k \in Writes' : exchanges'[k].how \in Lists!Handling(exchanges'[k].to)
    BY <2>1, AddLoad DEF ExchangesKept, ListTyped, Writes
  <2>8. exchanges' \in Seq(AnExchange) /\ Len(exchanges') <= MaxExchanges
    BY <2>1, AddLoad
  <2> QED BY <1>s, <2>5, <2>6, <2>7, <2>8 DEF ListTyped, Lists!Live, Lists!Handling
<1>8. ASSUME NEW f \in Lists!Filter, Lists!SetFilter(f) PROVE ListTyped'
  BY <1>8, <1>s DEF Lists!SetFilter, ListTyped
<1>9. CASE Lists!Tick
  BY <1>9, <1>s DEF Lists!Tick, ListTyped
<1>10. CASE Lists!Hear
  <2>1. /\ news' \in Seq(Item) /\ (\A n \in DOMAIN news' : news'[n].when <= clock') /\ Head(news).when \in 0..clock
        /\ Head(news).value \in Content /\ Lists!Live
    <3>1. news \in Seq(Item) /\ news # <<>> /\ news' = Tail(news) /\ clock' = clock /\ \A n \in DOMAIN news : news[n].when <= clock
      BY <1>10 DEF Lists!Hear, ListTyped
    <3>2. /\ news' \in Seq(Item) /\ Head(news) = news[1] /\ 1 \in DOMAIN news
          /\ \A n \in DOMAIN news' : n + 1 \in DOMAIN news /\ news'[n] = news[n + 1]
      BY <3>1
    <3>3. \A n \in DOMAIN news : news[n].when \in Nat /\ news[n].value \in Content
      BY <3>1, NewsAre
    <3> QED BY <1>10, <3>1, <3>2, <3>3 DEF ListTyped
  <2>2. CASE screen.event = "load"
    BY <1>10, <2>1, <2>2, <1>s DEF Lists!Hear, ListTyped
  <2>3. CASE screen.event # "load"
    <3>1. shown' \in [of : Lists!Filter, value : Content \cup {None}]
      BY <1>10, <2>1, <2>3, RecordShown DEF Lists!Hear, ListTyped
    <3>2. used' \in 0..clock
      BY <1>10, <2>1, <2>3 DEF Lists!Hear, ListTyped
    <3> QED BY <1>10, <2>1, <2>3, <3>1, <3>2 DEF Lists!Hear, ListTyped, Lists!Live, Lists!Handling, Done, Writes, Is
  <2> QED BY <2>2, <2>3
<1>11. CASE Lists!Connect
  <2>1. CASE screen.again
    BY <1>11, <2>1, <1>s DEF Lists!Connect, ListTyped
  <2>2. CASE ~screen.again
    BY <1>11, <2>2 DEF Lists!Connect, ListTyped, Lists!Live, Lists!Handling, Done, Writes, Is
  <2> QED BY <2>1, <2>2
<1>12. CASE Lists!Join
  BY <1>12 DEF Lists!Join, ListTyped, Lists!Live, Lists!Handling, Done, Writes, Is
<1>13. CASE Lists!Drop
  BY <1>13 DEF Lists!Drop, ListTyped, Lists!Live, Lists!Handling, Done, Writes, Is
<1> QED BY <1>u, <1>1, <1>2, <1>3, <1>4, <1>5, <1>6, <1>7, <1>8, <1>9, <1>10, <1>11, <1>12, <1>13 DEF Lists!ListsNext, Content

-----------------------------------------------------------------------------
(* What the page does not mend. *)

LEMMA GoesOn == ASSUME [Lists!ListsNext]_listVars PROVE excused \subseteq excused' /\ screen' = screen
BY DEF Lists!ListsNext, listVars, Lists!UseLoad, Lists!UseWrite, Lists!UseRefusal, Lists!ServeLoad, Lists!ServeWrite, Lists!Elsewhere, Lists!Click, Lists!SetFilter, Lists!Tick, Lists!Hear, Lists!Connect,
   Lists!Join, Lists!Drop, Lists!Excuse

LEMMA MendedBefore == ASSUME [Lists!ListsNext]_listVars, Lists!Mended' PROVE Lists!Mended
BY GoesOn DEF Lists!Mended, Lists!Mends, Lists!Ways

LEMMA NotMended == ASSUME Lists!Mended PROVE {"overtaken", "early", "deaf", "kept"} \cap excused = {}
BY DEF Lists!Mended, Lists!Mends

LEMMA StillNotMended == ASSUME Lists!Mended' PROVE {"overtaken", "early", "deaf", "kept"} \cap excused' = {}
BY DEF Lists!Mended, Lists!Mends

-----------------------------------------------------------------------------
(* The list of the filter. *)

Filtered ==
  /\ \A i \in Sent \cup Done : exchanges[i].of = filter
       \/ \E j \in DOMAIN exchanges : j > i /\ exchanges[j].kind = "load" /\ (exchanges[j].state = "used" \/ exchanges[j].of = filter)
  /\ shown.of = filter \/ \E i \in Sent \cup Done : exchanges[i].of = filter

LEMMA FilteredSettle ==
  ASSUME Lists!ListsAssumption, ListTyped, Filtered, [Lists!ListsNext]_listVars, Lists!Mended'
  PROVE  Filtered'
<1>t. /\ exchanges \in Seq(AnExchange) /\ Len(exchanges) \in Nat /\ New \in Nat /\ New \notin DOMAIN exchanges
      /\ \A i \in DOMAIN exchanges : i \in Nat /\ i < New
      /\ \A i \in Sent \cup Done : i \in DOMAIN exchanges
      /\ Sent \cap Writes = {} /\ Done \cap Writes = {} /\ Sent \cap Done = {}
  BY TypesAre, Indexes DEF Sent, Done, Writes, Is
<1>m. "overtaken" \notin excused'
  BY StillNotMended
<1>q. ASSUME UNCHANGED <<filter, exchanges, shown>> PROVE Filtered'
  BY <1>q DEF Filtered, Sent, Done, Is
<1>u. CASE UNCHANGED listVars
  BY <1>u, <1>q DEF listVars
\* A list is asked for with the filter there is.
<1>s. ASSUME NEW f \in Lists!Filter, exchanges' = Append(exchanges, Lists!Loading(f)), filter' = f, shown'.of = shown.of PROVE Filtered'
  <2>1. New \in Sent' /\ New \in DOMAIN exchanges' /\ exchanges'[New].kind = "load" /\ exchanges'[New].of = filter'
    BY <1>s, AddLoad
  <2>2. \A i \in Sent' \cup Done' : i = New \/ (i \in Nat /\ New > i)
    BY <1>s, <1>t, AddLoad
  <2> QED BY <2>1, <2>2 DEF Filtered
\* Nothing of the loads changes.
<1>k. ASSUME UNCHANGED filter, shown'.of = shown.of, Sent' = Sent, Done' = Done, DOMAIN exchanges \subseteq DOMAIN exchanges',
             \A k \in DOMAIN exchanges : exchanges[k].kind = "load" => exchanges'[k] = exchanges[k]
      PROVE Filtered'
  <2>1. \A k \in Sent \cup Done : exchanges[k].kind = "load" /\ exchanges'[k] = exchanges[k]
    BY <1>k DEF Sent, Done, Is
  <2> QED BY <1>k, <1>t, <2>1 DEF Filtered
<1>1. ASSUME NEW i \in DOMAIN exchanges, Lists!UseLoad(i) PROVE Filtered'
  <2>1. exchanges' = Lists!Used(i) /\ i \in Done /\ shown'.of = exchanges[i].of /\ filter' = filter /\ ~Lists!Passed(i)
    BY <1>1, <1>m DEF Lists!UseLoad, Done, Is
  <2>2. /\ DOMAIN exchanges' = DOMAIN exchanges /\ \A k \in DOMAIN exchanges \ {i} : exchanges'[k] = exchanges[k]
        /\ exchanges'[i].kind = exchanges[i].kind /\ exchanges'[i].state = "used" /\ Sent' \cup Done' = (Sent \cup Done) \ {i}
    BY <2>1, <1>t, JustUse DEF OthersKept
  <2>3. exchanges[i].kind = "load"
    BY <2>1 DEF Done, Is
  <2>4. \A k \in Sent' \cup Done' : exchanges'[k].of = filter'
       \/ \E j \in DOMAIN exchanges' : j > k /\ exchanges'[j].kind = "load" /\ (exchanges'[j].state = "used" \/ exchanges'[j].of = filter')
    <3> SUFFICES ASSUME NEW k \in Sent' \cup Done', exchanges'[k].of # filter'
                 PROVE \E j \in DOMAIN exchanges' : j > k /\ exchanges'[j].kind = "load" /\ (exchanges'[j].state = "used" \/ exchanges'[j].of = filter')
      OBVIOUS
    <3>1. k \in Sent \cup Done /\ k # i /\ exchanges[k].of # filter
      BY <1>t, <2>1, <2>2
    <3>2. PICK j \in DOMAIN exchanges : j > k /\ exchanges[j].kind = "load" /\ (exchanges[j].state = "used" \/ exchanges[j].of = filter)
      BY <3>1 DEF Filtered
    <3> QED BY <2>1, <2>2, <2>3, <3>2
  <2>5. shown'.of = filter' \/ \E k \in Sent' \cup Done' : exchanges'[k].of = filter'
    <3> SUFFICES ASSUME exchanges[i].of # filter PROVE \E k \in Sent' \cup Done' : exchanges'[k].of = filter'
      BY <2>1
    <3>1. PICK j \in DOMAIN exchanges : j > i /\ exchanges[j].kind = "load" /\ (exchanges[j].state = "used" \/ exchanges[j].of = filter)
      BY <2>1 DEF Filtered
    <3>2. exchanges[j].state # "used" /\ j # i
      BY <2>1, <3>1, <1>t DEF Lists!Passed, Lists!InFlight
    <3>3. j \in Sent \cup Done
      BY <3>1, <3>2, <1>t, Kinds
    <3> QED BY <2>1, <2>2, <3>1, <3>2, <3>3
  <2> QED BY <2>4, <2>5 DEF Filtered
\* A write is used.
<1>w. ASSUME NEW i \in DOMAIN exchanges, exchanges[i].kind = "write", exchanges' = Lists!Used(i) \/ exchanges' = Append(Lists!Used(i), Lists!Loading(filter)),
             filter' = filter, shown'.of = shown.of
      PROVE Filtered'
  <2>0. i \notin Sent /\ i \notin Done
    BY <1>w DEF Sent, Done, Is
  <2>1. CASE exchanges' = Lists!Used(i)
    <3>1. Sent' = Sent /\ Done' = Done /\ DOMAIN exchanges' = DOMAIN exchanges
      BY <2>0, <2>1, JustUse, ZenonT(60)
    <3>2. \A k \in DOMAIN exchanges : exchanges[k].kind = "load" => exchanges'[k] = exchanges[k]
      BY <1>w, <2>1, JustUse DEF OthersKept
    <3>3. DOMAIN exchanges \subseteq DOMAIN exchanges' /\ Sent' = Sent /\ Done' = Done
      BY <3>1
    <3>4. UNCHANGED filter /\ shown'.of = shown.of
      BY <1>w
    <3> QED BY <3>2, <3>3, <3>4, <1>k
  <2>2. CASE exchanges' = Append(Lists!Used(i), Lists!Loading(filter))
    <3>1. New \in Sent' /\ New \in DOMAIN exchanges' /\ exchanges'[New].kind = "load" /\ exchanges'[New].of = filter'
      BY <1>w, <2>2, UseAndLoad
    <3>2. \A k \in Sent' \cup Done' : k = New \/ (k \in Nat /\ New > k)
      BY <1>w, <1>t, <2>2, UseAndLoad
    <3> QED BY <3>1, <3>2 DEF Filtered
  <2> QED BY <1>w, <2>1, <2>2
<1>2. ASSUME NEW i \in DOMAIN exchanges, Lists!UseWrite(i) PROVE Filtered'
  <2>1. shown'.of = shown.of
    BY <1>2 DEF Lists!UseWrite, ListTyped
  <2> QED BY <1>2, <2>1, <1>w DEF Lists!UseWrite, Lists!LoadsAfter
<1>3. ASSUME NEW i \in DOMAIN exchanges, Lists!UseRefusal(i) PROVE Filtered'
  <2>1. shown'.of = shown.of
    BY <1>3, <1>m DEF Lists!UseRefusal
  <2> QED BY <1>3, <2>1, <1>w DEF Lists!UseRefusal, Lists!LoadsAfter
<1>4. ASSUME NEW i \in DOMAIN exchanges, Lists!ServeLoad(i) PROVE Filtered'
  <2>1. filter' = filter /\ shown' = shown
    BY <1>4 DEF Lists!ServeLoad
  <2>2. /\ DOMAIN exchanges' = DOMAIN exchanges /\ \A k \in DOMAIN exchanges \ {i} : exchanges'[k] = exchanges[k]
        /\ exchanges'[i].kind = "load" /\ exchanges'[i].of = exchanges[i].of /\ Sent' \cup Done' = Sent \cup Done
        /\ exchanges[i].state # "used" /\ i \in Sent
    <3>1. i \in Sent /\ Sent' = Sent \ {i} /\ Done' = Done \cup {i}
      BY <1>4, LoadServed
    <3>2. /\ DOMAIN exchanges' = DOMAIN exchanges /\ exchanges'[i].kind = "load" /\ exchanges'[i].of = exchanges[i].of
          /\ \A k \in DOMAIN exchanges \ {i} : exchanges'[k] = exchanges[k]
      BY <1>4, LoadServed DEF OthersKept
    <3>3. exchanges[i].state # "used"
      BY <1>4 DEF Lists!ServeLoad
    <3> QED BY <3>1, <3>2, <3>3
  <2>3. \A k \in DOMAIN exchanges : 
         exchanges[k].kind = "load" /\ (exchanges[k].state = "used" \/ exchanges[k].of = filter)
           => exchanges'[k].kind = "load" /\ (exchanges'[k].state = "used" \/ exchanges'[k].of = filter')
    BY <2>1, <2>2
  <2>4. \A k \in Sent \cup Done : k \in DOMAIN exchanges /\ exchanges'[k].of = exchanges[k].of
    BY <2>2, <1>t
  <2> QED BY <2>1, <2>2, <2>3, <2>4 DEF Filtered
<1>5. ASSUME NEW i \in DOMAIN exchanges, Lists!ServeWrite(i) PROVE Filtered'
  BY <1>5, <1>k, <1>t, WriteServed DEF Lists!ServeWrite, OthersKept
<1>6. ASSUME NEW v \in Content, Lists!Elsewhere(v) PROVE Filtered'
  BY <1>6, <1>q DEF Lists!Elsewhere
<1>7. ASSUME NEW v \in Content, NEW how \in Lists!Handling(v), Lists!Click(v, how) PROVE Filtered'
  <2>1. how \in Hows
    BY TypesAre DEF Lists!Handling, PageOK
  <2>2. exchanges' = Append(exchanges, Lists!Writing(v, how)) /\ shown.value \in Lists!Value /\ filter' = filter /\ shown'.of = shown.of
    BY <1>7 DEF Lists!Click, Lists!Sends, ListTyped
  <2> QED BY <1>t, <2>1, <2>2, <1>k, AddWrite DEF ExchangesKept
<1>8. ASSUME NEW f \in Lists!Filter, Lists!SetFilter(f) PROVE Filtered'
  BY <1>8, <1>s DEF Lists!SetFilter, Lists!Sends
<1>9. CASE Lists!Tick
  BY <1>9, <1>s DEF Lists!Tick, Lists!Sends, ListTyped
<1>10. CASE Lists!Hear
  <2>1. CASE screen.event = "load"
    BY <1>10, <2>1, <1>s DEF Lists!Hear, Lists!Sends, ListTyped
  <2>2. CASE screen.event # "load"
    <3>1. filter' = filter /\ exchanges' = exchanges /\ shown'.of = shown.of
      BY <1>10, <2>2 DEF Lists!Hear, ListTyped
    <3> QED BY <3>1, <1>k, <1>t DEF Sent, Done, Is
  <2> QED BY <2>1, <2>2
<1>11. CASE Lists!Connect
  BY <1>11, <1>s, <1>q DEF Lists!Connect, Lists!Sends, ListTyped
<1>12. CASE Lists!Join
  BY <1>12, <1>q DEF Lists!Join
<1>13. CASE Lists!Drop
  BY <1>13, <1>q DEF Lists!Drop
<1> QED BY <1>u, <1>1, <1>2, <1>3, <1>4, <1>5, <1>6, <1>7, <1>8, <1>9, <1>10, <1>11, <1>12, <1>13 DEF Lists!ListsNext, Content

-----------------------------------------------------------------------------
(* Pages that make one change at a time. *)

\* A list still to be served.
Coming ==
  \/ Sent # {}
  \/ \E i \in Writes : exchanges[i].state = "done" /\ exchanges[i].how.after = "load"
  \/ \E i \in Writes : exchanges[i].state = "refused" /\ exchanges[i].how.refused = "load"
  \/ screen.event = "load" /\ news # <<>>
  \/ screen.again /\ socket = "off"

ByLoads == screen.event = "load" \/ Lists!Ways \subseteq {Lists!SaveThenLoad}

Caught == shown.value = table \/ Done # {} \/ Coming
\* What the page shows if the write is refused.
Before(i) == IF exchanges[i].how.early THEN exchanges[i].back.value ELSE shown.value
Alone ==
  /\ \A i, j \in Writes : i = j
  /\ \A i \in Done : exchanges[i].value = table \/ \E j \in DOMAIN exchanges : exchanges[j].kind = "write" /\ exchanges[j].when > exchanges[i].when
  /\ Writes = {} => Caught
  /\ \A i \in Writes :
       /\ exchanges[i].how.early => shown.value = exchanges[i].to
       /\ exchanges[i].state \in {"sent", "refused"} => Before(i) = table \/ Done # {} \/ Coming
       /\ exchanges[i].state = "done" => table = exchanges[i].to

LEMMA AloneSettle ==
  ASSUME Lists!ListsAssumption, ListTyped, ~ByLoads, Alone, [Lists!ListsNext]_listVars, Lists!Mended'
  PROVE  Alone'
<1>a. excused' = {} /\ ~Lists!Live
  <2>1. PageOK
    BY TypesAre
  <2>2. screen' = screen /\ ~Lists!Live /\ ~(Lists!Ways \subseteq {Lists!SaveThenLoad, Lists!SaveThenPatch}) /\ ~(Lists!Ways \subseteq {Lists!SaveThenLoad}) /\ screen.event # "load"
    BY <2>1, GoesOn DEF ByLoads, PageOK, Lists!Live
  <2>3. ~ \E why \in excused' : TRUE
    BY <2>2 DEF Lists!Mended, Lists!Mends, Lists!Ways
  <2> QED BY <2>2, <2>3
<1>t. /\ exchanges \in Seq(AnExchange) /\ New \notin DOMAIN exchanges /\ clock \in Nat
      /\ \A i \in DOMAIN exchanges : exchanges[i].when \in Nat /\ exchanges[i].when <= clock
      /\ \A i \in Sent \cup Done \cup Writes : i \in DOMAIN exchanges
      /\ \A i \in Writes : exchanges[i].how \in Hows /\ exchanges[i].how \in Lists!Handling(exchanges[i].to)
      /\ Sent \cap Writes = {} /\ Done \cap Writes = {} /\ Sent \cap Done = {} /\ socket = "on" /\ news = <<>>
      /\ screen' = screen
  BY <1>a, TypesAre, Indexes, GoesOn DEF Sent, Done, Writes, Is, ListTyped
<1>h. ASSUME NEW how \in Hows PROVE
         /\ how.early \in BOOLEAN
         /\ how.after = "patch" => how = Lists!SaveThenPatch
         /\ how.refused = "undo" => how = Lists!TryOrUndo /\ how.early
         /\ how.refused = "restore" => how.early
         /\ how.refused = "nothing" => how = Lists!Try \/ ~how.early
         /\ how.after \in {"load", "patch", "nothing"} /\ how.refused \in {"load", "undo", "restore", "nothing"}
         /\ how.after = "nothing" => how.early
  BY HowsAre DEF Hows
<1>q. ASSUME UNCHANGED <<table, exchanges, shown, news, socket>> PROVE Alone'
  BY <1>q, <1>t DEF Alone, Caught, Coming, Before, Sent, Done, Writes, Is
<1>u. CASE UNCHANGED listVars
  BY <1>u, <1>q DEF listVars
<1>s. ASSUME NEW f \in Lists!Filter, exchanges' = Append(exchanges, Lists!Loading(f)), UNCHANGED <<table, shown>> PROVE Alone'
  <2>1. /\ Sent' # {} /\ Done' = Done /\ Writes' = Writes /\ DOMAIN exchanges \subseteq DOMAIN exchanges'
        /\ \A k \in DOMAIN exchanges : exchanges'[k] = exchanges[k]
    BY <1>s, AddLoad DEF ExchangesKept
  <2>2. Coming'
    BY <2>1 DEF Coming
  <2>3. \A k \in Done' : exchanges'[k].value = table' \/ \E j \in DOMAIN exchanges' : exchanges'[j].kind = "write" /\ exchanges'[j].when > exchanges'[k].when
    BY <1>s, <1>t, <2>1 DEF Alone
  <2>4. \A k \in Writes' :
       /\ exchanges'[k].how.early => shown'.value = exchanges'[k].to
       /\ exchanges'[k].state = "done" => table' = exchanges'[k].to
    BY <1>s, <1>t, <2>1 DEF Alone
  <2> QED BY <2>1, <2>2, <2>3, <2>4 DEF Alone, Caught
<1>1. ASSUME NEW i \in DOMAIN exchanges, Lists!UseLoad(i) PROVE Alone'
  <2>1. exchanges' = Lists!Used(i) /\ i \in Done /\ shown'.value = exchanges[i].value /\ table' = table /\ ~Lists!Crossed(i)
    BY <1>1, <1>a DEF Lists!UseLoad, Done, Is
  <2>2. Writes = {} /\ exchanges[i].value = table
    BY <2>1, <1>t DEF Lists!Crossed, Lists!InFlight, Writes, Alone
  <2>3. /\ Writes' = {} /\ Done' = Done \ {i} /\ DOMAIN exchanges' = DOMAIN exchanges /\ exchanges'[i].kind = exchanges[i].kind
        /\ exchanges'[i].when = exchanges[i].when /\ \A k \in DOMAIN exchanges \ {i} : exchanges'[k] = exchanges[k]
    BY <2>1, <2>2, JustUse DEF OthersKept
  <2>4. \A k \in Done' : exchanges'[k].value = table' \/ \E j \in DOMAIN exchanges' : exchanges'[j].kind = "write" /\ exchanges'[j].when > exchanges'[k].when
    BY <1>t, <2>1, <2>3 DEF Alone
  <2> QED BY <2>1, <2>2, <2>3, <2>4 DEF Alone, Caught
\* A write is used: it was the only one.
<1>w. ASSUME NEW i \in Writes, exchanges' = Lists!Used(i) \/ exchanges' = Append(Lists!Used(i), Lists!Loading(filter)), table' = table PROVE
        /\ Writes' = {} /\ Done' = Done /\ (Sent # {} => Sent' # {}) /\ (exchanges' = Append(Lists!Used(i), Lists!Loading(filter)) => Sent' # {})
        /\ \A k \in Done' : exchanges'[k].value = table' \/ \E j \in DOMAIN exchanges' : exchanges'[j].kind = "write" /\ exchanges'[j].when > exchanges'[k].when
  <2>1. /\ Writes' = Writes \ {i} /\ Done' = Done \ {i} /\ (Sent # {} => Sent' # {}) /\ (exchanges' = Append(Lists!Used(i), Lists!Loading(filter)) => Sent' # {})
        /\ DOMAIN exchanges \subseteq DOMAIN exchanges'
        /\ exchanges'[i].kind = exchanges[i].kind /\ exchanges'[i].when = exchanges[i].when
        /\ \A k \in DOMAIN exchanges \ {i} : exchanges'[k] = exchanges[k]
    <3>1. CASE exchanges' = Lists!Used(i)
      BY <3>1, <1>t, JustUse DEF OthersKept
    <3>2. CASE exchanges' = Append(Lists!Used(i), Lists!Loading(filter))
      BY <3>2, <1>t, UseAndLoad DEF OthersKept
    <3> QED BY <1>w, <3>1, <3>2
  <2>2. Writes' = {} /\ Done' = Done
    BY <2>1, <1>t DEF Alone
  <2>3. \A k \in Done : k # i /\ k \in DOMAIN exchanges
    BY <1>t
  <2>4. \A j \in DOMAIN exchanges : j \in DOMAIN exchanges' /\ exchanges'[j].kind = exchanges[j].kind /\ exchanges'[j].when = exchanges[j].when
    BY <2>1
  <2>5. \A k \in Done : exchanges'[k].value = exchanges[k].value
    BY <2>1, <2>3
  <2>6. \A k \in Done' : exchanges'[k].value = table' \/ \E j \in DOMAIN exchanges' : exchanges'[j].kind = "write" /\ exchanges'[j].when > exchanges'[k].when
    BY <1>w, <2>2, <2>3, <2>4, <2>5 DEF Alone
  <2> QED BY <2>1, <2>2, <2>6
<1>2. ASSUME NEW i \in DOMAIN exchanges, Lists!UseWrite(i) PROVE Alone'
  <2>1. i \in Writes /\ exchanges[i].state = "done" /\ table' = table /\ table = exchanges[i].to
        /\ (exchanges' = Lists!Used(i) \/ exchanges' = Append(Lists!Used(i), Lists!Loading(filter)))
    BY <1>2 DEF Lists!UseWrite, Writes, Lists!LoadsAfter, Alone
  <2>2. Caught'
    <3>1. CASE exchanges[i].how.after = "load"
      BY <1>2, <3>1, <2>1, <1>w DEF Lists!UseWrite, Lists!LoadsAfter, Caught, Coming
    <3>2. CASE exchanges[i].how.after = "patch"
      <4>1. shown'.value = exchanges[i].to
        BY <1>2, <3>2 DEF Lists!UseWrite, ListTyped
      <4> QED BY <4>1, <2>1 DEF Caught
    <3>3. CASE exchanges[i].how.after = "nothing"
      <4>1. shown' = shown /\ exchanges[i].how.early
        BY <1>2, <3>3, <1>h, <1>t, <2>1 DEF Lists!UseWrite
      <4> QED BY <4>1, <2>1 DEF Alone, Caught
    <3> QED BY <3>1, <3>2, <3>3, <1>h, <1>t, <2>1
  <2> QED BY <2>1, <2>2, <1>w DEF Alone
<1>3. ASSUME NEW i \in DOMAIN exchanges, Lists!UseRefusal(i) PROVE Alone'
  <2>1. i \in Writes /\ exchanges[i].state = "refused" /\ table' = table /\ exchanges[i].how # Lists!Try /\ news' = news /\ socket' = socket
        /\ (exchanges' = Lists!Used(i) \/ exchanges' = Append(Lists!Used(i), Lists!Loading(filter))) /\ shown' = Lists!Undone(i)
    BY <1>3, <1>a DEF Lists!UseRefusal, Writes, Lists!LoadsAfter, Alone
  <2>2. Before(i) = table \/ Done # {} \/ Coming
    BY <2>1 DEF Alone
  <2>3. Caught'
    <3>1. CASE exchanges[i].how.refused = "load"
      BY <1>3, <3>1, <2>1, <1>w DEF Lists!UseRefusal, Lists!LoadsAfter, Caught, Coming
    <3>2. CASE exchanges[i].how.refused # "load"
      <4>1. shown'.value = Before(i)
        <5>1. CASE exchanges[i].how.refused = "restore"
          BY <5>1, <2>1, <1>h, <1>t DEF Lists!Undone, Before
        <5>2. CASE exchanges[i].how.refused = "undo"
          <6>1. exchanges[i].how = Lists!TryOrUndo /\ exchanges[i].how.early
            BY <5>2, <1>h, <1>t, <2>1
          <6>2. exchanges[i].to # "gone"
            BY <6>1, <1>t, <2>1, TypesAre DEF Lists!Handling, PageOK
          <6>3. shown.value # "gone"
            BY <6>1, <6>2, <2>1 DEF Alone
          <6> QED BY <5>2, <6>1, <6>3, <2>1 DEF Lists!Undone, Before, ListTyped
        <5>3. CASE exchanges[i].how.refused = "nothing"
          BY <5>3, <1>h, <1>t, <2>1 DEF Lists!Undone, Before
        <5> QED BY <3>2, <5>1, <5>2, <5>3, <1>h, <1>t, <2>1
      <4>2. Coming => Sent # {}
        <5>1. \A k \in Writes : k = i
          BY <2>1 DEF Alone
        <5>2. screen.event # "load"
          BY <1>a DEF Lists!Live
        <5> QED BY <1>t, <2>1, <3>2, <5>1, <5>2 DEF Coming
      <4> QED BY <2>1, <2>2, <4>1, <4>2, <1>w DEF Caught, Coming
    <3> QED BY <3>1, <3>2
  <2> QED BY <2>1, <2>3, <1>w DEF Alone
<1>4. ASSUME NEW i \in DOMAIN exchanges, Lists!ServeLoad(i) PROVE Alone'
  <2>1. /\ DOMAIN exchanges' = DOMAIN exchanges /\ OthersKept(i) /\ exchanges'[i].value = table
        /\ i \in Sent /\ Done' = Done \cup {i} /\ Writes' = Writes /\ table' = table /\ shown' = shown
    BY <1>4, LoadServed DEF Lists!ServeLoad
  <2>2. Done' # {} /\ \A k \in Writes : k # i /\ exchanges'[k] = exchanges[k]
    BY <2>1, <1>t DEF OthersKept
  <2>3. exchanges[i].kind = "load" /\ \A k \in Done : k # i
    BY <2>1, <1>t DEF Sent, Is
  <2>4. \A k \in Done' : exchanges'[k].value = table' \/ \E j \in DOMAIN exchanges' : exchanges'[j].kind = "write" /\ exchanges'[j].when > exchanges'[k].when
    BY <1>t, <2>1, <2>3 DEF Alone, OthersKept
  <2> QED BY <2>1, <2>2, <2>4 DEF Alone, Caught
<1>5. ASSUME NEW i \in DOMAIN exchanges, Lists!ServeWrite(i) PROVE Alone'
  <2>1. /\ DOMAIN exchanges' = DOMAIN exchanges /\ OthersKept(i) /\ exchanges'[i].kind = "write" /\ exchanges'[i].to = exchanges[i].to
        /\ exchanges'[i].how = exchanges[i].how /\ exchanges'[i].back = exchanges[i].back
        /\ i \in Writes /\ exchanges[i].state = "sent" /\ Sent' = Sent /\ Done' = Done /\ Writes' = Writes /\ shown' = shown /\ socket' = socket
    BY <1>5, WriteServed DEF Lists!ServeWrite
  <2>2. \A k \in Writes : k = i
    BY <2>1 DEF Alone
  <2>3. \A k \in Done : k # i /\ k \in DOMAIN exchanges /\ exchanges'[k] = exchanges[k]
    BY <2>1, <1>t DEF OthersKept
  <2>4. CASE exchanges'[i].state = "done" /\ exchanges'[i].when = clock + 1 /\ table' = exchanges[i].to
    <3>1. \A k \in Done' : \E j \in DOMAIN exchanges' : exchanges'[j].kind = "write" /\ exchanges'[j].when > exchanges'[k].when
      BY <2>1, <2>3, <2>4, <1>t
    <3>2. \A k \in Writes' :
            /\ exchanges'[k].how.early => shown'.value = exchanges'[k].to
            /\ exchanges'[k].state \notin {"sent", "refused"}
            /\ exchanges'[k].state = "done" => table' = exchanges'[k].to
      BY <2>1, <2>2, <2>4 DEF Alone
    <3> QED BY <2>1, <2>2, <3>1, <3>2 DEF Alone
  <2>5. CASE exchanges'[i].state = "refused" /\ exchanges'[i].when = exchanges[i].when /\ UNCHANGED <<table, news>>
    <3>1. \A k \in Done' : exchanges'[k].value = table' \/ \E j \in DOMAIN exchanges' : exchanges'[j].kind = "write" /\ exchanges'[j].when > exchanges'[k].when
      <4>1. \A j \in DOMAIN exchanges : exchanges[j].kind = "write" => exchanges'[j].kind = "write" /\ exchanges'[j].when = exchanges[j].when
        BY <2>1, <2>5 DEF OthersKept
      <4> QED BY <2>1, <2>3, <2>5, <4>1 DEF Alone
    <3>2. Coming => Coming'
      BY <2>1, <2>2, <2>5, <1>t DEF Coming
    <3>3. Before(i)' = Before(i)
      BY <2>1 DEF Before
    <3>4. \A k \in Writes' :
            /\ exchanges'[k].how.early => shown'.value = exchanges'[k].to
            /\ Before(k)' = table' \/ Done' # {} \/ Coming'
            /\ exchanges'[k].state # "done"
      BY <2>1, <2>2, <2>5, <3>2, <3>3 DEF Alone
    <3> QED BY <2>1, <2>2, <3>1, <3>4 DEF Alone
  <2> QED BY <1>5, <2>4, <2>5, WriteServed
<1>6. ASSUME NEW v \in Content, Lists!Elsewhere(v) PROVE FALSE
  BY <1>6, <1>a DEF Lists!Elsewhere, Lists!Excuse, Lists!Deaf
<1>7. ASSUME NEW v \in Content, NEW how \in Lists!Handling(v), Lists!Click(v, how) PROVE Alone'
  <2>1. how \in Hows
    BY TypesAre DEF Lists!Handling, PageOK
  <2>2. /\ exchanges' = Append(exchanges, Lists!Writing(v, how)) /\ shown.value \in Lists!Value /\ UNCHANGED <<table, news, socket>>
        /\ (how.early => shown'.value = v) /\ (~how.early => shown' = shown)
    BY <1>7 DEF Lists!Click, Lists!Sends, ListTyped
  <2>3. Writes = {}
    <3>1. ~ \E k \in Lists!Pending : exchanges[k].kind = "write"
      BY <1>7, <1>a DEF Lists!Click, Lists!Excuse
    <3> QED BY <3>1 DEF Lists!Pending, Lists!InFlight, Writes
  <2>n. PICK n : n = New
    OBVIOUS
  <2>4. /\ DOMAIN exchanges \subseteq DOMAIN exchanges' /\ (\A k \in DOMAIN exchanges : exchanges'[k] = exchanges[k])
        /\ exchanges'[n].to = v /\ exchanges'[n].how = how
        /\ exchanges'[n].back = shown /\ exchanges'[n].state = "sent"
        /\ Sent' = Sent /\ Done' = Done /\ Writes' = {n}
    BY <2>1, <2>2, <2>3, <2>n, AddWrite DEF ExchangesKept
  <2>5. Coming => Coming'
    BY <2>2, <2>3, <2>4, <1>t DEF Coming
  <2>6. Before(n)' = shown.value
    BY <2>2, <2>4 DEF Before
  <2>7. \A k \in Done' : exchanges'[k].value = table' \/ \E j \in DOMAIN exchanges' : exchanges'[j].kind = "write" /\ exchanges'[j].when > exchanges'[k].when
    BY <1>t, <2>2, <2>4 DEF Alone
  <2>8. Caught
    BY <2>3 DEF Alone
  <2>9. \A k \in Writes' :
            /\ exchanges'[k].how.early => shown'.value = exchanges'[k].to
            /\ Before(k)' = table' \/ Done' # {} \/ Coming'
            /\ exchanges'[k].state # "done"
    BY <2>2, <2>4, <2>5, <2>6, <2>8 DEF Caught
  <2> QED BY <2>4, <2>7, <2>9 DEF Alone
<1>8. ASSUME NEW f \in Lists!Filter, Lists!SetFilter(f) PROVE Alone'
  BY <1>8, <1>s DEF Lists!SetFilter, Lists!Sends
<1>9. CASE Lists!Tick
  BY <1>9, <1>s DEF Lists!Tick, Lists!Sends, ListTyped
<1>10. CASE Lists!Hear
  BY <1>10, <1>t DEF Lists!Hear
<1>11. CASE Lists!Connect
  BY <1>11, <1>t DEF Lists!Connect
<1>12. CASE Lists!Join
  BY <1>12, <1>t DEF Lists!Join
<1>13. CASE Lists!Drop
  BY <1>13, <1>a DEF Lists!Drop
<1> QED BY <1>u, <1>1, <1>2, <1>3, <1>4, <1>5, <1>6, <1>7, <1>8, <1>9, <1>10, <1>11, <1>12, <1>13 DEF Lists!ListsNext, Content

-----------------------------------------------------------------------------
(* Pages that load their list again. *)

Pressing == screen.event = "merge" /\ news # <<>> /\ table # "gone"
\* An answer that is not the row as it is will not be the last.
Superseded(i) ==
  \/ exchanges[i].value = table \/ used > exchanges[i].when
  \/ \E j \in Done : exchanges[j].when > exchanges[i].when
  \/ Pressing /\ news[Len(news)].when > exchanges[i].when
Ahead == \E i \in Writes : exchanges[i].how.early /\ exchanges[i].state \in {"sent", "refused"}
UpToDate ==
  /\ ~Coming => \A i \in Done : Superseded(i)
  /\ ~Coming => shown.value = table \/ Done # {} \/ Ahead \/ (Pressing /\ shown.value \in Lists!Value)
InStep ==
  /\ screen.again /\ socket = "joining" => Sent # {}
  /\ \A i \in Done : exchanges[i].value = "gone" => table = "gone"
  /\ screen.event = "merge" /\ shown.value = "gone" => table = "gone"
  /\ news # <<>> => socket = "on"
  /\ screen.event = "merge" /\ news # <<>> => news[Len(news)].value = table

\* What is known of the row, the socket and the news.
LEMMA NewsGrow ==
  ASSUME ListTyped, InStep, NEW v \in Content, table' = v, clock' = clock + 1, Lists!Tells(v), Lists!Live
  PROVE  /\ news' # <<>> => socket = "on"
         /\ news' # <<>> => news'[Len(news')].value = table'
         /\ socket = "on" => news' # <<>> /\ news'[Len(news')].when = clock + 1
         /\ socket # "on" => news' = news
<1>1. news \in Seq(Item)
  BY DEF ListTyped
<1>2. CASE socket = "on"
  <2>1. news' = Append(news, [value |-> v, when |-> clock'])
    BY <1>2 DEF Lists!Tells
  <2>2. news' # <<>> /\ news'[Len(news')] = [value |-> v, when |-> clock']
    BY <1>1, <2>1
  <2> QED BY <1>2, <2>2
<1>3. CASE socket # "on"
  BY <1>3 DEF Lists!Tells, InStep
<1> QED BY <1>2, <1>3

LEMMA LoadsSettle ==
  ASSUME Lists!ListsAssumption, ListTyped, ByLoads, InStep, UpToDate, [Lists!ListsNext]_listVars, Lists!Mended'
  PROVE  InStep' /\ UpToDate'
<1>m. "overtaken" \notin excused' /\ "early" \notin excused' /\ "deaf" \notin excused'
  BY StillNotMended
<1>t. /\ exchanges \in Seq(AnExchange) /\ New \notin DOMAIN exchanges /\ clock \in Nat /\ used \in Nat /\ used <= clock
      /\ \A i \in DOMAIN exchanges : exchanges[i].when \in Nat /\ exchanges[i].when <= clock
      /\ \A i \in Sent \cup Done \cup Writes : i \in DOMAIN exchanges
      /\ Sent \cap Writes = {} /\ Done \cap Writes = {} /\ Sent \cap Done = {}
      /\ screen' = screen /\ table \in Content /\ shown.value \in Content \cup {None}
      /\ \A i \in Done : exchanges[i].value \in Content
  BY TypesAre, Indexes, GoesOn DEF Sent, Done, Writes, Is, ListTyped
<1>p. /\ screen.event = "load" => screen.again
      /\ screen.event \in {"load", "merge"} <=> Lists!Live
  BY TypesAre DEF PageOK, Lists!Live
<1>h. ASSUME NEW how \in Lists!Ways PROVE
         /\ how \in {Lists!SaveThenLoad, Lists!TryOrLoad}
         /\ how = Lists!SaveThenLoad => how.after = "load" /\ how.refused = "nothing" /\ ~how.early
         /\ how = Lists!TryOrLoad => screen.event = "load" /\ how.after = "nothing" /\ how.refused = "load" /\ how.early
  BY HowsAre, HowsApart, TypesAre DEF PageOK, ByLoads
<1>w. \A i \in Writes : exchanges[i].how \in Lists!Ways /\ exchanges[i].to \in Content
  BY TypesAre
<1>e. screen.event = "merge" => ~Ahead
  BY <1>h, <1>w DEF Ahead
<1>n. news \in Seq(Item) /\ \A n \in DOMAIN news : news[n].when \in Nat
  BY NewsAre DEF ListTyped
\* Once a list is to come there is nothing to show of what was loaded.
<1>l. ASSUME Coming' PROVE UpToDate'
  BY <1>l DEF UpToDate
<1>q. ASSUME UNCHANGED <<table, exchanges, shown, used, news, socket>> PROVE InStep' /\ UpToDate'
  BY <1>q, <1>t DEF InStep, UpToDate, Coming, Superseded, Pressing, Ahead, Sent, Done, Writes, Is
<1>u. CASE UNCHANGED listVars
  BY <1>u, <1>q DEF listVars
<1>s. ASSUME NEW f \in Lists!Filter, exchanges' = Append(exchanges, Lists!Loading(f)), UNCHANGED <<table, shown>>,
             news' # <<>> => socket' = "on", screen.event = "merge" /\ news' # <<>> => news'[Len(news')].value = table
      PROVE InStep' /\ UpToDate'
  <2>1. Sent' # {} /\ Done' = Done /\ \A k \in Done : exchanges'[k] = exchanges[k]
    BY <1>s, <1>t, AddLoad DEF ExchangesKept
  <2> QED BY <1>s, <1>t, <2>1, <1>l DEF Coming, InStep
<1>1. ASSUME NEW i \in DOMAIN exchanges, Lists!UseLoad(i) PROVE InStep' /\ UpToDate'
  <2>1. /\ exchanges' = Lists!Used(i) /\ i \in Done /\ shown'.value = exchanges[i].value /\ ~(exchanges[i].when < used)
        /\ used' = (IF exchanges[i].when > used THEN exchanges[i].when ELSE used) /\ UNCHANGED <<table, news, socket>>
    BY <1>1, <1>m DEF Lists!UseLoad, Lists!Newest, Done, Is
  <2>2. /\ Sent' = Sent /\ Writes' = Writes /\ Done' = Done \ {i} /\ DOMAIN exchanges' = DOMAIN exchanges
        /\ \A k \in DOMAIN exchanges \ {i} : exchanges'[k] = exchanges[k]
    <3>1. i \in DOMAIN exchanges /\ i \notin Sent /\ i \notin Writes
      BY <2>1, <1>t
    <3>2. Sent' = Sent \ {i} /\ Writes' = Writes \ {i} /\ Done' = Done \ {i} /\ DOMAIN exchanges' = DOMAIN exchanges
      BY <2>1, <3>1, JustUse
    <3>3. \A k \in DOMAIN exchanges \ {i} : exchanges'[k] = exchanges[k]
      BY <2>1, <3>1, JustUse DEF OthersKept
    <3> QED BY <3>1, <3>2, <3>3
  <2>3. used' = exchanges[i].when
    BY <2>1, <1>t
  <2>4. Coming => Coming'
    BY <1>t, <2>1, <2>2 DEF Coming
  <2>5. ASSUME ~Coming, NEW k \in Done' PROVE Superseded(k)'
    <3>1. k \in Done /\ k # i /\ exchanges'[k] = exchanges[k] /\ Superseded(k)
      BY <1>t, <2>2, <2>5 DEF UpToDate
    <3>2. CASE \E j \in Done : exchanges[j].when > exchanges[k].when
      <4>1. PICK j \in Done : exchanges[j].when > exchanges[k].when
        BY <3>2
      <4>2. CASE j = i
        BY <3>1, <2>3, <4>1, <4>2 DEF Superseded
      <4>3. CASE j # i
        BY <1>t, <3>1, <2>2, <4>1, <4>3 DEF Superseded
      <4> QED BY <4>2, <4>3
    <3>3. CASE exchanges[k].value = table \/ used > exchanges[k].when \/ (Pressing /\ news[Len(news)].when > exchanges[k].when)
      BY <1>t, <2>1, <2>3, <3>1, <3>3 DEF Superseded, Pressing
    <3> QED BY <3>1, <3>2, <3>3 DEF Superseded
  <2>6. ASSUME ~Coming PROVE shown'.value = table' \/ Done' # {} \/ (Pressing' /\ shown'.value \in Lists!Value)
    <3>1. Superseded(i)
      BY <2>1, <2>6 DEF UpToDate
    <3>2. ASSUME NEW j \in Done, exchanges[j].when > exchanges[i].when PROVE Done' # {}
      BY <1>t, <2>2, <3>2
    <3>3. ASSUME Pressing, exchanges[i].value # table PROVE Pressing' /\ shown'.value \in Lists!Value
      BY <1>t, <2>1, <3>3 DEF Pressing, InStep, Content
    <3> QED BY <1>t, <2>1, <3>1, <3>2, <3>3 DEF Superseded
  <2>7. InStep'
    BY <1>t, <2>1, <2>2 DEF InStep
  <2>8. UpToDate'
    BY <2>4, <2>5, <2>6 DEF UpToDate
  <2> QED BY <2>7, <2>8
\* A write is used, and no list is asked for.
<1>v. ASSUME NEW i \in Writes, exchanges' = Lists!Used(i), UNCHANGED <<table, shown, used, news, socket>>,
             exchanges[i].state = "done" => exchanges[i].how.after # "load", exchanges[i].state = "refused" => exchanges[i].how.refused # "load",
             exchanges[i].how.early => exchanges[i].state = "done"
      PROVE InStep' /\ UpToDate'
  <2>2. /\ Sent' = Sent /\ Writes' = Writes \ {i} /\ Done' = Done
        /\ \A k \in DOMAIN exchanges \ {i} : exchanges'[k] = exchanges[k]
    BY <1>v, <1>t, JustUse DEF OthersKept
  <2>3. \A k \in Done \cup Writes' : exchanges'[k] = exchanges[k]
    BY <1>v, <1>t, <2>2
  <2>4. Coming => Coming'
    BY <1>v, <1>t, <2>2, <2>3 DEF Coming
  <2>5. Ahead => Ahead'
    BY <1>v, <2>2, <2>3 DEF Ahead
  <2>6. \A k \in Done : Superseded(k) => Superseded(k)'
    BY <1>v, <1>t, <2>2, <2>3 DEF Superseded, Pressing
  <2>7. InStep'
    BY <1>v, <1>t, <2>2, <2>3 DEF InStep
  <2>8. UpToDate'
    BY <1>v, <1>t, <2>2, <2>4, <2>5, <2>6 DEF UpToDate, Pressing
  <2> QED BY <2>7, <2>8
<1>x. ASSUME NEW i \in Writes, exchanges' = Append(Lists!Used(i), Lists!Loading(filter)), UNCHANGED <<table, shown, news, socket>>
      PROVE InStep' /\ UpToDate'
  <2>1. Sent' # {} /\ Done' = Done /\ \A k \in Done : exchanges'[k] = exchanges[k]
    <3>1. i \in DOMAIN exchanges /\ i \notin Done
      BY <1>x, <1>t
    <3>2. Sent' = (Sent \ {i}) \cup {New} /\ Done' = Done \ {i}
      BY <1>x, <3>1, UseAndLoad
    <3>3. \A k \in DOMAIN exchanges \ {i} : exchanges'[k] = exchanges[k]
      BY <1>x, <3>1, UseAndLoad DEF OthersKept
    <3> QED BY <3>1, <3>2, <3>3, <1>t
  <2> QED BY <1>x, <1>t, <2>1, <1>l DEF Coming, InStep
<1>2. ASSUME NEW i \in DOMAIN exchanges, Lists!UseWrite(i) PROVE InStep' /\ UpToDate'
  <2>1. i \in Writes /\ exchanges[i].state = "done" /\ exchanges[i].how \in Lists!Ways
    BY <1>2, <1>w DEF Lists!UseWrite, Writes
  <2>2. UNCHANGED <<table, shown, used, news, socket>>
    BY <1>2, <2>1, <1>h DEF Lists!UseWrite
  <2> QED BY <1>2, <2>1, <2>2, <1>h, <1>v, <1>x DEF Lists!UseWrite, Lists!LoadsAfter
<1>3. ASSUME NEW i \in DOMAIN exchanges, Lists!UseRefusal(i) PROVE InStep' /\ UpToDate'
  <2>1. i \in Writes /\ exchanges[i].state = "refused" /\ exchanges[i].how \in Lists!Ways
    BY <1>3, <1>w DEF Lists!UseRefusal, Writes
  <2>2. UNCHANGED <<table, shown, used, news, socket>>
    BY <1>3, <2>1, <1>h DEF Lists!UseRefusal, Lists!Undone
  <2> QED BY <1>3, <2>1, <2>2, <1>h, <1>v, <1>x DEF Lists!UseRefusal, Lists!LoadsAfter
<1>4. ASSUME NEW i \in DOMAIN exchanges, Lists!ServeLoad(i) PROVE InStep' /\ UpToDate'
  <2>1. /\ DOMAIN exchanges' = DOMAIN exchanges /\ (\A k \in DOMAIN exchanges \ {i} : exchanges'[k] = exchanges[k])
        /\ exchanges'[i].value = table /\ exchanges'[i].when = clock + 1
        /\ i \in Sent /\ Sent' = Sent \ {i} /\ Done' = Done \cup {i} /\ Writes' = Writes
        /\ UNCHANGED <<table, shown, used, news, socket>> /\ socket # "joining"
    BY <1>4, <1>m, LoadServed DEF Lists!ServeLoad, OthersKept, Lists!Excuse
  <2>2. \A k \in Done : k # i /\ k \in DOMAIN exchanges /\ exchanges'[k] = exchanges[k]
    BY <1>t, <2>1
  <2>3. \A k \in Done' : Superseded(k)'
    <3>1. \A k \in Done : exchanges'[i].when > exchanges'[k].when
      BY <1>t, <2>1, <2>2
    <3> QED BY <2>1, <3>1 DEF Superseded
  <2>4. InStep'
    BY <1>t, <2>1, <2>2 DEF InStep
  <2> QED BY <2>1, <2>3, <2>4 DEF UpToDate
<1>5. ASSUME NEW i \in DOMAIN exchanges, Lists!ServeWrite(i) PROVE InStep' /\ UpToDate'
  <2>1. /\ DOMAIN exchanges' = DOMAIN exchanges /\ OthersKept(i) /\ exchanges'[i].to = exchanges[i].to
        /\ exchanges'[i].how = exchanges[i].how
        /\ i \in Writes /\ exchanges[i].state = "sent" /\ Sent' = Sent /\ Done' = Done /\ Writes' = Writes
        /\ shown' = shown /\ socket' = socket /\ used' = used /\ clock' = clock + 1
    BY <1>5, WriteServed DEF Lists!ServeWrite
  <2>2. \A k \in Done : k # i /\ k \in DOMAIN exchanges /\ exchanges'[k] = exchanges[k]
    BY <2>1, <1>t DEF OthersKept
  <2>h. exchanges[i].how \in Lists!Ways /\ exchanges[i].to \in Content
    BY <2>1, <1>w
  <2>3. CASE exchanges'[i].state = "done" /\ table # "gone" /\ table' = exchanges[i].to /\ Lists!Tells(exchanges[i].to)
    <3>1. Lists!Live =>
            /\ news' # <<>> => socket = "on" /\ news'[Len(news')].value = table'
            /\ socket = "on" => news' # <<>>
      BY <2>1, <2>3, <2>h, NewsGrow
    <3>2. ~Lists!Live => news' = news
      BY <2>3 DEF Lists!Tells
    <3>3. Coming'
      <4>1. CASE exchanges[i].how = Lists!SaveThenLoad
        BY <4>1, <2>1, <2>3, <2>h, <1>h DEF Coming
      <4>2. CASE exchanges[i].how = Lists!TryOrLoad
        <5>1. screen'.event = "load" /\ screen'.again /\ Lists!Live
          BY <4>2, <2>h, <1>h, <1>p, <1>t
        <5>2. socket = "on" \/ socket = "off" \/ socket = "joining"
          BY DEF ListTyped
        <5> QED BY <5>1, <5>2, <2>1, <3>1, <1>t DEF Coming, InStep
      <4> QED BY <4>1, <4>2, <2>h, <1>h
    <3>4. InStep'
      <4>1. /\ screen'.again /\ socket' = "joining" => Sent' # {}
            /\ \A k \in Done' : exchanges'[k].value # "gone"
            /\ screen'.event = "merge" => shown'.value # "gone"
        BY <2>1, <2>2, <2>3, <1>t DEF InStep
      <4>2. /\ news' # <<>> => socket' = "on"
            /\ screen'.event = "merge" /\ news' # <<>> => news'[Len(news')].value = table'
        BY <2>1, <3>1, <3>2, <1>p, <1>t DEF InStep
      <4> QED BY <4>1, <4>2 DEF InStep
    <3> QED BY <3>3, <3>4, <1>l
  <2>4. CASE exchanges'[i].state = "refused" /\ UNCHANGED <<table, news>>
    <3>1. \A k \in Writes : k # i => exchanges'[k] = exchanges[k]
      BY <2>1, <1>t DEF OthersKept
    <3>2. Coming => Coming'
      BY <2>1, <2>4, <1>t, <3>1 DEF Coming
    <3>3. Ahead => Ahead'
      BY <2>1, <2>4, <3>1 DEF Ahead
    <3>4. \A k \in Done : Superseded(k) => Superseded(k)'
      BY <2>1, <2>2, <2>4, <1>t DEF Superseded, Pressing
    <3>5. InStep'
      BY <2>1, <2>2, <2>4, <1>t DEF InStep
    <3>6. UpToDate'
      BY <2>1, <2>4, <3>2, <3>3, <3>4, <1>t DEF UpToDate, Pressing
    <3> QED BY <3>5, <3>6
  <2> QED BY <1>5, <2>3, <2>4, WriteServed
<1>6. ASSUME NEW v \in Content, Lists!Elsewhere(v) PROVE InStep' /\ UpToDate'
  <2>1. /\ table # "gone" /\ table' = v /\ clock' = clock + 1 /\ Lists!Tells(v) /\ ~Lists!Deaf(v)
        /\ UNCHANGED <<shown, exchanges, used, socket>>
    BY <1>6, <1>m DEF Lists!Elsewhere, Lists!Excuse
  <2>2. Lists!Live /\ (screen.event = "merge" => v # "gone") /\ (socket = "on" \/ screen.again)
    BY <2>1 DEF Lists!Deaf
  <2>3. /\ news' # <<>> => socket = "on"
        /\ news' # <<>> => news'[Len(news')].value = table'
        /\ socket = "on" => news' # <<>> /\ news'[Len(news')].when = clock + 1
        /\ socket # "on" => news' = news
    BY <2>1, <2>2, NewsGrow
  <2>4. Sent' = Sent /\ Done' = Done /\ Writes' = Writes
    BY <2>1 DEF Sent, Done, Writes, Is
  <2>5. InStep'
    BY <2>1, <2>3, <2>4, <1>t DEF InStep
  <2>6. CASE socket # "on"
    <3>1. socket \in {"off", "joining"} /\ screen.again
      BY <2>2, <2>6 DEF ListTyped
    <3> QED BY <3>1, <2>1, <2>4, <2>5, <1>t, <1>l DEF Coming, InStep
  <2>7. CASE socket = "on" /\ screen.event = "load"
    BY <2>7, <2>3, <2>5, <1>t, <1>l DEF Coming
  <2>8. CASE socket = "on" /\ screen.event = "merge"
    <3>1. Pressing' /\ news'[Len(news')].when = clock + 1
      BY <2>1, <2>2, <2>3, <2>8, <1>t DEF Pressing
    <3>2. Coming => Coming'
      BY <2>1, <2>4, <2>8, <1>t DEF Coming
    <3>3. \A k \in Done' : Superseded(k)'
      BY <3>1, <2>1, <2>4, <1>t DEF Superseded
    <3>4. ~Coming => Done' # {} \/ shown'.value \in Lists!Value
      BY <2>1, <2>4, <2>8, <1>t, <1>e DEF UpToDate, Content
    <3>5. UpToDate'
      BY <3>1, <3>2, <3>3, <3>4 DEF UpToDate
    <3> QED BY <2>5, <3>5
  <2> QED BY <2>2, <2>6, <2>7, <2>8, <1>p
<1>7. ASSUME NEW v \in Content, NEW how \in Lists!Handling(v), Lists!Click(v, how) PROVE InStep' /\ UpToDate'
  <2>1. how \in Hows /\ how \in Lists!Ways
    BY TypesAre DEF Lists!Handling, PageOK, Lists!Ways
  <2>2. /\ exchanges' = Append(exchanges, Lists!Writing(v, how)) /\ shown.value \in Lists!Value /\ UNCHANGED <<table, news, socket, used>>
        /\ (~how.early => shown' = shown)
    BY <1>7 DEF Lists!Click, Lists!Sends
  <2>n. PICK n : n = New
    OBVIOUS
  <2>3. /\ (\A k \in DOMAIN exchanges : exchanges'[k] = exchanges[k])
        /\ exchanges'[n].how = how /\ exchanges'[n].state = "sent"
        /\ Sent' = Sent /\ Done' = Done /\ Writes' = Writes \cup {n}
    BY <2>1, <2>2, <2>n, AddWrite DEF ExchangesKept
  <2>4. Coming => Coming'
    BY <2>2, <2>3, <1>t DEF Coming
  <2>5. (Ahead => Ahead') /\ (how.early => Ahead')
    BY <2>3, <1>t DEF Ahead
  <2>6. \A k \in Done : Superseded(k) => Superseded(k)'
    BY <2>2, <2>3, <1>t DEF Superseded, Pressing
  <2>7. screen.event = "merge" => shown' = shown
    BY <2>1, <2>2, <1>h
  <2>8. InStep'
    BY <2>2, <2>3, <2>7, <1>t DEF InStep
  <2>9. UpToDate'
    BY <2>1, <2>2, <2>3, <2>4, <2>5, <2>6, <1>t, <1>h DEF UpToDate, Pressing
  <2> QED BY <2>8, <2>9
<1>8. ASSUME NEW f \in Lists!Filter, Lists!SetFilter(f) PROVE InStep' /\ UpToDate'
  BY <1>8, <1>s DEF Lists!SetFilter, Lists!Sends, InStep
<1>9. CASE Lists!Tick
  BY <1>9, <1>s DEF Lists!Tick, Lists!Sends, ListTyped, InStep
<1>10. CASE Lists!Hear
  <2>1. news # <<>> /\ news' = Tail(news) /\ Lists!Live /\ UNCHANGED <<table, socket>> /\ socket = "on"
    BY <1>10 DEF Lists!Hear, ListTyped, InStep
  <2>2. /\ Head(news) = news[1] /\ Head(news).when \in Nat /\ Len(news') = Len(news) - 1 /\ Len(news) \in Nat /\ Len(news) > 0
        /\ news' # <<>> => news'[Len(news')] = news[Len(news)]
        /\ news' = <<>> => Head(news) = news[Len(news)]
    <3>1. Head(news) = news[1] /\ 1 \in DOMAIN news /\ Len(news) \in Nat /\ Len(news) > 0 /\ Len(news') = Len(news) - 1
      BY <1>n, <2>1
    <3>2. \A n \in 1..Len(news') : news'[n] = news[n + 1]
      BY <1>n, <2>1
    <3>3. news' # <<>> => Len(news') \in 1..Len(news') /\ Len(news') + 1 = Len(news)
      BY <1>n, <2>1, <3>1
    <3>4. news' = <<>> => Len(news) = 1
      BY <3>1
    <3> QED BY <1>n, <3>1, <3>2, <3>3, <3>4
  <2>3. CASE screen.event = "load"
    BY <1>10, <2>1, <2>3, <1>s DEF Lists!Hear, Lists!Sends, ListTyped
  <2>4. CASE screen.event = "merge"
    <3>1. /\ exchanges' = exchanges /\ ~(Head(news).when < used)
          /\ used' = (IF Head(news).when > used THEN Head(news).when ELSE used)
          /\ shown' = IF shown.value \in Lists!Value /\ Head(news).value # "gone" THEN [shown EXCEPT !.value = Head(news).value] ELSE shown
      BY <1>10, <1>m, <2>4 DEF Lists!Hear, Lists!Excuse
    <3>2. Sent' = Sent /\ Done' = Done /\ Writes' = Writes /\ used' = Head(news).when
      BY <3>1, <2>2, <1>t DEF Sent, Done, Writes, Is
    <3>3. (shown.value \in Lists!Value /\ Head(news).value # "gone" => shown'.value = Head(news).value)
          /\ (~(shown.value \in Lists!Value /\ Head(news).value # "gone") => shown'.value = shown.value)
      BY <3>1 DEF ListTyped
    <3>4. Head(news).value \in Content
      BY <2>1, <2>2, <1>n, NewsAre
    <3>5. InStep'
      BY <2>1, <2>2, <3>1, <3>2, <3>3, <1>t DEF InStep
    <3>6. Coming => Coming'
      BY <2>1, <2>4, <3>1, <3>2, <1>t DEF Coming
    <3>7. ASSUME ~Coming, NEW k \in Done' PROVE Superseded(k)'
      <4>1. k \in Done /\ Superseded(k)
        BY <3>2, <3>7 DEF UpToDate
      <4>2. CASE Pressing /\ news[Len(news)].when > exchanges[k].when
        <5>1. CASE news' = <<>>
          BY <4>2, <5>1, <2>2, <3>1, <3>2 DEF Superseded
        <5>2. CASE news' # <<>>
          BY <4>2, <5>2, <2>1, <2>2, <3>1, <1>t DEF Superseded, Pressing
        <5> QED BY <5>1, <5>2
      <4>3. CASE exchanges[k].value = table \/ \E j \in Done : exchanges[j].when > exchanges[k].when
        BY <4>3, <2>1, <3>1, <3>2 DEF Superseded
      <4>4. CASE used > exchanges[k].when
        BY <4>1, <4>4, <3>1, <3>2, <1>t, <2>2 DEF Superseded
      <4> QED BY <4>1, <4>2, <4>3, <4>4 DEF Superseded
    <3>8. ASSUME ~Coming PROVE shown'.value = table' \/ Done' # {} \/ (Pressing' /\ shown'.value \in Lists!Value)
      <4>1. shown.value = table \/ Done # {} \/ (Pressing /\ shown.value \in Lists!Value)
        BY <3>8, <1>e, <2>4 DEF UpToDate
      <4>2. CASE news' = <<>>
        <5>1. Head(news).value = table
          BY <4>2, <2>1, <2>2, <2>4 DEF InStep
        <5> QED BY <4>1, <5>1, <2>1, <3>2, <3>3 DEF Pressing
      <4>3. CASE news' # <<>>
        <5>1. shown.value \in Lists!Value => shown'.value \in Lists!Value
          BY <3>3, <3>4 DEF Content
        <5>2. CASE table = "gone"
          BY <4>1, <5>2, <2>1, <3>2, <3>3 DEF Pressing, Lists!Value
        <5>3. CASE table # "gone"
          BY <4>1, <4>3, <5>1, <5>3, <2>1, <2>4, <3>2, <1>t DEF Pressing, Content
        <5> QED BY <5>2, <5>3
      <4> QED BY <4>2, <4>3
    <3>9. UpToDate'
      BY <3>6, <3>7, <3>8 DEF UpToDate
    <3> QED BY <3>5, <3>9
  <2> QED BY <2>1, <2>3, <2>4, <1>p
<1>11. CASE Lists!Connect
  <2>1. CASE screen.again
    BY <1>11, <2>1, <1>s DEF Lists!Connect, Lists!Sends, ListTyped, InStep
  <2>2. CASE ~screen.again
    <3>1. Sent' = Sent /\ Done' = Done /\ Writes' = Writes /\ exchanges' = exchanges /\ news = <<>>
          /\ UNCHANGED <<table, shown, used, news>>
      BY <1>11, <2>2 DEF Lists!Connect, Sent, Done, Writes, Is, InStep
    <3> QED BY <3>1, <2>2, <1>t DEF InStep, UpToDate, Coming, Superseded, Pressing, Ahead
  <2> QED BY <2>1, <2>2
<1>12. CASE Lists!Join
  <2>1. Sent' = Sent /\ Done' = Done /\ Writes' = Writes /\ UNCHANGED <<table, shown, used, news, exchanges>> /\ socket = "joining" /\ socket' = "on"
    BY <1>12 DEF Lists!Join, Sent, Done, Writes, Is
  <2> QED BY <2>1, <1>t DEF InStep, UpToDate, Coming, Superseded, Pressing, Ahead
<1>13. CASE Lists!Drop
  <2>1. Sent' = Sent /\ Done' = Done /\ Writes' = Writes /\ UNCHANGED <<table, shown, used, exchanges>> /\ socket' = "off" /\ news' = <<>>
        /\ (news # <<>> => screen.again)
    BY <1>13, <1>m DEF Lists!Drop, Lists!Excuse, Sent, Done, Writes, Is
  <2>2. InStep'
    BY <2>1, <1>t DEF InStep
  <2>3. CASE screen.again
    BY <2>1, <2>2, <2>3, <1>t, <1>l DEF Coming
  <2>4. CASE ~screen.again
    BY <2>1, <2>2, <2>4, <1>t, <1>p DEF UpToDate, Coming, Superseded, Pressing, Ahead
  <2> QED BY <2>3, <2>4
<1> QED BY <1>u, <1>1, <1>2, <1>3, <1>4, <1>5, <1>6, <1>7, <1>8, <1>9, <1>10, <1>11, <1>12, <1>13 DEF Lists!ListsNext, Content

-----------------------------------------------------------------------------
ListsInv ==
  /\ ListTyped
  /\ Lists!Mended => Filtered /\ IF ByLoads THEN InStep /\ UpToDate ELSE Alone

LEMMA ListsSettle ==
  ASSUME Lists!ListsAssumption, ListsInv, [Lists!ListsNext]_listVars
  PROVE  ListsInv'
<1>1. ListTyped'
  BY TypedSettle DEF ListsInv
<1>2. ASSUME Lists!Mended' PROVE Filtered' /\ IF ByLoads' THEN InStep' /\ UpToDate' ELSE Alone'
  <2>1. Lists!Mended /\ ByLoads' = ByLoads
    BY <1>2, MendedBefore, GoesOn DEF ByLoads, Lists!Ways
  <2>2. Filtered'
    BY <1>2, <2>1, FilteredSettle DEF ListsInv
  <2>3. CASE ByLoads
    BY <1>2, <2>1, <2>2, <2>3, LoadsSettle DEF ListsInv
  <2>4. CASE ~ByLoads
    BY <1>2, <2>1, <2>2, <2>4, AloneSettle DEF ListsInv
  <2> QED BY <2>3, <2>4
<1> QED BY <1>1, <1>2 DEF ListsInv

LEMMA ListsStart ==
  ASSUME Lists!ListsAssumption, Lists!ListsInit
  PROVE  ListsInv
<1>0. screen \in Lists!PanelPages \cup Lists!AdminPages /\ table = "a" /\ filter = 1 /\ clock = 0 /\ used = 0 /\ news = <<>> /\ others = 0 /\ drops = 0 /\ excused = {}
  BY DEF Lists!ListsInit
<1>p. PageOK
  BY <1>0, PagesAre
<1>1. CASE shown = [of |-> 1, value |-> "a"] /\ exchanges = <<>> /\ socket = "on"
  <2>1. Sent = {} /\ Done = {} /\ Writes = {}
    BY <1>1 DEF Sent, Done, Writes
  <2>2. ListTyped
    BY <1>0, <1>1, <2>1 DEF ListTyped, Content, Lists!Value, Lists!Filter, Lists!ListsAssumption
  <2>3. shown.of = 1 /\ shown.value = "a"
    BY <1>1
  <2> QED BY <1>0, <1>1, <2>1, <2>2, <2>3 DEF ListsInv, Filtered, InStep, UpToDate, Alone, Caught
<1>2. CASE shown = [of |-> 1, value |-> None] /\ exchanges = <<Lists!Loading(1)>> /\ socket = (IF Lists!Live THEN "off" ELSE "on")
  <2>1. exchanges \in Seq(AnExchange) /\ Len(exchanges) = 1 /\ DOMAIN exchanges = {1} /\ exchanges[1] = Lists!Loading(1)
    <3>1. Lists!Loading(1) \in AnExchange
      BY DEF Lists!Loading, AnExchange, ALoad, Lists!Filter
    <3> QED BY <1>2, <3>1
  <2>2. exchanges[1].kind = "load" /\ exchanges[1].state = "sent" /\ exchanges[1].of = 1 /\ exchanges[1].when = 0
    BY <2>1 DEF Lists!Loading
  <2>3. Sent = {1} /\ Done = {} /\ Writes = {}
    BY <2>1, <2>2 DEF Sent, Done, Writes, Is
  <2>4. Coming
    BY <2>3 DEF Coming
  <2>5. ListTyped
    BY <1>0, <1>2, <2>1, <2>2, <2>3 DEF ListTyped, Content, Lists!Value, Lists!Filter, Lists!ListsAssumption
  <2>6. Filtered
    BY <1>0, <2>2, <2>3 DEF Filtered
  <2>7. Alone
    BY <2>3, <2>4 DEF Alone, Caught
  <2>8. shown.value # "gone" /\ socket # "joining"
    BY <1>2 DEF Lists!ListsAssumption
  <2>9. InStep /\ UpToDate
    BY <1>0, <1>2, <2>3, <2>4, <2>8 DEF InStep, UpToDate
  <2> QED BY <2>5, <2>6, <2>7, <2>9 DEF ListsInv
<1> QED BY <1>1, <1>2 DEF Lists!ListsInit

LEMMA ListsShow == ListsInv => Lists!ListsAreTrue
<1> SUFFICES ASSUME ListsInv PROVE Lists!ListsAreTrue
  OBVIOUS
<1>1. Lists!ListsTypeOK
  BY DEF ListsInv, ListTyped, Lists!ListsTypeOK, Content
<1>2. ASSUME Lists!Quiet, Lists!Mended PROVE shown.value = table /\ shown.of = filter
  <2>1. Sent = {} /\ Done = {} /\ Writes = {}
    BY <1>2 DEF Lists!Quiet, Lists!Pending, Lists!InFlight, Sent, Done, Writes, Is
  <2>2. shown.of = filter
    BY <1>2, <2>1 DEF ListsInv, Filtered
  <2>3. ~Coming
    BY <1>2, <2>1 DEF Coming, Lists!Quiet
  <2>4. shown.value = table
    <3>1. CASE ByLoads
      BY <3>1, <1>2, <2>1, <2>3 DEF ListsInv, UpToDate, Ahead, Pressing, Lists!Quiet
    <3>2. CASE ~ByLoads
      BY <3>2, <1>2, <2>1, <2>3 DEF ListsInv, Alone, Caught
    <3> QED BY <3>1, <3>2
  <2> QED BY <2>2, <2>4
<1> QED BY <1>1, <1>2 DEF Lists!ListsAreTrue, Lists!PageCatchesUp

-----------------------------------------------------------------------------
(* The bubble on a site. *)

BubbleTypeOK ==
  /\ opened \in BOOLEAN /\ minimized \in BOOLEAN /\ mobile \in BOOLEAN /\ minimizeAllowed \in BOOLEAN /\ covered \in BOOLEAN
  /\ seen \in [Site!Part -> BOOLEAN] /\ due \in SUBSET Site!Timer /\ loaded \in Nat
Beside == ~minimized /\ ~(opened /\ mobile)
\* Until the timers have run, what is not on the site as it should be has a timer to come.
Promised ==
  /\ minimized => ~opened /\ ~seen["launcher"] /\ ~seen["badge"] /\ seen["tab"]
  /\ ~minimized => seen["drawn"] \/ "drawLauncher" \in due
  /\ ~minimized /\ seen["tab"] => "hideTab" \in due
  /\ opened => seen["frame"]
  /\ ~opened /\ seen["frame"] => "hideFrame" \in due
  /\ seen["full"] = (opened /\ mobile)
  /\ seen["teaser"] => ~opened /\ ~minimized
  /\ covered => opened /\ mobile
  /\ ~covered => seen["launcher"] = Beside /\ (loaded > 0 => seen["badge"] = (Beside /\ minimizeAllowed))
BubbleInv == BubbleTypeOK /\ Promised

\* The styles after what setClosed, setMinimized and the turn of the phone change at once.
ClosedStyles(s, a) == Site!With(s, [full |-> FALSE, launcher |-> TRUE, badge |-> a])
HiddenStyles(s) == Site!With(s, [launcher |-> FALSE, badge |-> FALSE, teaser |-> FALSE, tab |-> TRUE])
TurnedStyles(s, m, l, b) == Site!With(s, [full |-> m, launcher |-> l, badge |-> b])

LEMMA OpenAre ==
  ASSUME NEW s \in [Site!Part -> BOOLEAN], NEW f, f = Site!OpenStyles(s), mobile \in BOOLEAN
  PROVE  /\ f \in [Site!Part -> BOOLEAN]
         /\ f["launcher"] = (s["launcher"] /\ ~mobile) /\ f["badge"] = (s["badge"] /\ ~mobile) /\ f["tab"] = s["tab"]
         /\ f["teaser"] = FALSE /\ f["frame"] = TRUE /\ f["full"] = mobile /\ f["drawn"] = s["drawn"]
<1> DEFINE l == s["launcher"] /\ ~mobile
           b == s["badge"] /\ ~mobile
<1>0. l \in BOOLEAN /\ b \in BOOLEAN
  OBVIOUS
<1> HIDE DEF l, b
<1>1. f = Site!With(s, [teaser |-> FALSE, frame |-> TRUE, full |-> mobile, launcher |-> l, badge |-> b])
  BY DEF Site!OpenStyles, l, b
<1>2. /\ f["launcher"] = l /\ f["badge"] = b /\ f["tab"] = s["tab"]
      /\ f["teaser"] = FALSE /\ f["frame"] = TRUE /\ f["full"] = mobile /\ f["drawn"] = s["drawn"]
  BY <1>0, <1>1 DEF Site!With, Site!Part
<1>3. \A p \in Site!Part : f[p] \in BOOLEAN
  BY <1>0, <1>2 DEF Site!Part
<1>4. f = [p \in Site!Part |-> f[p]]
  BY <1>1 DEF Site!With
<1> QED BY <1>2, <1>3, <1>4 DEF l, b

LEMMA ClosedAre ==
  ASSUME NEW s \in [Site!Part -> BOOLEAN], NEW a \in BOOLEAN, NEW f, f = ClosedStyles(s, a)
  PROVE  /\ f \in [Site!Part -> BOOLEAN]
         /\ f["launcher"] = TRUE /\ f["badge"] = a /\ f["tab"] = s["tab"] /\ f["teaser"] = s["teaser"]
         /\ f["frame"] = s["frame"] /\ f["full"] = FALSE /\ f["drawn"] = s["drawn"]
<1>1. /\ f["launcher"] = TRUE /\ f["badge"] = a /\ f["tab"] = s["tab"] /\ f["teaser"] = s["teaser"]
      /\ f["frame"] = s["frame"] /\ f["full"] = FALSE /\ f["drawn"] = s["drawn"]
  BY DEF ClosedStyles, Site!With, Site!Part
<1>2. \A p \in Site!Part : f[p] \in BOOLEAN
  BY <1>1 DEF Site!Part
<1>3. f = [p \in Site!Part |-> f[p]]
  BY DEF ClosedStyles, Site!With
<1> QED BY <1>1, <1>2, <1>3

LEMMA TinyAre ==
  ASSUME NEW s \in [Site!Part -> BOOLEAN], NEW f, f = Site!With(s, [full |-> FALSE])
  PROVE  /\ f \in [Site!Part -> BOOLEAN]
         /\ f["launcher"] = s["launcher"] /\ f["badge"] = s["badge"] /\ f["tab"] = s["tab"] /\ f["teaser"] = s["teaser"]
         /\ f["frame"] = s["frame"] /\ f["full"] = FALSE /\ f["drawn"] = s["drawn"]
<1>1. /\ f["launcher"] = s["launcher"] /\ f["badge"] = s["badge"] /\ f["tab"] = s["tab"] /\ f["teaser"] = s["teaser"]
      /\ f["frame"] = s["frame"] /\ f["full"] = FALSE /\ f["drawn"] = s["drawn"]
  BY DEF Site!With, Site!Part
<1>2. \A p \in Site!Part : f[p] \in BOOLEAN
  BY <1>1 DEF Site!Part
<1>3. f = [p \in Site!Part |-> f[p]]
  BY DEF Site!With
<1> QED BY <1>1, <1>2, <1>3

LEMMA HiddenAre ==
  ASSUME NEW s \in [Site!Part -> BOOLEAN], NEW f, f = HiddenStyles(s)
  PROVE  /\ f \in [Site!Part -> BOOLEAN]
         /\ f["launcher"] = FALSE /\ f["badge"] = FALSE /\ f["tab"] = TRUE /\ f["teaser"] = FALSE
         /\ f["frame"] = s["frame"] /\ f["full"] = s["full"] /\ f["drawn"] = s["drawn"]
<1>1. /\ f["launcher"] = FALSE /\ f["badge"] = FALSE /\ f["tab"] = TRUE /\ f["teaser"] = FALSE
      /\ f["frame"] = s["frame"] /\ f["full"] = s["full"] /\ f["drawn"] = s["drawn"]
  BY DEF HiddenStyles, Site!With, Site!Part
<1>2. \A p \in Site!Part : f[p] \in BOOLEAN
  BY <1>1 DEF Site!Part
<1>3. f = [p \in Site!Part |-> f[p]]
  BY DEF HiddenStyles, Site!With
<1> QED BY <1>1, <1>2, <1>3

LEMMA RestoredAre ==
  ASSUME NEW s \in [Site!Part -> BOOLEAN], NEW a \in BOOLEAN, NEW f, f = Site!Restored(s, a)
  PROVE  /\ f \in [Site!Part -> BOOLEAN]
         /\ f["launcher"] = TRUE /\ f["badge"] = a /\ f["tab"] = s["tab"] /\ f["teaser"] = s["teaser"]
         /\ f["frame"] = s["frame"] /\ f["full"] = s["full"] /\ f["drawn"] = s["drawn"]
<1>1. /\ f["launcher"] = TRUE /\ f["badge"] = a /\ f["tab"] = s["tab"] /\ f["teaser"] = s["teaser"]
      /\ f["frame"] = s["frame"] /\ f["full"] = s["full"] /\ f["drawn"] = s["drawn"]
  BY DEF Site!Restored, Site!With, Site!Part
<1>2. \A p \in Site!Part : f[p] \in BOOLEAN
  BY <1>1 DEF Site!Part
<1>3. f = [p \in Site!Part |-> f[p]]
  BY DEF Site!Restored, Site!With
<1> QED BY <1>1, <1>2, <1>3

LEMMA TurnedAre ==
  ASSUME NEW s \in [Site!Part -> BOOLEAN], NEW m \in BOOLEAN, NEW l \in BOOLEAN, NEW b \in BOOLEAN, NEW f, f = TurnedStyles(s, m, l, b)
  PROVE  /\ f \in [Site!Part -> BOOLEAN]
         /\ f["launcher"] = l /\ f["badge"] = b /\ f["tab"] = s["tab"] /\ f["teaser"] = s["teaser"]
         /\ f["frame"] = s["frame"] /\ f["full"] = m /\ f["drawn"] = s["drawn"]
<1>1. /\ f["launcher"] = l /\ f["badge"] = b /\ f["tab"] = s["tab"] /\ f["teaser"] = s["teaser"]
      /\ f["frame"] = s["frame"] /\ f["full"] = m /\ f["drawn"] = s["drawn"]
  BY DEF TurnedStyles, Site!With, Site!Part
<1>2. \A p \in Site!Part : f[p] \in BOOLEAN
  BY <1>1 DEF Site!Part
<1>3. f = [p \in Site!Part |-> f[p]]
  BY DEF TurnedStyles, Site!With
<1> QED BY <1>1, <1>2, <1>3

LEMMA OneStyle ==
  ASSUME NEW s \in [Site!Part -> BOOLEAN], NEW c, NEW q \in Site!Part, DOMAIN c = {q}, c[q] \in BOOLEAN
  PROVE  Site!With(s, c) \in [Site!Part -> BOOLEAN] /\ Site!With(s, c)[q] = c[q] /\ \A p \in Site!Part \ {q} : Site!With(s, c)[p] = s[p]
BY DEF Site!With

LEMMA BubbleSettle ==
  ASSUME Site!BubbleAssumption, BubbleInv, [Site!BubbleNext]_bubbleVars
  PROVE  BubbleInv'
<1>t. BubbleTypeOK /\ Promised BY DEF BubbleInv
<1>s. seen \in [Site!Part -> BOOLEAN] BY <1>t DEF BubbleTypeOK
<1>u. CASE UNCHANGED bubbleVars BY <1>u, <1>t DEF bubbleVars, BubbleInv, BubbleTypeOK, Promised, Beside
<1>o. ASSUME Site!SetOpen, ~opened, ~minimized, UNCHANGED <<mobile, minimizeAllowed, loaded>> PROVE BubbleInv'
  <2>1. seen' = Site!OpenStyles(seen) /\ mobile \in BOOLEAN BY <1>o, <1>t DEF Site!SetOpen, BubbleTypeOK
  <2>2. /\ seen' \in [Site!Part -> BOOLEAN]
        /\ seen'["launcher"] = (seen["launcher"] /\ ~mobile) /\ seen'["badge"] = (seen["badge"] /\ ~mobile) /\ seen'["tab"] = seen["tab"]
        /\ seen'["teaser"] = FALSE /\ seen'["frame"] = TRUE /\ seen'["full"] = mobile /\ seen'["drawn"] = seen["drawn"]
    BY <2>1, <1>s, OpenAre
  <2>3. BubbleTypeOK' BY <2>2, <1>t, <1>o DEF Site!SetOpen, BubbleTypeOK
  <2>4. Promised' BY <2>2, <1>t, <1>o DEF Site!SetOpen, BubbleTypeOK, Promised, Beside
  <2> QED BY <2>3, <2>4 DEF BubbleInv
<1>c. ASSUME Site!SetClosed, UNCHANGED <<mobile, minimizeAllowed, loaded>> PROVE BubbleInv'
  <2>3. CASE minimized
    <3>1. PICK c \in BOOLEAN : seen' = Site!With(seen, [full |-> c]) /\ c = FALSE BY <1>c, <2>3 DEF Site!SetClosed, Site!CloseStyles
    <3>2. /\ seen' \in [Site!Part -> BOOLEAN]
          /\ seen'["launcher"] = seen["launcher"] /\ seen'["badge"] = seen["badge"] /\ seen'["tab"] = seen["tab"] /\ seen'["teaser"] = seen["teaser"]
          /\ seen'["frame"] = seen["frame"] /\ seen'["full"] = FALSE /\ seen'["drawn"] = seen["drawn"]
      BY <3>1, <1>s, TinyAre
    <3>3. BubbleTypeOK' BY <3>2, <1>t, <1>c DEF Site!SetClosed, BubbleTypeOK, Site!Timer
    <3>4. Promised' BY <3>2, <2>3, <1>t, <1>c DEF Site!SetClosed, BubbleTypeOK, Promised, Beside
    <3> QED BY <3>3, <3>4 DEF BubbleInv
  <2>4. CASE ~minimized
    <3>1. seen' = ClosedStyles(seen, minimizeAllowed) BY <1>c, <2>4 DEF Site!SetClosed, Site!CloseStyles, ClosedStyles
    <3>2. /\ seen' \in [Site!Part -> BOOLEAN]
          /\ seen'["launcher"] = TRUE /\ seen'["badge"] = minimizeAllowed /\ seen'["tab"] = seen["tab"] /\ seen'["teaser"] = seen["teaser"]
          /\ seen'["frame"] = seen["frame"] /\ seen'["full"] = FALSE /\ seen'["drawn"] = seen["drawn"]
      <4> minimizeAllowed \in BOOLEAN BY <1>t DEF BubbleTypeOK
      <4>1. seen' \in [Site!Part -> BOOLEAN]
        BY <3>1, <1>s, ClosedAre
      <4>2. seen'["launcher"] = TRUE
        BY <3>1, <1>s, ClosedAre
      <4>3. seen'["badge"] = minimizeAllowed
        BY <3>1, <1>s, ClosedAre
      <4>4. seen'["tab"] = seen["tab"] /\ seen'["teaser"] = seen["teaser"]
        BY <3>1, <1>s, ClosedAre
      <4>5. seen'["frame"] = seen["frame"] /\ seen'["drawn"] = seen["drawn"]
        BY <3>1, <1>s, ClosedAre
      <4>6. seen'["full"] = FALSE
        BY <3>1, <1>s, ClosedAre
      <4> QED BY <4>1, <4>2, <4>3, <4>4, <4>5, <4>6
    <3>3. BubbleTypeOK' BY <3>2, <1>t, <1>c DEF Site!SetClosed, BubbleTypeOK, Site!Timer
    <3>4. Promised' BY <3>2, <2>4, <1>t, <1>c DEF Site!SetClosed, BubbleTypeOK, Promised, Beside
    <3> QED BY <3>3, <3>4 DEF BubbleInv
  <2> QED BY <2>3, <2>4
<1>m. ASSUME Site!SetMinimized, UNCHANGED <<mobile, minimizeAllowed, loaded>> PROVE BubbleInv'
  <2> DEFINE g == IF opened THEN Site!With(seen, [full |-> FALSE]) ELSE seen
  <2>1. seen' = HiddenStyles(g) BY <1>m DEF Site!SetMinimized, Site!CloseStyles, HiddenStyles
  <2>2. g \in [Site!Part -> BOOLEAN] /\ g["frame"] = seen["frame"] /\ g["full"] = (IF opened THEN FALSE ELSE seen["full"]) /\ g["drawn"] = seen["drawn"]
    BY <1>s, TinyAre
  <2> HIDE DEF g
  <2>3. /\ seen' \in [Site!Part -> BOOLEAN]
        /\ seen'["launcher"] = FALSE /\ seen'["badge"] = FALSE /\ seen'["tab"] = TRUE /\ seen'["teaser"] = FALSE
        /\ seen'["frame"] = g["frame"] /\ seen'["full"] = g["full"] /\ seen'["drawn"] = g["drawn"]
    BY <2>1, <2>2, HiddenAre
  <2>4. BubbleTypeOK' BY <2>3, <1>t, <1>m DEF Site!SetMinimized, BubbleTypeOK, Site!Timer
  <2>5. Promised' BY <2>2, <2>3, <1>t, <1>m DEF Site!SetMinimized, BubbleTypeOK, Promised, Beside
  <2> QED BY <2>4, <2>5 DEF BubbleInv
<1>r. ASSUME Site!SetRestored, UNCHANGED <<mobile, minimizeAllowed, loaded>> PROVE BubbleInv'
  <2>1. /\ seen' \in [Site!Part -> BOOLEAN]
        /\ seen'["launcher"] = TRUE /\ seen'["badge"] = minimizeAllowed /\ seen'["tab"] = seen["tab"] /\ seen'["teaser"] = seen["teaser"]
        /\ seen'["frame"] = seen["frame"] /\ seen'["full"] = seen["full"] /\ seen'["drawn"] = seen["drawn"]
    <3>1. minimizeAllowed \in BOOLEAN /\ seen' = Site!Restored(seen, minimizeAllowed) BY <1>r, <1>t DEF Site!SetRestored, BubbleTypeOK
    <3> QED BY <3>1, <1>s, RestoredAre, ZenonT(60)
  <2>2. BubbleTypeOK' BY <2>1, <1>t, <1>r DEF Site!SetRestored, BubbleTypeOK, Site!Timer
  <2>3. Promised'
    <3>1. minimized' = FALSE /\ opened' = opened /\ mobile' = mobile /\ minimizeAllowed' = minimizeAllowed /\ loaded' = loaded
          /\ due' = due \cup {"hideTab", "drawLauncher"} /\ covered' = (covered \/ (opened /\ mobile))
      BY <1>r DEF Site!SetRestored
    <3>2. opened \in BOOLEAN /\ mobile \in BOOLEAN /\ minimizeAllowed \in BOOLEAN
      BY <1>t DEF BubbleTypeOK
    <3>3. /\ opened => seen["frame"]
          /\ ~opened /\ seen["frame"] => "hideFrame" \in due
          /\ seen["full"] = (opened /\ mobile)
          /\ seen["teaser"] => ~opened
          /\ covered => opened /\ mobile
      BY <1>t DEF Promised
    <3> QED BY <2>1, <3>1, <3>2, <3>3 DEF Promised, Beside
  <2> QED BY <2>2, <2>3 DEF BubbleInv
<1>1. CASE Site!ClickLauncher
  BY <1>1, <1>o, <1>c, <1>t DEF Site!ClickLauncher, Promised
<1>2. CASE Site!ClickBadge BY <1>2, <1>m DEF Site!ClickBadge
<1>3. CASE Site!ClickTab BY <1>3, <1>r DEF Site!ClickTab
<1>4. CASE Site!ClickTeaser BY <1>4, <1>o, <1>t DEF Site!ClickTeaser, Promised
<1>5. CASE Site!CloseInFrame BY <1>5, <1>c DEF Site!CloseInFrame
<1>6. CASE Site!Resize
  <2>1. /\ mobile' \in BOOLEAN /\ mobile' = ~mobile /\ covered' = FALSE
        /\ UNCHANGED <<opened, minimized, minimizeAllowed, due, loaded>>
    BY <1>6 DEF Site!Resize
  <2>2. CASE ~opened
    <3>1. seen' = seen BY <1>6, <2>2 DEF Site!Resize
    <3> QED BY <2>1, <2>2, <3>1, <1>t DEF BubbleInv, BubbleTypeOK, Promised, Beside
  <2>3. CASE opened
    <3>1. PICK l \in BOOLEAN, b \in BOOLEAN :
            seen' = TurnedStyles(seen, mobile', l, b) /\ l = (~mobile') /\ b = (~mobile' /\ minimizeAllowed)
      <4>1. (~mobile') \in BOOLEAN /\ (~mobile' /\ minimizeAllowed) \in BOOLEAN
        OBVIOUS
      <4>2. seen' = TurnedStyles(seen, mobile', ~mobile', ~mobile' /\ minimizeAllowed)
        BY <1>6, <2>3 DEF Site!Resize, TurnedStyles
      <4> QED BY <4>1, <4>2
    <3>2. seen' = TurnedStyles(seen, mobile', l, b)
      BY <3>1
    <3>3. /\ seen' \in [Site!Part -> BOOLEAN]
          /\ seen'["launcher"] = l /\ seen'["badge"] = b /\ seen'["tab"] = seen["tab"] /\ seen'["teaser"] = seen["teaser"]
          /\ seen'["frame"] = seen["frame"] /\ seen'["full"] = mobile' /\ seen'["drawn"] = seen["drawn"]
      <4>1. mobile' \in BOOLEAN BY <2>1
      <4>2. seen' \in [Site!Part -> BOOLEAN]
        BY <3>2, <4>1, <1>s, TurnedAre
      <4>3. seen'["launcher"] = l
        BY <3>2, <4>1, <1>s, TurnedAre
      <4>4. seen'["badge"] = b
        BY <3>2, <4>1, <1>s, TurnedAre
      <4>5. seen'["tab"] = seen["tab"]
        BY <3>2, <4>1, <1>s, TurnedAre
      <4>6. seen'["teaser"] = seen["teaser"]
        BY <3>2, <4>1, <1>s, TurnedAre
      <4>7. seen'["frame"] = seen["frame"]
        BY <3>2, <4>1, <1>s, TurnedAre
      <4>8. seen'["drawn"] = seen["drawn"]
        BY <3>2, <4>1, <1>s, TurnedAre
      <4>9. seen'["full"] = mobile'
        BY <3>2, <4>1, <1>s, TurnedAre
      <4> QED BY <4>2, <4>3, <4>4, <4>5, <4>6, <4>7, <4>8, <4>9
    <3>4. BubbleTypeOK' BY <3>3, <2>1, <1>t DEF BubbleTypeOK
    <3>5. Promised' BY <3>1, <3>3, <2>1, <2>3, <1>t DEF BubbleTypeOK, Promised, Beside
    <3> QED BY <3>4, <3>5 DEF BubbleInv
  <2> QED BY <2>2, <2>3, <1>t DEF BubbleTypeOK
<1>7. ASSUME NEW allow \in BOOLEAN, NEW auto \in BOOLEAN, NEW greeting \in BOOLEAN, Site!Ready(allow, auto, greeting) PROVE BubbleInv'
  <2> DEFINE g == Site!With(seen, [teaser |-> FALSE])
             back == minimized /\ ~allow
             more == IF back THEN {"hideTab", "drawLauncher"} ELSE {}
             badge == g["badge"] \/ ~minimized
  <2>0. PICK c \in BOOLEAN : g = Site!With(seen, [teaser |-> c]) /\ c = FALSE
    OBVIOUS
  <2>1. g \in [Site!Part -> BOOLEAN] /\ g["teaser"] = FALSE /\ \A p \in Site!Part \ {"teaser"} : g[p] = seen[p]
    <3> HIDE DEF g
    <3> QED BY <1>s, <2>0, OneStyle DEF Site!Part
  <2>2. badge \in BOOLEAN BY <2>1, <1>t DEF Site!Part, BubbleTypeOK
  <2>3. /\ seen' = IF ~allow THEN IF back THEN Site!Restored(g, FALSE) ELSE Site!With(g, [badge |-> FALSE]) ELSE Site!With(g, [badge |-> badge])
        /\ loaded' = loaded + 1 /\ minimizeAllowed' = allow /\ minimized' = (minimized /\ allow)
        /\ covered' = (covered \/ (opened /\ mobile /\ seen'["badge"])) /\ opened' = opened /\ mobile' = mobile
        /\ due \subseteq due' /\ more \subseteq due' /\ due' \subseteq due \cup Site!Timer
    BY <1>7 DEF Site!Ready, Site!Timer
  <2>4. BubbleTypeOK' /\ seen'["teaser"] = FALSE /\ seen'["tab"] = seen["tab"] /\ seen'["frame"] = seen["frame"]
        /\ seen'["full"] = seen["full"] /\ seen'["drawn"] = seen["drawn"]
        /\ seen'["launcher"] = (seen["launcher"] \/ back)
        /\ seen'["badge"] = (allow /\ (seen["badge"] \/ ~minimized))
    <3> HIDE DEF g, badge
    <3>0. /\ g["launcher"] = seen["launcher"] /\ g["badge"] = seen["badge"] /\ g["tab"] = seen["tab"]
          /\ g["frame"] = seen["frame"] /\ g["full"] = seen["full"] /\ g["drawn"] = seen["drawn"]
      BY <2>1 DEF Site!Part
    <3>f. \A p \in Site!Part : seen[p] \in BOOLEAN BY <1>s
    <3>s. seen' \in [Site!Part -> BOOLEAN] => BubbleTypeOK'
      <4>1. loaded' \in Nat /\ minimized' \in BOOLEAN /\ minimizeAllowed' \in BOOLEAN /\ opened' \in BOOLEAN /\ mobile' \in BOOLEAN
        BY <2>3, <1>t DEF BubbleTypeOK
      <4>2. due' \in SUBSET Site!Timer /\ covered' \in BOOLEAN
        BY <2>3, <1>t DEF BubbleTypeOK
      <4> QED BY <4>1, <4>2 DEF BubbleTypeOK
    <3>1. CASE ~allow /\ back
      <4>1. PICK a \in BOOLEAN : seen' = Site!Restored(g, a) /\ a = FALSE BY <3>1, <2>3
      <4>2. /\ seen' \in [Site!Part -> BOOLEAN]
            /\ seen'["launcher"] = TRUE /\ seen'["badge"] = a /\ seen'["tab"] = g["tab"] /\ seen'["teaser"] = g["teaser"]
            /\ seen'["frame"] = g["frame"] /\ seen'["full"] = g["full"] /\ seen'["drawn"] = g["drawn"]
        <5>1. g \in [Site!Part -> BOOLEAN] BY <2>1
        <5>2. seen' = Site!Restored(g, a) BY <4>1
        <5> HIDE DEF g
        <5> QED BY <5>1, <5>2, RestoredAre, ZenonT(60)
      <4>3. ~seen'["badge"] BY <4>1, <4>2
      <4> QED BY <4>2, <4>3, <3>s, <3>0, <2>1, <3>1
    <3>2. ASSUME ~(~allow /\ back) PROVE
             /\ seen' \in [Site!Part -> BOOLEAN] /\ seen'["badge"] = (allow /\ (seen["badge"] \/ ~minimized))
             /\ seen'["launcher"] = g["launcher"] /\ seen'["tab"] = g["tab"] /\ seen'["teaser"] = g["teaser"]
             /\ seen'["frame"] = g["frame"] /\ seen'["full"] = g["full"] /\ seen'["drawn"] = g["drawn"]
      <4>0. PICK b \in BOOLEAN : seen' = Site!With(g, [badge |-> b]) /\ b = (allow /\ (seen["badge"] \/ ~minimized))
        <5>1. CASE allow BY <5>1, <2>2, <2>3, <3>0, <3>2 DEF badge
        <5>2. CASE ~allow BY <5>2, <2>3, <3>2
        <5> QED BY <5>1, <5>2
      <4>1. seen' \in [Site!Part -> BOOLEAN] /\ seen'["badge"] = b /\ \A p \in Site!Part \ {"badge"} : seen'[p] = g[p]
        BY <4>0, <2>1, OneStyle DEF Site!Part
      <4> QED BY <4>0, <4>1 DEF Site!Part
    <3> QED BY <3>1, <3>2, <3>s, <3>0, <2>1, <3>f DEF Site!Part
  <2>5. Promised' BY <2>3, <2>4, <1>t DEF BubbleTypeOK, Promised, Beside, Site!Part
  <2> QED BY <2>4, <2>5 DEF BubbleInv
<1>8. ASSUME NEW t \in Site!Timer, Site!Expire(t) PROVE BubbleInv'
  <2>1. /\ t \in due /\ due' = due \ {t} /\ opened' = (opened \/ (t = "autoOpen" /\ ~minimized))
        /\ UNCHANGED <<minimized, mobile, minimizeAllowed, loaded, covered>>
    BY <1>8 DEF Site!Expire
  <2>s. seen' \in [Site!Part -> BOOLEAN] => BubbleTypeOK'
    BY <2>1, <1>t DEF BubbleTypeOK
  <2>2. ASSUME seen' = seen, t # "autoOpen" \/ opened \/ minimized, t = "hideTab" => minimized, t = "hideFrame" => opened, t # "drawLauncher" PROVE BubbleInv'
    BY <2>1, <2>2, <1>t DEF BubbleInv, BubbleTypeOK, Promised, Beside
  <2>3. CASE t = "drawLauncher"
    <3>1. PICK c \in BOOLEAN : seen' = Site!With(seen, [drawn |-> c]) /\ c = TRUE BY <1>8, <2>3 DEF Site!Expire
    <3>2. seen' \in [Site!Part -> BOOLEAN] /\ seen'["drawn"] = c /\ \A p \in Site!Part \ {"drawn"} : seen'[p] = seen[p]
      <4>1. seen' = Site!With(seen, [drawn |-> c]) /\ c \in BOOLEAN BY <3>1
      <4> QED BY <4>1, <1>s, OneStyle DEF Site!Part
    <3>3. Promised' BY <3>1, <3>2, <2>1, <2>3, <1>t DEF BubbleTypeOK, Promised, Beside, Site!Part
    <3> QED BY <2>s, <3>2, <3>3 DEF BubbleInv
  <2>4. CASE t = "hideFrame" /\ ~opened
    <3>1. PICK c \in BOOLEAN : seen' = Site!With(seen, [frame |-> c]) /\ c = FALSE BY <1>8, <2>4 DEF Site!Expire, Site!HideFrame
    <3>2. seen' \in [Site!Part -> BOOLEAN] /\ seen'["frame"] = FALSE /\ \A p \in Site!Part \ {"frame"} : seen'[p] = seen[p]
      BY <3>1, <1>s, OneStyle DEF Site!Part
    <3>3. Promised' BY <3>2, <2>1, <2>4, <1>t DEF BubbleTypeOK, Promised, Beside, Site!Part
    <3> QED BY <2>s, <3>2, <3>3 DEF BubbleInv
  <2>5. CASE t = "hideTab" /\ ~minimized
    <3>1. PICK c \in BOOLEAN : seen' = Site!With(seen, [tab |-> c]) /\ c = FALSE BY <1>8, <2>5 DEF Site!Expire
    <3>2. seen' \in [Site!Part -> BOOLEAN] /\ seen'["tab"] = FALSE /\ \A p \in Site!Part \ {"tab"} : seen'[p] = seen[p]
      BY <3>1, <1>s, OneStyle DEF Site!Part
    <3>3. Promised' BY <3>2, <2>1, <2>5, <1>t DEF BubbleTypeOK, Promised, Beside, Site!Part
    <3> QED BY <2>s, <3>2, <3>3 DEF BubbleInv
  <2>6. CASE t = "autoOpen" /\ ~opened /\ ~minimized
    <3>1. seen' = Site!OpenStyles(seen) /\ mobile \in BOOLEAN BY <1>8, <2>6, <1>t DEF Site!Expire, BubbleTypeOK
    <3>2. /\ seen' \in [Site!Part -> BOOLEAN]
          /\ seen'["launcher"] = (seen["launcher"] /\ ~mobile) /\ seen'["badge"] = (seen["badge"] /\ ~mobile) /\ seen'["tab"] = seen["tab"]
          /\ seen'["teaser"] = FALSE /\ seen'["frame"] = TRUE /\ seen'["full"] = mobile /\ seen'["drawn"] = seen["drawn"]
      BY <3>1, <1>s, OpenAre
    <3>3. Promised' BY <3>2, <2>1, <2>6, <1>t DEF BubbleTypeOK, Promised, Beside
    <3> QED BY <2>s, <3>2, <3>3 DEF BubbleInv
  <2>7. CASE t = "greet" /\ ~opened /\ ~minimized
    <3>1. PICK c \in BOOLEAN : seen' = Site!With(seen, [teaser |-> c]) /\ c = TRUE BY <1>8, <2>7 DEF Site!Expire
    <3>2. seen' \in [Site!Part -> BOOLEAN] /\ seen'["teaser"] = c /\ \A p \in Site!Part \ {"teaser"} : seen'[p] = seen[p]
      <4>1. seen' = Site!With(seen, [teaser |-> c]) /\ c \in BOOLEAN BY <3>1
      <4> QED BY <4>1, <1>s, OneStyle DEF Site!Part
    <3>3. Promised' BY <3>1, <3>2, <2>1, <2>7, <1>t DEF BubbleTypeOK, Promised, Beside, Site!Part
    <3> QED BY <2>s, <3>2, <3>3 DEF BubbleInv
  <2>8. CASE (t = "hideFrame" /\ opened) \/ (t = "hideTab" /\ minimized) \/ (t \in {"autoOpen", "greet"} /\ (opened \/ minimized))
    <3>1. seen' = seen BY <1>8, <2>8 DEF Site!Expire, Site!HideFrame
    <3> QED BY <3>1, <2>8, <2>2
  <2> QED BY <2>3, <2>4, <2>5, <2>6, <2>7, <2>8 DEF Site!Timer
<1> QED BY <1>u, <1>1, <1>2, <1>3, <1>4, <1>5, <1>6, <1>7, <1>8 DEF Site!BubbleNext

LEMMA BubbleStarts == Site!BubbleInit => BubbleInv
<1> SUFFICES ASSUME Site!BubbleInit PROVE BubbleInv
  OBVIOUS
<1>1. seen["launcher"] = ~minimized /\ seen["tab"] = minimized /\ \A p \in Site!Part \ {"launcher", "tab"} : seen[p] = FALSE
  BY DEF Site!BubbleInit, Site!Part
<1>2. \A p \in Site!Part : seen[p] \in BOOLEAN
  BY <1>1 DEF Site!BubbleInit
<1>3. seen = [p \in Site!Part |-> seen[p]]
  BY DEF Site!BubbleInit
<1>4. BubbleTypeOK
  BY <1>2, <1>3 DEF Site!BubbleInit, BubbleTypeOK, Site!Timer
<1>5. Promised
  <2>1. /\ seen["badge"] = FALSE /\ seen["teaser"] = FALSE /\ seen["frame"] = FALSE /\ seen["full"] = FALSE
    BY <1>1 DEF Site!Part
  <2>2. opened = FALSE /\ covered = FALSE /\ loaded = 0 /\ (~minimized => due = {"drawLauncher"}) /\ minimized \in BOOLEAN
    BY DEF Site!BubbleInit
  <2>3. minimized => ~seen["launcher"] /\ seen["tab"]
    BY <1>1
  <2>4. ~minimized => seen["launcher"] /\ ~seen["tab"]
    BY <1>1
  <2>5. seen["full"] = (opened /\ mobile) /\ (seen["teaser"] => ~opened /\ ~minimized)
    BY <2>1, <2>2
  <2>6. seen["launcher"] = Beside /\ (loaded > 0 => seen["badge"] = (Beside /\ minimizeAllowed))
    BY <2>2, <2>3, <2>4, <1>2 DEF Beside, Site!Part
  <2>7. seen["full"] = (opened /\ mobile)
    BY <2>1, <2>2
  <2> QED BY <2>1, <2>2, <2>3, <2>4, <2>5, <2>6 DEF Promised
<1> QED BY <1>4, <1>5 DEF BubbleInv

LEMMA BubbleShows == BubbleInv => Site!BubbleSettles
BY DEF BubbleInv, BubbleTypeOK, Promised, Site!BubbleSettles, Beside, Site!Part

ScreensInv == (part = "lists" => ListsInv) /\ (part = "site" => BubbleInv)

(* However slowly, late or in whatever order answers, refusals, events and  *)
(* timers come: a page of the panel shows what is stored, by the filter     *)
(* chosen, and the bubble of a site what its state says, once nothing is    *)
(* on its way (crm/deals/page.tsx:101-102, instances/page.tsx:66-69,        *)
(* widget.js).                                                              *)
THEOREM EveryScreenSettles == BackOfficeSpec => []ScreensSettle
<1> USE BackOfficeAssumption
<1>1. BackOfficeInit => ScreensInv
  BY ListsStart, BubbleStarts DEF BackOfficeInit, BackOfficeAssumption, ScreensInv
<1>2. ScreensInv /\ [BackOfficeNext]_allVars => ScreensInv'
  <2> SUFFICES ASSUME ScreensInv, [BackOfficeNext]_allVars PROVE ScreensInv'
    OBVIOUS
  <2>1. part' = part
    BY DEF BackOfficeNext, allVars
  <2>2. ASSUME part = "lists" PROVE ListsInv'
    <3>1. ListsInv /\ [Lists!ListsNext]_listVars
      BY <2>2 DEF BackOfficeNext, allVars, ScreensInv, listVars
    <3> QED BY <3>1, ListsSettle DEF BackOfficeAssumption, listVars
  <2>3. ASSUME part = "site" PROVE BubbleInv'
    <3>1. BubbleInv /\ [Site!BubbleNext]_bubbleVars
      BY <2>3 DEF BackOfficeNext, allVars, ScreensInv, bubbleVars
    <3> QED BY <3>1, BubbleSettle DEF BackOfficeAssumption, bubbleVars
  <2> QED BY <2>1, <2>2, <2>3 DEF ScreensInv
<1>3. ScreensInv => ScreensSettle
  BY ListsShow, BubbleShows DEF ScreensInv, ScreensSettle
<1> QED BY <1>1, <1>2, <1>3, PTL DEF BackOfficeSpec
=============================================================================
