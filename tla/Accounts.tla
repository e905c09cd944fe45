------------------------------ MODULE Accounts ------------------------------
(***************************************************************************)
(* auth.service.ts: a company is registered with its owner, by a password  *)
(* or by a ticket of Google; an account logs in, by either.  Between a     *)
(* look at the table and the write other requests run, and the unique keys *)
(* (email, googleId, slug) decide.  Plans belong here for the one that new *)
(* companies start on, which admin.service.ts marks in two statements.     *)
(***************************************************************************)
EXTENDS Naturals, FiniteSets, Functions

CONSTANTS
  Client,          \* requests in flight
  Email, Google,   \* addresses, and identities at Google
  Offer,           \* plans
  MaxUser,         \* bound: accounts
  MaxAttempt,      \* bound: slugs tried (50 in the code, then a random one)
  MaxRename,       \* bound: addresses changed at Google
  MaxTasks,        \* bound: requests that come
  Null

\* One company name: what differs is the number that makes its slug unique.
Ids == 1..MaxUser
Slug == 1..(MaxAttempt + 1)
AccountRow == [email : Email, google : Google \cup {Null}, password : BOOLEAN,
               active : BOOLEAN, slug : Slug, plan : Offer \cup {Null}]

AccountsAssumption ==
  /\ IsFiniteSet(Client) /\ MaxUser \in Nat /\ MaxAttempt \in Nat \ {0} /\ MaxRename \in Nat /\ MaxTasks \in Nat
  /\ Null \notin Email \cup Google \cup Offer \cup Client \cup AccountRow

VARIABLES
  user,       \* the accounts; each owner has the one company, known by its slug
  address,    \* of each identity at Google
  visit,       \* what each request does
  offered,    \* the plans marked as default
  sessions,   \* history: which account a sign-in with Google opened, and with which identity
  guests,     \* history: <<identity, account>>, when the account was or became another identity's
  marked,     \* history: requests that marked a plan while another was doing so
  renames, came

accountVars == <<user, address, visit, offered, sessions, guests, marked, renames, came>>

Present == {u \in Ids : user[u] # Null}
Idle == [at |-> "idle"]

\* A form, or the fields of a signup ticket; and the steps of a request.
Forms == [email : Email, google : Google \cup {Null}, password : BOOLEAN]
Errand ==
  {Idle} \cup [at : {"naming", "named"}, form : Forms, slug : Slug] \cup [at : {"signup"}, form : Forms]
    \cup [at : {"refused"}, why : {"email", "slug"}, form : Forms, slug : Slug \cup {0}]
    \cup [at : {"ticket", "link", "open"}, google : Google, user : Ids] \cup [at : {"mark"}, plan : Offer]

AccountsTypeOK ==
  /\ user \in [Ids -> AccountRow \cup {Null}] /\ address \in [Google -> Email] /\ visit \in [Client -> Errand]
  /\ sessions \cup guests \subseteq Google \X Ids
  /\ offered \subseteq Offer /\ marked \subseteq Client /\ renames \in 0..MaxRename /\ came \in 0..MaxTasks

AccountsInit ==
  /\ user = [u \in Ids |-> Null]
  /\ address \in Injection(Google, Email)
  /\ visit = [c \in Client |-> Idle]
  /\ \E p \in Offer : offered = {p}
  /\ sessions = {} /\ guests = {} /\ marked = {} /\ renames = 0 /\ came = 0

Ends(c, answer) == visit' = [visit EXCEPT ![c] = answer]
Goes(c, record) == visit' = [visit EXCEPT ![c] = record]
TurnedAway(c, why, f, s) == Ends(c, [at |-> "refused", why |-> why, form |-> f, slug |-> s])
Keeps == UNCHANGED <<address, offered, marked, renames>>
NewTask(c) == visit[c] = Idle /\ came < MaxTasks /\ came' = came + 1

-----------------------------------------------------------------------------
(* createCompanyWithOwner. *)

\* The fields of a form, or of a signup ticket.
Form(e, g) == [email |-> e, google |-> g, password |-> (g = Null)]

FindUser(c, f) ==
  IF \E u \in Present : user[u].email = f.email
  THEN TurnedAway(c, "email", f, 0)
  ELSE Goes(c, [at |-> "naming", form |-> f, slug |-> 1])

RegisterCompany(c, e) ==
  /\ NewTask(c) /\ FindUser(c, Form(e, Null))
  /\ UNCHANGED <<user, sessions, guests>> /\ Keeps

\* generateUniqueSlug: one look at the table per candidate.
TrySlug(c) ==
  /\ visit[c].at = "naming" /\ visit[c].slug <= MaxAttempt
  /\ IF \E u \in Present : user[u].slug = visit[c].slug
     THEN Goes(c, [visit[c] EXCEPT !.slug = @ + 1])
     ELSE Goes(c, [visit[c] EXCEPT !.at = "named"])
  /\ UNCHANGED <<user, sessions, guests>> /\ Keeps /\ UNCHANGED came

\* The unique keys of the table; or that of the identity alone.
ClashOfGoogle(f) == f.google # Null /\ \E u \in Present : user[u].google = f.google
Clash(f) == \E u \in Present : user[u].email = f.email \/ (f.google # Null /\ user[u].google = f.google)

\* The transaction: company, owner and key, or the unique key that refused it.
Create(c) ==
  /\ visit[c].at = "named"
  /\ LET f == visit[c].form  s == visit[c].slug IN
     IF \E u \in Present : user[u].slug = s THEN TurnedAway(c, "slug", f, s) /\ UNCHANGED <<user, sessions>>
     ELSE IF Clash(f) THEN TurnedAway(c, "email", f, s) /\ UNCHANGED <<user, sessions>>
     ELSE \E u \in Ids \ Present, p \in (IF offered = {} THEN {Null} ELSE offered) :
            /\ \A v \in Ids \ Present : u <= v
            /\ user' = [user EXCEPT ![u] = [email |-> f.email, google |-> f.google, password |-> f.password,
                                            active |-> TRUE, slug |-> s, plan |-> p]]
            /\ sessions' = IF f.google = Null THEN sessions ELSE sessions \cup {<<f.google, u>>}
            /\ Ends(c, Idle)
  /\ Keeps /\ UNCHANGED <<guests, came>>

-----------------------------------------------------------------------------
(* Google. *)

Matches(g) == {u \in Present : user[u].google = g \/ user[u].email = address[g]}

\* handleGoogleCallback: findFirst has no order, so any match may be taken.
Callback(c, g) ==
  /\ NewTask(c)
  /\ \/ /\ Matches(g) = {}
        /\ Goes(c, [at |-> "signup", form |-> Form(address[g], g)])
     \/ \E u \in Matches(g) : Goes(c, [at |-> "ticket", google |-> g, user |-> u])
  /\ UNCHANGED <<user, sessions, guests>> /\ Keeps

\* exchangeGoogleTicket with a company name.
SignUp(c) ==
  /\ visit[c].at = "signup" /\ FindUser(c, visit[c].form)
  /\ UNCHANGED <<user, sessions, guests>> /\ Keeps /\ UNCHANGED came

\* The identity that an account has, when it is not this one.
AnotherThan(u, g) == {user[u].google} \ {g, Null}

\* exchangeGoogleTicket of an account: the row is read...
Exchange(c) ==
  /\ visit[c].at = "ticket"
  /\ LET g == visit[c].google  u == visit[c].user IN
     IF user[u].active
     THEN /\ Goes(c, [visit[c] EXCEPT !.at = IF user[u].google = Null THEN "link" ELSE "open"])
          /\ guests' = guests \cup {<<g, u>> : h \in AnotherThan(u, g)}
     ELSE Ends(c, Idle) /\ UNCHANGED guests
  /\ UNCHANGED <<user, sessions>> /\ Keeps /\ UNCHANGED came

\* ...and linked with an update, which the unique googleId may refuse.  The account may have
\* been linked since it was read, and that identity is written over.
Link(c) ==
  /\ visit[c].at = "link"
  /\ LET g == visit[c].google  u == visit[c].user IN
     IF \E v \in Present \ {u} : user[v].google = g
     THEN Ends(c, Idle) /\ UNCHANGED <<user, guests>>
     ELSE /\ Goes(c, [visit[c] EXCEPT !.at = "open"]) /\ user' = [user EXCEPT ![u].google = g]
          /\ guests' = guests \cup {<<h, u>> : h \in AnotherThan(u, g)}
  /\ UNCHANGED sessions /\ Keeps /\ UNCHANGED came

OpenAccount(c) ==
  /\ visit[c].at = "open"
  /\ sessions' = sessions \cup {<<visit[c].google, visit[c].user>>}
  /\ Ends(c, Idle) /\ UNCHANGED <<user, guests>> /\ Keeps /\ UNCHANGED came

\* External: an address is changed at Google, to one no other identity has.
Rename(g, e) ==
  /\ renames < MaxRename /\ renames' = renames + 1
  /\ \A h \in Google : address[h] # e
  /\ address' = [address EXCEPT ![g] = e]
  /\ UNCHANGED <<user, visit, offered, sessions, guests, marked, came>>

-----------------------------------------------------------------------------
(* The default plan: createPlan, updatePlan. *)

UnmarkDefault(c, p) ==
  /\ NewTask(c)
  /\ offered' = offered \cap {p}
  /\ marked' = IF \E d \in Client : visit[d].at = "mark" THEN marked \cup {c} ELSE marked
  /\ Goes(c, [at |-> "mark", plan |-> p])
  /\ UNCHANGED <<user, address, sessions, guests, renames>>

MarkDefault(c) ==
  /\ visit[c].at = "mark"
  /\ offered' = offered \cup {visit[c].plan}
  /\ Ends(c, Idle)
  /\ UNCHANGED <<user, address, sessions, guests, marked, renames, came>>

Deactivate(u) ==
  /\ user[u] # Null /\ user[u].active
  /\ user' = [user EXCEPT ![u].active = FALSE]
  /\ UNCHANGED <<visit, sessions, guests, came>> /\ Keeps

AccountsNext ==
  \/ \E c \in Client : TrySlug(c) \/ Create(c) \/ SignUp(c) \/ Exchange(c) \/ Link(c) \/ OpenAccount(c) \/ MarkDefault(c)
  \/ \E c \in Client, e \in Email : RegisterCompany(c, e)
  \/ \E c \in Client, g \in Google : Callback(c, g)
  \/ \E c \in Client, p \in Offer : UnmarkDefault(c, p)
  \/ \E g \in Google, e \in Email : Rename(g, e)
  \/ \E u \in Ids : Deactivate(u)

AccountsSpec == AccountsInit /\ [][AccountsNext]_accountVars

-----------------------------------------------------------------------------
(* Who is told that an address or a name is taken is told the truth       *)
(* (auth.service.ts:219-226): somebody has it, however the requests met,   *)
(* or had that identity until another was written over it.                 *)
RefusalsAreTrue ==
  \A c \in Client : visit[c].at = "refused" =>
    LET f == visit[c].form IN
    IF visit[c].why = "email" THEN Clash(f) \/ \E u \in Present : <<f.google, u>> \in guests
    ELSE \E u \in Present : user[u].slug = visit[c].slug

(* An identity of Google opens the same account every time, also after its *)
(* address changed: linking at the first sign-in is for that               *)
(* (auth.service.ts:274).  Excepted are accounts of another identity: one  *)
(* that is found by the address is opened, but not linked, and one that    *)
(* two identities link at once is left to the second.                      *)
OneAccountPerGoogle ==
  \A s, t \in sessions \ guests : s[1] = t[1] => s[2] = t[2]

(* No two companies share a slug and no two accounts an address or an      *)
(* identity, though each is only looked up before it is written.           *)
NoneShared ==
  \A u, v \in Present : u # v =>
    /\ user[u].email # user[v].email /\ user[u].slug # user[v].slug
    /\ user[u].google = Null \/ user[u].google # user[v].google

(* New companies start on one plan (admin.service.ts:139-140): one is      *)
(* marked, none while one is being marked; two only if two requests marked *)
(* at once.                                                                *)
OneDefault == Cardinality(offered) <= 1 + Cardinality(marked)

AccountsAreWhole ==
  AccountsTypeOK /\ RefusalsAreTrue /\ OneAccountPerGoogle /\ NoneShared /\ OneDefault
=============================================================================
