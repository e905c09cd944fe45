---------------------------- MODULE MergeContacts ----------------------------
(***************************************************************************)
(* The two scripts that join the contacts of ONE phone number: "ts"        *)
(* (merge-duplicate-contacts.ts, a transaction per duplicate) and "sql"    *)
(* (fusionar-contactos-duplicados.sql, one for all).  Each statement sees  *)
(* what others have committed by then, and the worker goes on storing      *)
(* messages in every thread the transaction has not written yet.  The      *)
(* threads of one contact are dealt with together.                         *)
(***************************************************************************)
EXTENDS Naturals, FiniteSets

CONSTANTS Oldest,   \* contacts are 1..Oldest, in the reverse order of their creation
          Line,     \* instances of WhatsApp
          Kind,     \* function: what each item is: a message, a lead or an execution of a flow
          None

Contact == 1..Oldest
Item == DOMAIN Kind
Thread == Line \X Contact     \* a conversation, by its line and first contact

\* BackOffice assumes it.
MergeAssumption ==
  Oldest \in Nat \ {0} /\ None \notin Thread /\ \A i \in Item : Kind[i] \in {"message", "lead", "execution"}

VARIABLES
  tool,
  people,    \* the contacts there are
  owner,     \* contactId of each conversation, or 0 where there is none
  unread,
  place,     \* the thread and contact of each item
  home,      \* history: the thread an item was stored in
  step, survivor,
  losers,    \* the contacts this transaction takes away
  waiting,   \* the ones left for later transactions
  clash,     \* their threads on a line where the survivor has one, and that one
  begun,     \* the state this transaction began with
  late       \* history: messages that came to a thread after it was emptied

mergeVars == <<tool, people, owner, unread, place, home, step, survivor, losers, waiting, clash, begun, late>>

Exists(i) == home[i] # None
In(t) == {i \in Item : place[i].thread = t}
Messages(t) == {i \in In(t) : Kind[i] = "message"}
Of(c) == {t \in Thread : owner[t] = c}
Lost == [thread |-> None, contact |-> 0]
At(s) == step = s

Snapshot == [people |-> people, owner |-> owner, unread |-> unread, place |-> place]

\* Threads of some contacts, each with what hangs from it; messages not read yet, the
\* ones that have no place to come while a script runs.
MergeInit ==
  /\ tool \in {"ts", "sql"} /\ people = Contact
  /\ \E threads \in SUBSET Thread :
       /\ owner = [t \in Thread |-> IF t \in threads THEN t[2] ELSE 0]
       /\ home \in [Item -> threads \cup {None}]
       /\ \A i \in Item : Kind[i] # "message" => Exists(i)
  /\ place = [i \in Item |-> IF Exists(i) THEN [thread |-> home[i], contact |-> home[i][2]] ELSE Lost]
  /\ unread = [t \in Thread |-> Cardinality(Messages(t))]
  /\ step = "idle" /\ survivor = 0 /\ losers = {} /\ waiting = {} /\ clash = {} /\ begun = Snapshot /\ late = {}

-----------------------------------------------------------------------------
\* The one with most messages, or the oldest; for SQL the oldest.
Survivor ==
  LET messages(c) == Cardinality({i \in Item : Kind[i] = "message" /\ place[i].contact = c})
      better(c, d) == tool = "ts" /\ messages(c) # messages(d)
  IN  CHOOSE c \in people : \A d \in people \ {c} : IF better(c, d) THEN messages(c) > messages(d) ELSE c > d

\* main, pares: who goes into whom, read once.
PlanPairs ==
  /\ At("idle") /\ survivor' = Survivor /\ waiting' = people \ {Survivor} /\ step' = "begin"
  /\ UNCHANGED <<tool, people, owner, unread, place, home, losers, clash, begun, late>>

Begin ==
  /\ At("begin") /\ begun' = Snapshot
  /\ IF waiting = {} THEN step' = "done" /\ UNCHANGED <<losers, waiting, clash>>
     ELSE /\ losers' \in IF tool = "sql" THEN {waiting} ELSE {{c} : c \in waiting}
          /\ waiting' = waiting \ losers'
          /\ clash' = {p \in Thread \X Thread : p[1][1] = p[2][1] /\ owner[p[1]] \in losers' /\ owner[p[2]] = survivor}
          /\ step' = "move"
  /\ UNCHANGED <<tool, people, owner, unread, place, home, survivor, late>>

Clashing == {p[1] : p \in clash}
Into(t) == (CHOOSE p \in clash : p[1] = t)[2]

\* What the script moves from a thread that goes; the rest goes with it (onDelete: Cascade).
FoldedByTs == {"message", "lead"}
Folded == IF tool = "ts" THEN FoldedByTs ELSE {"message", "lead", "execution"}
Move ==
  /\ At("move") /\ step' = "sum"
  /\ place' = [i \in Item |->
       IF place[i].thread \in Clashing /\ Kind[i] \in Folded
       THEN [thread |-> Into(place[i].thread), contact |-> IF tool = "ts" THEN survivor ELSE place[i].contact]
       ELSE place[i]]
  /\ UNCHANGED <<tool, people, owner, unread, home, survivor, losers, waiting, clash, begun, late>>

\* The sum of the counters of what is joined; in TypeScript only the date is brought forward.
Sum ==
  /\ At("sum") /\ step' = "drop"
  /\ unread' = IF tool = "ts" THEN unread
               ELSE [t \in Thread |->
                      unread[t] + Cardinality(UNION {{<<u, n>> : n \in 1..unread[u]} : u \in {v \in Clashing : Into(v) = t}})]
  /\ UNCHANGED <<tool, people, owner, place, home, survivor, losers, waiting, clash, begun, late>>

\* Whatever hangs from a deleted thread or contact goes too; a lead stays, pointing nowhere.
Cascade(threads, contacts) ==
  /\ owner' = [t \in Thread |-> IF t \in threads \/ owner[t] \in contacts THEN 0 ELSE owner[t]]
  /\ unread' = [t \in Thread |-> IF t \in threads \/ owner[t] \in contacts THEN 0 ELSE unread[t]]
  /\ place' = [i \in Item |->
       IF \/ place[i].thread \in threads \/ place[i].contact \in contacts
          \/ \E t \in Thread : place[i].thread = t /\ owner[t] \in contacts
       THEN Lost ELSE place[i]]

Drop ==
  /\ At("drop") /\ step' = "repoint" /\ Cascade(Clashing, {})
  /\ UNCHANGED <<tool, people, home, survivor, losers, waiting, clash, begun, late>>

\* Rolled back: what was stored meanwhile stays where it was stored.
Abort ==
  /\ step' = "aborted" /\ people' = begun.people /\ owner' = begun.owner
  /\ place' = [i \in Item |->
       IF Exists(i) /\ begun.place[i] = Lost THEN [thread |-> home[i], contact |-> begun.owner[home[i]]] ELSE begun.place[i]]
  /\ unread' = [t \in Thread |->
       begun.unread[t] + Cardinality({i \in Item : Exists(i) /\ begun.place[i] = Lost /\ home[i] = t})]
  /\ UNCHANGED <<tool, home, survivor, losers, waiting, clash, begun, late>>

\* The threads that are left change their contact; two of them on one line break the
\* unique index, and ON_ERROR_STOP ends the script.
Repoint ==
  /\ At("repoint")
  /\ IF \E t, u \in Thread : t # u /\ t[1] = u[1] /\ {owner[t], owner[u]} \subseteq losers \cup {survivor} THEN Abort
     ELSE /\ owner' = [t \in Thread |-> IF owner[t] \in losers THEN survivor ELSE owner[t]]
          /\ step' = "rest"
          /\ UNCHANGED <<tool, people, unread, place, home, survivor, losers, waiting, clash, begun, late>>

\* Whatever points at the contact itself.
Rest ==
  /\ At("rest") /\ step' = "delete"
  /\ place' = [i \in Item |-> IF place[i].contact \in losers THEN [place[i] EXCEPT !.contact = survivor] ELSE place[i]]
  /\ UNCHANGED <<tool, people, owner, unread, home, survivor, losers, waiting, clash, begun, late>>

\* The contact, and the commit.
DeleteContacts ==
  /\ At("delete") /\ step' = "begin" /\ people' = people \ losers /\ Cascade({}, losers)
  /\ UNCHANGED <<tool, home, survivor, losers, waiting, clash, begun, late>>

Fails == step \in {"move", "sum", "drop", "rest", "delete"} /\ Abort

-----------------------------------------------------------------------------
\* A thread the transaction has written, which it keeps locked.
Locked(t) ==
  \/ step \in {"drop", "repoint", "rest", "delete"} /\ tool = "sql" /\ \E p \in clash : t = p[2]
  \/ step \in {"rest", "delete"} /\ owner[t] # begun.owner[t]

\* persistIncoming, in a thread of a contact that is still there for others.  A message
\* in a thread whose own messages have been moved is lost with it.
Arrive ==
  \E i \in Item, t \in Thread :
    /\ Kind[i] = "message" /\ ~Exists(i) /\ owner[t] # 0 /\ ~Locked(t) /\ step \notin {"idle", "done", "aborted"}
    /\ home' = [home EXCEPT ![i] = t]
    /\ place' = [place EXCEPT ![i] = [thread |-> t, contact |-> owner[t]]]
    /\ unread' = [unread EXCEPT ![t] = @ + 1]
    /\ late' = IF step \in {"sum", "drop"} /\ t \in Clashing THEN late \cup {i} ELSE late
    /\ UNCHANGED <<tool, people, owner, step, survivor, losers, waiting, clash, begun>>

MergeNext ==
  PlanPairs \/ Begin \/ Move \/ Sum \/ Drop \/ Repoint \/ Rest \/ DeleteContacts \/ Fails \/ Arrive

MergeSpec == MergeInit /\ [][MergeNext]_mergeVars

-----------------------------------------------------------------------------
\* Whether a script ends or fails, nothing is lost ("NO borra nada sin antes mover",
\* fusionar-contactos-duplicados.sql line 8): every item is in a thread of its own line and
\* of a contact that exists, no contact has two threads on a line, and the badge counts the
\* messages nobody read.  A script that ends leaves one contact.  Not promised for messages
\* stored between the statement that empties their thread and the one that deletes it,
\* nor, in TypeScript, for executions of flows and the badge.
MergeKeepsAll ==
  At("done") \/ At("aborted") =>
    /\ \A i \in Item \ late :
         Exists(i) /\ ~(tool = "ts" /\ Kind[i] = "execution") =>
           /\ place[i] # Lost /\ place[i].thread[1] = home[i][1]
           /\ place[i].contact = owner[place[i].thread] /\ place[i].contact \in people
    /\ \A t, u \in Thread : owner[t] # 0 /\ owner[t] = owner[u] /\ t[1] = u[1] => t = u
    /\ tool = "sql" => \A t \in Thread : owner[t] # 0 /\ late = {} => unread[t] = Cardinality(Messages(t))
    /\ At("done") => people = {survivor}
=============================================================================
