------------------------------- MODULE Inbox -------------------------------
(***************************************************************************)
(* The inbox of one agent: the open thread, the unread badges of the list, *)
(* the single socket that feeds both, and the requests that load them.     *)
(* Answers and events come when they come: nothing orders a GET against    *)
(* the socket, nor the events of two handlers against each other.          *)
(***************************************************************************)
EXTENDS Naturals, FiniteSets

CONSTANTS
  Chat,       \* conversations of the line shown
  MaxMsg,     \* bound: messages that arrive
  MaxAsks,    \* bound: loads of a thread
  MaxLists,   \* bound: loads of the list
  MaxFaults,  \* bound: drops of the socket and failed loads
  None

Msg == 1..MaxMsg

VARIABLES
  row,      \* [Msg -> the chat of the stored message, or None]
  unread,   \* [Chat -> unreadCount in the database]
  wire,     \* message.created on its way to this socket
  asks,     \* GET /conversations/:id/messages under way
  lists,    \* GET /conversations under way: the counts they read
  reads,    \* POST /conversations/:id/read under way
  linked,   \* the socket is connected
  sel,      \* selectedId
  thread,   \* messages: what the open chat shows
  badge,    \* [Chat -> unreadCount in the list]
  used,     \* how many asks, lists and faults so far
  seen,     \* history: messages shown in their own open chat
  lost,     \* history: messages the open thread misses, and why it may
  zeroed,   \* history: messages counted as read by a reset that raced with them
  foreign   \* history: a late or failed answer left another chat's thread

inboxVars == <<row, unread, wire, asks, lists, reads, linked, sel, thread, badge, used, seen, lost, zeroed, foreign>>
server == <<row, unread>>
why == <<seen, lost, zeroed, foreign>>

Of(c) == {m \in Msg : row[m] = c}
Use(what) == used' = [used EXCEPT ![what] = @ + 1]

InboxInit ==
  /\ row = [m \in Msg |-> None] /\ unread = [c \in Chat |-> 0]
  /\ wire = {} /\ asks = {} /\ lists = {} /\ reads = {} /\ linked = TRUE
  /\ sel = None /\ thread = {} /\ badge = [c \in Chat |-> 0]
  /\ used = [asks |-> 0, lists |-> 0, faults |-> 0]
  /\ seen = {} /\ lost = {} /\ zeroed = {} /\ foreign = FALSE

\* A message of a contact is stored and counted in one transaction, then published.
Arrives(c) ==
  /\ \E m \in Msg :
       /\ row[m] = None /\ \A n \in Msg : n < m => row[n] # None
       /\ row' = [row EXCEPT ![m] = c]
       /\ wire' = IF linked THEN wire \cup {m} ELSE wire
       /\ lost' = IF ~linked /\ c = sel THEN lost \cup {m} ELSE lost
  /\ unread' = [unread EXCEPT ![c] = @ + 1]
  /\ UNCHANGED <<asks, lists, reads, linked, sel, thread, badge, used, seen, zeroed, foreign>>

\* Another chat is opened; the thread of the last one stays on screen until the answer.
Select(c) ==
  /\ c # sel /\ used.asks < MaxAsks
  /\ sel' = c /\ Use("asks")
  /\ asks' = asks \cup {[id |-> used.asks, chat |-> c, at |-> "sent", list |-> {}]}
  /\ UNCHANGED <<server, wire, lists, reads, linked, thread, badge, why>>

\* A message is still queued in the list just loaded: it is asked for again.
LoadAgain ==
  /\ sel # None /\ used.asks < MaxAsks
  /\ Use("asks")
  /\ asks' = asks \cup {[id |-> used.asks, chat |-> sel, at |-> "sent", list |-> {}]}
  /\ UNCHANGED <<server, wire, lists, reads, linked, sel, thread, badge, why>>

\* messages(): the list is read, and then the counter reset whatever came between.
ReadMessages(a) ==
  /\ a.at = "sent"
  /\ asks' = (asks \ {a}) \cup {[a EXCEPT !.at = "read", !.list = Of(a.chat)]}
  /\ UNCHANGED <<server, wire, lists, reads, linked, sel, thread, badge, used, why>>

ResetUnread(a) ==
  /\ a.at = "read"
  /\ unread' = [unread EXCEPT ![a.chat] = 0]
  /\ zeroed' = zeroed \cup (Of(a.chat) \ (a.list \cup seen))
  /\ asks' = (asks \ {a}) \cup {[a EXCEPT !.at = "answered"]}
  /\ UNCHANGED <<row, wire, lists, reads, linked, sel, thread, badge, used, seen, lost, foreign>>

\* loadMessages: the list becomes the thread, whichever chat is open by now.
ShowMessages(a) ==
  /\ a.at = "answered"
  /\ asks' = asks \ {a}
  /\ thread' = a.list
  /\ badge' = [badge EXCEPT ![a.chat] = 0]
  /\ LET own == a.chat = sel
         shown == IF own THEN a.list ELSE {}
     IN /\ seen' = seen \cup shown
        /\ lost' = (lost \cup (thread \cap Of(sel))) \ shown
        /\ zeroed' = zeroed \cup (Of(a.chat) \ (seen \cup shown))
        /\ foreign' = ~own
  /\ UNCHANGED <<server, wire, lists, reads, linked, sel, used>>

\* The request fails on the way back: an error is shown, and the thread stays.
LoadFails(a) ==
  /\ used.faults < MaxFaults /\ Use("faults")
  /\ asks' = asks \ {a}
  /\ lost' = lost \cup (Of(a.chat) \ seen) \cup (IF a.chat = sel THEN Of(sel) \ thread ELSE {})
  /\ zeroed' = IF a.at = "answered" THEN zeroed \cup (Of(a.chat) \ seen) ELSE zeroed
  /\ foreign' = (foreign \/ a.chat = sel)
  /\ UNCHANGED <<server, wire, lists, reads, linked, sel, thread, badge, seen>>

\* message.created: the badge of a chat not open grows, the open thread takes the
\* message unless it has it, and the server is told that it was read.
Take(m, open) ==
  /\ m \in wire /\ wire' = wire \ {m}
  /\ badge' = [badge EXCEPT ![row[m]] = IF open THEN 0 ELSE @ + 1]
  /\ thread' = IF open THEN thread \cup {m} ELSE thread
  /\ reads' = IF open THEN reads \cup {[chat |-> row[m], done |-> Of(row[m]) \ wire']} ELSE reads
  /\ seen' = IF open THEN seen \cup {m} ELSE seen
  /\ lost' = IF open THEN lost \ {m} ELSE lost
  /\ UNCHANGED <<server, asks, lists, linked, sel, used, zeroed, foreign>>
TakeCreatedAnyway(m) == Take(m, TRUE)
TakeCreated(m) == Take(m, row[m] = sel)

\* markRead: the counter goes to zero, with messages whose event is still coming.
MarkRead(r) ==
  /\ reads' = reads \ {r}
  /\ unread' = [unread EXCEPT ![r.chat] = 0]
  /\ LET loading == \E a \in asks : a.chat = r.chat
     IN zeroed' = zeroed \cup (Of(r.chat) \ (seen \cup IF loading THEN {} ELSE r.done))
  /\ UNCHANGED <<row, wire, asks, lists, linked, sel, thread, badge, used, seen, lost, foreign>>

\* The connection drops: what was on its way never arrives, and is not replayed.
SocketDrops ==
  /\ linked /\ used.faults < MaxFaults /\ Use("faults")
  /\ linked' = FALSE /\ wire' = {}
  /\ lost' = IF sel = None THEN lost ELSE lost \cup (wire \cap Of(sel))
  /\ UNCHANGED <<server, asks, lists, reads, sel, thread, badge, seen, zeroed, foreign>>

\* Every (re)connection loads the list again; the open thread is not loaded.
SocketConnects ==
  /\ ~linked /\ linked' = TRUE
  /\ used.lists < MaxLists /\ Use("lists")
  /\ lists' = lists \cup {None}
  /\ UNCHANGED <<server, wire, asks, reads, sel, thread, badge, why>>

\* list(): the counts as they are, answered when the network pleases.
ReadList ==
  /\ None \in lists
  /\ lists' = (lists \ {None}) \cup {unread}
  /\ UNCHANGED <<server, wire, asks, reads, linked, sel, thread, badge, used, why>>

ShowList ==
  /\ \E l \in lists \ {None} :
       /\ badge' = l /\ lists' = lists \ {l}
       /\ zeroed' = zeroed \cup UNION {Of(c) : c \in {d \in Chat : l[d] < unread[d]}}
  /\ UNCHANGED <<server, wire, asks, reads, linked, sel, thread, used, seen, lost, foreign>>

InboxNext ==
  \/ \E c \in Chat : Arrives(c) \/ Select(c)
  \/ \E a \in asks : ReadMessages(a) \/ ResetUnread(a) \/ ShowMessages(a) \/ LoadFails(a)
  \/ \E m \in wire : TakeCreated(m)
  \/ \E r \in reads : MarkRead(r)
  \/ LoadAgain \/ SocketDrops \/ SocketConnects \/ ReadList \/ ShowList

-----------------------------------------------------------------------------
Settled == asks = {} /\ wire = {} /\ lists = {} /\ reads = {} /\ linked

\* When everything has come in, the open thread is that of the open chat and has all
\* its messages, but for those an older answer overwrote, a failed load never brought,
\* or a dropped socket swallowed: the events carry the rest, without a reload.
ThreadIsComplete ==
  Settled /\ sel # None =>
    /\ Of(sel) \subseteq thread \cup lost
    /\ foreign \/ thread \subseteq Of(sel)

\* A message no agent saw is counted as unread, in the database and, once the list
\* knows, in its badge, unless a reset raced with its arrival (messages, markRead).
Unseen(c) == Of(c) \ (seen \cup lost \cup zeroed \cup UNION {a.list : a \in {b \in asks : b.at = "answered"}})
UnseenIsUnread ==
  \A c \in Chat :
    /\ Cardinality(Unseen(c)) <= unread[c]
    /\ Settled => Cardinality(Unseen(c)) <= badge[c]

\* What an agent may see is there to be seen: in the open thread, or counted.
InboxIsTrue == ThreadIsComplete /\ UnseenIsUnread
=============================================================================
