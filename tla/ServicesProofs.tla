---------------------------- MODULE ServicesProofs ---------------------------
(***************************************************************************)
(* What the services promise of what comes from outside, for any number of *)
(* handlers, messages, rows, jobs and faults: of the messages of WhatsApp, *)
(* that a person is one contact with one lead, the badge counts, and       *)
(* nothing is lost; of the files of the chats, that rows find them; and of *)
(* the pictures of the contacts, that they are those people have.          *)
(***************************************************************************)
EXTENDS Services, FiniteSetTheorems, SequenceTheorems, WellFoundedInduction, TLAPS

-----------------------------------------------------------------------------
(* The messages. *)

Task == [pc : Pc, m : Msg \cup {None}, c : Jid \cup {None}, new : BOOLEAN, text : Text,
         seen : Stored \cup {None}]

Shape ==
  /\ task \in [Handler -> Task]
  /\ contacts \in Seq([waId : Jid, phone : BOOLEAN])
  /\ form \in [Msg -> (SUBSET Jid) \ {{}}]
  /\ unread \in [Jid -> Nat \cup {None}] /\ leads \in [Jid -> Nat]
  /\ fresh \in [Jid -> SUBSET Msg] /\ row \in [Msg -> Stored \cup {None}]
  /\ edits \in 0..MaxEdits

\* Who the sender is has been decided, or not yet counted.
Known    == {"contact", "conversation", "write", "lead", "store"}
Counting == {"identity", "contact", "conversation", "write"}
Counted  == {"lead", "store"}
Editing  == {"unseal", "edit", "rewrite"}

\* A handler knows its message, and its contact once it has decided on it.
Placed ==
  \A h \in Handler :
    /\ ~At(h, "idle") => task[h].m \in Msg
    /\ task[h].pc \in Known => task[h].c \in Jid

\* While nobody was looked up blindly, every lookup came to the number.
ByNumber ==
  ~blind => /\ \A i \in DOMAIN contacts : contacts[i].waId = "phone"
            /\ Len(contacts) <= 1
            /\ \A h \in Handler : task[h].pc \in Known => task[h].c = "phone"

\* One creator at a time for a conversation: from its row to its lead.
Creating ==
  /\ \A h, k \in Handler : At(h, "lead") /\ At(k, "lead") /\ task[h].c = task[k].c => h = k
  /\ \A h \in Handler : /\ At(h, "lead") => unread[task[h].c] # None /\ leads[task[h].c] = 0
                        /\ At(h, "write") /\ ~task[h].new => unread[task[h].c] # None
  /\ \A c \in Jid : unread[c] = None => leads[c] = 0

\* What a text and its original look like.
Kept(r) == IF r.body = 0 THEN r.original = None ELSE r.original = 0

\* An edit has a text of its own, and what it read was a row.
EditsAreSound ==
  \A h \in Handler :
    /\ task[h].pc \in Editing => task[h].text # 0
    /\ At(h, "rewrite") => /\ task[h].seen # None /\ Kept(task[h].seen)
                           /\ row[task[h].m] # None

\* A message whose handling went undisturbed is handled once, and was not counted
\* before; one that was counted is stored, or about to be.
CountedOnce ==
  /\ \A c \in Jid : IsFiniteSet(fresh[c]) /\ (unread[c] = None => fresh[c] = {})
  /\ \A m \in Msg \ (failed \cup doubled) :
       /\ \A h, k \in Storing(m) : h = k
       /\ \A h \in Storing(m) : task[h].pc \in Counting \cup Counted => row[m] = None
       /\ \A h \in Storing(m), c \in Jid : task[h].pc \in Counting => m \notin fresh[c]
       /\ \A c \in Jid : m \in fresh[c] /\ row[m] = None => \E h \in Storing(m) : task[h].pc \in Counted

IInv == /\ Shape /\ Placed /\ ByNumber /\ Creating /\ OneLead /\ EditsAreSound
        /\ CountedOnce /\ UnreadIsTrue /\ NothingIsLost
-----------------------------------------------------------------------------
(***************************************************************************)
(* What an action does to the handlers.                                    *)
(***************************************************************************)
Others(h) == \A k \in Handler : k # h => task'[k] = task[k]
Moves(h, pc, c, new, seen) ==
  /\ Others(h) /\ task'[h].pc = pc /\ task'[h].m = task[h].m /\ task'[h].c = c
  /\ task'[h].new = new /\ task'[h].text = task[h].text /\ task'[h].seen = seen
GoesOn(h, pc) == Moves(h, pc, task[h].c, task[h].new, task[h].seen)
Rests(h) == Others(h) /\ task'[h] = Resting
TaskStarts(h, pc, m, text) ==
  /\ Others(h) /\ task'[h].pc = pc /\ task'[h].m = m /\ task'[h].text = text

LEMMA RestingIsTask == Resting \in Task /\ Resting.pc = "idle" /\ Resting.m = None
  BY InboundAssumption DEF Resting, Task, Pc, Text

LEMMA PutTask ==
  ASSUME NEW f \in [Handler -> Task], NEW h \in Handler, NEW t \in Task
  PROVE  /\ [f EXCEPT ![h] = t] \in [Handler -> Task]
         /\ \A k \in Handler : [f EXCEPT ![h] = t][k] = IF k = h THEN t ELSE f[k]
  OBVIOUS

LEMMA GotoMoves ==
  ASSUME Shape, NEW h \in Handler, NEW pc \in Pc, Goto(h, pc)
  PROVE  GoesOn(h, pc) /\ task' \in [Handler -> Task]
  <1> DEFINE t == [task[h] EXCEPT !.pc = pc]
  <1>1. /\ task[h] \in Task /\ task \in [Handler -> Task]
        /\ t \in Task /\ t.pc = pc /\ t.m = task[h].m /\ t.c = task[h].c /\ t.new = task[h].new
        /\ t.text = task[h].text /\ t.seen = task[h].seen
    BY DEF Shape, Task
  <1>2. task' = [task EXCEPT ![h] = t]
    BY DEF Goto
  <1> HIDE DEF t
  <1> QED
    BY <1>1, <1>2, PutTask DEF GoesOn, Moves, Others

LEMMA LeaveRests ==
  ASSUME Shape, NEW h \in Handler, Leave(h)
  PROVE  Rests(h) /\ task' \in [Handler -> Task]
  BY RestingIsTask, PutTask DEF Shape, Leave, Rests, Others

\* A set of numbers that is not empty has a least one.
LEMMA LeastExists ==
  ASSUME NEW S, S \subseteq Nat, S # {}
  PROVE  \E i \in S : \A k \in S : i <= k
  <1> DEFINE R == OpToRel(<, Nat)
  <1>1. IsWellFoundedOn(R, Nat)
    BY NatLessThanWellFounded
  <1>2. \A i, k \in Nat : k < i => <<k, i>> \in R
    BY DEF OpToRel
  <1> HIDE DEF R
  <1>3. PICK i \in S : \A k \in S : ~(<<k, i>> \in R)
    BY <1>1, WFMin
  <1>4. ASSUME NEW k \in S PROVE i <= k
    <2>1. i \in Nat /\ k \in Nat
      OBVIOUS
    <2>2. ~(k < i)
      BY <1>2, <1>3, <2>1, Zenon
    <2> QED
      BY <2>1, <2>2
  <1> QED
    BY <1>4

\* The form of the sender that identifies it is a form.
LEMMA IdentityIsForm ==
  ASSUME Shape, NEW m \in Msg, NEW found \in BOOLEAN
  PROVE  Identity(m, found) \in Jid
  <1> DEFINE is == Matching(Pair(m, found))
  <1>1. CASE is = {}
    BY <1>1 DEF Identity, Jid
  <1>2. CASE is # {}
    <2>1. is \subseteq Nat /\ is \subseteq DOMAIN contacts
      BY DEF Matching, Shape
    <2>2. \E i \in is : \A k \in is : i <= k
      BY <1>2, <2>1, LeastExists
    <2> DEFINE j == CHOOSE i \in is : \A k \in is : i <= k
    <2>3. j \in DOMAIN contacts
      BY <2>1, <2>2
    <2>4. Identity(m, found) = contacts[j].waId
      BY <1>2 DEF Identity, Oldest
    <2> HIDE DEF j
    <2>5. contacts[j] \in [waId : Jid, phone : BOOLEAN]
      <3>1. contacts \in Seq([waId : Jid, phone : BOOLEAN])
        BY DEF Shape
      <3>2. j \in 1..Len(contacts)
        BY <2>3, <3>1
      <3> QED
        BY <3>1, <3>2, ElementOfSeq
    <2> QED
      BY <2>4, <2>5
  <1> QED
    BY <1>1, <1>2
Typed == task' \in [Handler -> Task]

LEMMA RecordMoves ==
  ASSUME Shape, NEW h \in Handler, NEW pc \in Pc, NEW c \in Jid \cup {None}, NEW new \in BOOLEAN,
         NEW seen \in Stored \cup {None}, NEW t, t = [task[h] EXCEPT !.pc = pc, !.c = c, !.new = new, !.seen = seen],
         task' = [task EXCEPT ![h] = t]
  PROVE  Moves(h, pc, c, new, seen) /\ Typed
  <1>1. task[h] \in Task /\ task \in [Handler -> Task]
    BY DEF Shape
  <1>2. /\ t \in Task /\ t.pc = pc /\ t.m = task[h].m /\ t.c = c /\ t.new = new
        /\ t.text = task[h].text /\ t.seen = seen
    BY <1>1 DEF Task
  <1> QED
    BY <1>1, <1>2, PutTask DEF Moves, Others, Typed

LEMMA HandleMoves ==
  ASSUME Shape, Placed, NEW h \in Handler, Handle(h)
  PROVE  /\ Typed
         /\ Check(h) => \/ row[task[h].m] = None /\ GoesOn(h, "identity")
                        \/ row[task[h].m] # None /\ Rests(h)
         /\ Identify(h) => \E found \in BOOLEAN :
              /\ blind' = (blind \/ Pair(task[h].m, found) # Jid)
              /\ Moves(h, "contact", Identity(task[h].m, found), "phone" \in Pair(task[h].m, found), task[h].seen)
         /\ UpsertContact(h) => Moves(h, "conversation", task[h].c, FALSE, task[h].seen)
         /\ FindConversation(h) => Moves(h, "write", task[h].c, unread[task[h].c] = None, task[h].seen)
         /\ Increment(h) => GoesOn(h, "store")
         /\ CreateConversation(h) => GoesOn(h, "lead")
         /\ Collide(h) => Rests(h)
         /\ CreateLead(h) => GoesOn(h, "store")
         /\ Store(h) => Rests(h)
         /\ Unseal(h) => \/ row[task[h].m] # None /\ GoesOn(h, "edit")
                         \/ Rests(h)
         /\ FindOriginal(h) => \/ Rests(h)
                               \/ /\ row[task[h].m] # None
                                  /\ Moves(h, "rewrite", task[h].c, task[h].new, row[task[h].m])
         /\ Rewrite(h) => Rests(h)
  <1> DEFINE t == task[h]
  <1>1. /\ t \in Task /\ t.pc \in Pc /\ t.c \in Jid \cup {None} /\ t.new \in BOOLEAN
        /\ t.seen \in Stored \cup {None} /\ t.text \in Text
    BY DEF Shape, Task
  <1>2. t.pc # "idle" => t.m \in Msg /\ row[t.m] \in Stored \cup {None}
    BY DEF Placed, At, Shape
  <1>3. {"identity", "contact", "conversation", "write", "store", "lead", "edit", "rewrite"} \subseteq Pc
    BY DEF Pc
  <1>4. \A pc \in Pc : Goto(h, pc) => GoesOn(h, pc) /\ Typed
    BY GotoMoves DEF Typed
  <1>5. Leave(h) => Rests(h) /\ Typed
    BY LeaveRests DEF Typed
  <1>6. CASE Check(h)
    <2>1. \/ row[t.m] = None /\ Goto(h, "identity")
          \/ row[t.m] # None /\ Leave(h)
      BY <1>6 DEF Check
    <2> QED
      BY <1>3, <1>4, <1>5, <1>6, <2>1 DEF Check, Identify, UpsertContact, FindConversation, Increment,
         CreateConversation, Collide, CreateLead, Store, Unseal, FindOriginal, Rewrite, At
  <1>7. CASE Identify(h)
    <2>1. PICK found \in BOOLEAN :
            /\ task' = [task EXCEPT ![h].pc = "contact", ![h].c = Identity(t.m, found),
                                    ![h].new = "phone" \in Pair(t.m, found)]
            /\ blind' = (blind \/ Pair(t.m, found) # Jid)
      BY <1>7 DEF Identify
    <2> DEFINE i == Identity(t.m, found)
               p == "phone" \in Pair(t.m, found)
               u == [t EXCEPT !.pc = "contact", !.c = i, !.new = p, !.seen = t.seen]
    <2>2. i \in Jid /\ p \in BOOLEAN
      BY <1>2, <1>7, IdentityIsForm DEF Identify, At
    <2> HIDE DEF i, p
    <2>3. task' = [task EXCEPT ![h] = u]
      BY <1>1, <2>1 DEF Shape, Task, i, p
    <2>4. Moves(h, "contact", i, p, t.seen) /\ Typed
      BY <1>1, <1>3, <2>2, <2>3, RecordMoves
    <2> QED
      BY <1>7, <2>1, <2>4 DEF i, p, Check, Identify, UpsertContact, FindConversation, Increment,
         CreateConversation, Collide, CreateLead, Store, Unseal, FindOriginal, Rewrite, At
  <1>8. CASE UpsertContact(h)
    <2> DEFINE u == [t EXCEPT !.pc = "conversation", !.c = t.c, !.new = FALSE, !.seen = t.seen]
    <2>1. task' = [task EXCEPT ![h] = u]
      BY <1>1, <1>8 DEF UpsertContact, Shape, Task
    <2>2. Moves(h, "conversation", t.c, FALSE, t.seen) /\ Typed
      BY <1>1, <1>3, <2>1, RecordMoves
    <2> QED
      BY <1>8, <2>2 DEF Check, Identify, UpsertContact, FindConversation, Increment,
         CreateConversation, Collide, CreateLead, Store, Unseal, FindOriginal, Rewrite, At
  <1>9. CASE FindConversation(h)
    <2> DEFINE b == unread[t.c] = None
               u == [t EXCEPT !.pc = "write", !.c = t.c, !.new = b, !.seen = t.seen]
    <2>1. b \in BOOLEAN
      OBVIOUS
    <2>2. task' = [task EXCEPT ![h].pc = "write", ![h].new = b]
      BY <1>9 DEF FindConversation
    <2> HIDE DEF b
    <2>3. task' = [task EXCEPT ![h] = u]
      BY <1>1, <2>2 DEF Shape, Task
    <2>4. Moves(h, "write", t.c, b, t.seen) /\ Typed
      BY <1>1, <1>3, <2>1, <2>3, RecordMoves
    <2> QED
      BY <1>9, <2>4 DEF b, Check, Identify, UpsertContact, FindConversation, Increment,
         CreateConversation, Collide, CreateLead, Store, Unseal, FindOriginal, Rewrite, At
  <1>10. CASE Increment(h) \/ CreateConversation(h) \/ Collide(h) \/ CreateLead(h) \/ Store(h) \/ Rewrite(h)
    BY <1>3, <1>4, <1>5, <1>10 DEF Check, Identify, UpsertContact, FindConversation, Increment,
       CreateConversation, Collide, CreateLead, Store, Unseal, FindOriginal, Rewrite, At
  <1>11. CASE Unseal(h)
    BY <1>3, <1>4, <1>5, <1>11 DEF Check, Identify, UpsertContact, FindConversation, Increment,
       CreateConversation, Collide, CreateLead, Store, Unseal, FindOriginal, Rewrite, At
  <1>12. CASE FindOriginal(h)
    <2>1. CASE row[t.m] = None
      BY <1>5, <1>12, <2>1 DEF Check, Identify, UpsertContact, FindConversation, Increment,
         CreateConversation, Collide, CreateLead, Store, Unseal, FindOriginal, Rewrite, At
    <2>2. CASE row[t.m] # None
      <3> DEFINE u == [t EXCEPT !.pc = "rewrite", !.c = t.c, !.new = t.new, !.seen = row[t.m]]
      <3>1. task' = [task EXCEPT ![h].pc = "rewrite", ![h].seen = row[t.m]]
        BY <1>12, <2>2 DEF FindOriginal
      <3>2. task' = [task EXCEPT ![h] = u]
        BY <1>1, <3>1 DEF Shape, Task
      <3>3. Moves(h, "rewrite", t.c, t.new, row[t.m]) /\ Typed
        <4>1. row[t.m] \in Stored \cup {None}
          BY <1>2, <1>12 DEF FindOriginal, At
        <4>2. "rewrite" \in Pc
          BY DEF Pc
        <4> QED
          BY <1>1, <3>2, <4>1, <4>2, RecordMoves
      <3> QED
        BY <1>12, <2>2, <3>3 DEF Check, Identify, UpsertContact, FindConversation, Increment,
           CreateConversation, Collide, CreateLead, Store, Unseal, FindOriginal, Rewrite, At
    <2> QED
      BY <2>1, <2>2
  <1> QED
    BY <1>6, <1>7, <1>8, <1>9, <1>10, <1>11, <1>12 DEF Handle

LEMMA StartMoves ==
  ASSUME Shape, NEW h \in Handler, NEW m \in Msg
  PROVE  /\ Emit(h, m) => TaskStarts(h, "check", m, task[h].text) /\ Typed
         /\ Edit(h, m) => (\E step \in {"edit", "unseal"} : TaskStarts(h, step, m, edits + 1)) /\ Typed
  <1> DEFINE t == task[h]
  <1>1. t \in Task /\ task \in [Handler -> Task]
    BY DEF Shape
  <1>2. ASSUME Emit(h, m) PROVE TaskStarts(h, "check", m, t.text) /\ Typed
    <2> DEFINE u == [t EXCEPT !.pc = "check", !.m = m]
    <2>1. task' = [task EXCEPT ![h] = u]
      BY <1>1, <1>2 DEF Emit, Task
    <2>2. u \in Task /\ u.pc = "check" /\ u.m = m /\ u.text = t.text
      BY <1>1 DEF Task, Pc
    <2> HIDE DEF u
    <2> QED
      BY <1>1, <2>1, <2>2, PutTask DEF TaskStarts, Others, Typed
  <1>3. ASSUME Edit(h, m)
        PROVE  (\E step \in {"edit", "unseal"} : TaskStarts(h, step, m, edits + 1)) /\ Typed
    <2>1. PICK step \in {"edit", "unseal"} :
            task' = [task EXCEPT ![h].pc = step, ![h].m = m, ![h].text = edits + 1]
      BY <1>3 DEF Edit
    <2> DEFINE e == edits + 1
               u == [t EXCEPT !.pc = step, !.m = m, !.text = e]
    <2>2. e \in Text
      BY <1>3, InboundAssumption DEF Edit, Shape, Text
    <2> HIDE DEF e
    <2>3. task' = [task EXCEPT ![h] = u]
      BY <1>1, <2>1 DEF Task, e
    <2>4. u \in Task /\ u.pc = step /\ u.m = m /\ u.text = e
      BY <1>1, <2>2 DEF Task, Pc
    <2> HIDE DEF u
    <2> QED
      BY <1>1, <2>3, <2>4, PutTask DEF TaskStarts, Others, Typed, e
  <1> QED
    BY <1>2, <1>3

\* The handlers in hs end.
LEMMA EndedMoves ==
  ASSUME Shape, NEW hs \in SUBSET Handler, Ended(hs)
  PROVE  /\ Typed
         /\ \A k \in Handler : task'[k] = IF k \in hs THEN Resting ELSE task[k]
         /\ \A h \in hs : /\ task[h].pc \notin {"idle"} \cup Editing => task[h].m \in failed'
                          /\ At(h, "lead") => task[h].c \in halfway'
         /\ failed \subseteq failed' /\ halfway \subseteq halfway'
  BY RestingIsTask DEF Ended, Shape, Typed, Editing
-----------------------------------------------------------------------------
(***************************************************************************)
(* Types, and what a handler knows.                                        *)
(***************************************************************************)
Tables == <<contacts, unread, leads, fresh, row, form, edits>>

LEMMA TablesKeepShape ==
  ASSUME Shape, Typed, UNCHANGED Tables
  PROVE  Shape'
  BY DEF Shape, Typed, Tables

LEMMA HandleShape ==
  ASSUME Shape, Placed, Creating, EditsAreSound, NEW h \in Handler, Handle(h)
  PROVE  Shape'
  <1> DEFINE t == task[h]
  <1>1. Typed
    BY HandleMoves
  <1>2. t.pc # "idle" => t.m \in Msg
    BY DEF Placed, At
  <1>3. t.pc \in Known => t.c \in Jid
    BY DEF Placed
  <1>4. t.new \in BOOLEAN /\ t.text \in Text /\ t.seen \in Stored \cup {None}
    BY DEF Shape, Task
  <1>5. CASE UNCHANGED Tables
    BY <1>1, <1>5, TablesKeepShape
  <1>6. CASE UpsertContact(h)
    <2> DEFINE S == [waId : Jid, phone : BOOLEAN]
    <2>1. contacts \in Seq(S) /\ t.c \in Jid
      BY <1>3, <1>6 DEF Shape, UpsertContact, At, Known
    <2>2. contacts' \in Seq(S)
      <3>1. CASE \E i \in DOMAIN contacts : contacts[i].waId = t.c
        <4> DEFINE k(i) == IF contacts[i].waId = t.c
                           THEN [contacts[i] EXCEPT !.phone = @ \/ t.new] ELSE contacts[i]
        <4>1. contacts' = [i \in DOMAIN contacts |-> k(i)]
          BY <1>6, <3>1 DEF UpsertContact
        <4>2. ASSUME NEW i \in 1..Len(contacts) PROVE k(i) \in S
          <5>1. contacts[i] \in S
            BY <2>1, <4>2, ElementOfSeq
          <5>2. (contacts[i].phone \/ t.new) \in BOOLEAN
            OBVIOUS
          <5> QED
            BY <5>1, <5>2
        <4>3. DOMAIN contacts = 1..Len(contacts) /\ Len(contacts) \in Nat
          BY <2>1
        <4> HIDE DEF k, S
        <4>4. [i \in 1..Len(contacts) |-> k(i)] \in Seq(S)
          BY <4>2, <4>3
        <4> QED
          BY <4>1, <4>3, <4>4
      <3>2. CASE ~\E i \in DOMAIN contacts : contacts[i].waId = t.c
        <4>1. contacts' = Append(contacts, [waId |-> t.c, phone |-> t.new])
          BY <1>6, <3>2 DEF UpsertContact
        <4>2. [waId |-> t.c, phone |-> t.new] \in S
          BY <1>4, <2>1
        <4> HIDE DEF S
        <4> QED
          BY <2>1, <4>1, <4>2, AppendProperties
      <3> QED
        BY <3>1, <3>2
    <2> QED
      BY <1>1, <1>6, <2>2 DEF Shape, Typed, UpsertContact, World
  <1>7. CASE Increment(h) \/ CreateConversation(h)
    <2>1. t.c \in Jid /\ t.m \in Msg
      BY <1>2, <1>3, <1>7 DEF Increment, CreateConversation, At, Known
    <2>2. unread' \in [Jid -> Nat \cup {None}]
      <3>1. CASE Increment(h)
        <4>1. unread[t.c] \in Nat
          BY <2>1, <3>1 DEF Creating, Increment, Shape
        <4> QED
          BY <2>1, <3>1, <4>1 DEF Increment, Shape
      <3>2. CASE CreateConversation(h)
        BY <2>1, <3>2 DEF CreateConversation, Shape
      <3> QED
        BY <1>7, <3>1, <3>2
    <2>3. fresh' \in [Jid -> SUBSET Msg]
      <3>1. fresh' = [fresh EXCEPT ![t.c] = @ \cup {t.m}]
        BY <1>7 DEF Increment, CreateConversation, Count
      <3>2. fresh \in [Jid -> SUBSET Msg]
        BY DEF Shape
      <3> QED
        BY <2>1, <3>1, <3>2
    <2> QED
      BY <1>1, <1>7, <2>2, <2>3 DEF Shape, Typed, Increment, CreateConversation, World
  <1>8. CASE CreateLead(h)
    <2>1. t.c \in Jid
      BY <1>3, <1>8 DEF CreateLead, At, Known
    <2>2. leads' \in [Jid -> Nat]
      BY <1>8, <2>1 DEF CreateLead, Shape
    <2> QED
      BY <1>1, <1>8, <2>2 DEF Shape, Typed, CreateLead, World
  <1>9. CASE Store(h) \/ Rewrite(h)
    <2>1. t.m \in Msg /\ row \in [Msg -> Stored \cup {None}]
      BY <1>2, <1>9 DEF Store, Rewrite, At, Shape
    <2>2. \E r \in Stored : row' = [row EXCEPT ![t.m] = r]
      <3>1. CASE Store(h)
        <4>1. [body |-> 0, original |-> None] \in Stored
          BY InboundAssumption DEF Stored, Text
        <4>2. row[t.m] = None \/ row[t.m] \in Stored
          BY <2>1
        <4> QED
          BY <2>1, <3>1, <4>1, <4>2 DEF Store
      <3>2. CASE Rewrite(h)
        <4> DEFINE o == IF t.seen.original # None THEN t.seen.original ELSE t.seen.body
        <4>1. t.seen \in Stored
          BY <1>4, <3>2 DEF Rewrite, EditsAreSound
        <4>2. o \in Text \cup {None}
          BY <4>1 DEF Stored
        <4>3. row' = [row EXCEPT ![t.m] = [body |-> t.text, original |-> o]]
          BY <3>2 DEF Rewrite
        <4> HIDE DEF o
        <4>4. [body |-> t.text, original |-> o] \in Stored
          BY <1>4, <4>2 DEF Stored
        <4> QED
          BY <4>3, <4>4
      <3> QED
        BY <1>9, <3>1, <3>2
    <2>3. row' \in [Msg -> Stored \cup {None}]
      BY <2>1, <2>2
    <2> QED
      BY <1>1, <1>9, <2>3 DEF Shape, Typed, Store, Rewrite, World
  <1> QED
    BY <1>5, <1>6, <1>7, <1>8, <1>9 DEF Handle, Tables, World, Check, Identify, FindConversation, Collide, Unseal,
       FindOriginal
LEMMA HandlePlaced ==
  ASSUME Shape, Placed, NEW h \in Handler, Handle(h)
  PROVE  Placed'
  <1> DEFINE t == task[h]
  <1>1. \A k \in Handler : (t.pc # "idle" => t.m \in Msg) /\ (t.pc \in Known => t.c \in Jid)
    BY DEF Placed, At
  <1>2. ASSUME Others(h), task'[h].pc # "idle" => task'[h].m \in Msg,
               task'[h].pc \in Known => task'[h].c \in Jid
        PROVE  Placed'
    BY <1>2 DEF Placed, At, Others
  <1>3. CASE Rests(h)
    BY <1>2, <1>3, RestingIsTask DEF Rests, Known
  <1>4. CASE Identify(h)
    <2>1. PICK found \in BOOLEAN :
            Moves(h, "contact", Identity(t.m, found), "phone" \in Pair(t.m, found), t.seen)
      BY <1>4, HandleMoves
    <2>2. t.m \in Msg
      BY <1>1, <1>4 DEF Identify, At
    <2>3. Identity(t.m, found) \in Jid
      BY <2>2, IdentityIsForm
    <2> QED
      BY <1>2, <2>1, <2>2, <2>3 DEF Moves
  <1>5. ASSUME NEW pc, NEW new, NEW seen, Moves(h, pc, t.c, new, seen), t.pc # "idle",
               pc \in Known => t.pc \in Known
        PROVE  Placed'
    BY <1>1, <1>2, <1>5 DEF Moves
  <1>6. ASSUME NEW pc, NEW q, GoesOn(h, pc), t.pc = q, q # "idle", pc \in Known => q \in Known
        PROVE  Placed'
    BY <1>5, <1>6 DEF GoesOn
  <1>7. CASE Check(h)
    BY <1>3, <1>6, <1>7, HandleMoves DEF Check, At, Known
  <1>8. CASE UpsertContact(h)
    BY <1>5, <1>8, HandleMoves DEF UpsertContact, At, Known
  <1>9. CASE FindConversation(h)
    BY <1>5, <1>9, HandleMoves DEF FindConversation, At, Known
  <1>10. CASE Increment(h)
    BY <1>6, <1>10, HandleMoves DEF Increment, At, Known
  <1>11. CASE CreateConversation(h)
    BY <1>6, <1>11, HandleMoves DEF CreateConversation, At, Known
  <1>12. CASE CreateLead(h)
    BY <1>6, <1>12, HandleMoves DEF CreateLead, At, Known
  <1>13. CASE Unseal(h)
    BY <1>3, <1>6, <1>13, HandleMoves DEF Unseal, At, Known
  <1>14. CASE FindOriginal(h)
    BY <1>3, <1>5, <1>14, HandleMoves DEF FindOriginal, At, Known
  <1>15. CASE Collide(h) \/ Store(h) \/ Rewrite(h)
    BY <1>3, <1>15, HandleMoves
  <1> QED
    BY <1>4, <1>7, <1>8, <1>9, <1>10, <1>11, <1>12, <1>13, <1>14, <1>15 DEF Handle
\* A sender looked up by both forms is the number.
LEMMA BothFormsAreTheNumber ==
  ASSUME Shape, ByNumber, ~blind, NEW m \in Msg, NEW found \in BOOLEAN, Pair(m, found) = Jid
  PROVE  Identity(m, found) = "phone"
  <1> DEFINE is == Matching(Jid)
  <1>1. contacts \in Seq([waId : Jid, phone : BOOLEAN]) /\ Len(contacts) <= 1
    BY DEF Shape, ByNumber
  <1>2. DOMAIN contacts = 1..Len(contacts) /\ Len(contacts) \in Nat
    BY <1>1
  <1>3. CASE is = {}
    BY <1>3 DEF Identity, Jid
  <1>4. CASE is # {}
    <2>1. is = {1} /\ 1 \in DOMAIN contacts
      BY <1>1, <1>2, <1>4 DEF Matching
    <2>2. (CHOOSE i \in is : \A k \in is : i <= k) = 1
      BY <2>1
    <2>3. contacts[1].waId = "phone"
      BY <2>1 DEF ByNumber
    <2> QED
      BY <1>4, <2>2, <2>3 DEF Identity, Oldest
  <1> QED
    BY <1>3, <1>4

LEMMA HandleByNumber ==
  ASSUME Shape, Placed, ByNumber, NEW h \in Handler, Handle(h)
  PROVE  ByNumber'
  <1> DEFINE t == task[h]
  <1>1. ASSUME Others(h), UNCHANGED <<contacts, blind>>,
               task'[h].pc \in Known => t.pc \in Known /\ task'[h].c = t.c
        PROVE  ByNumber'
    BY <1>1 DEF ByNumber, Others
  <1>2. ASSUME Rests(h), UNCHANGED <<contacts, blind>> PROVE ByNumber'
    BY <1>1, <1>2, RestingIsTask DEF Rests, Known
  <1>3. ASSUME NEW pc, NEW q, NEW new, NEW seen, Moves(h, pc, t.c, new, seen), t.pc = q,
               pc \in Known => q \in Known, UNCHANGED <<contacts, blind>>
        PROVE  ByNumber'
    BY <1>1, <1>3 DEF Moves
  <1>4. ASSUME NEW pc, NEW q, GoesOn(h, pc), t.pc = q, pc \in Known => q \in Known, UNCHANGED <<contacts, blind>>
        PROVE  ByNumber'
    BY <1>3, <1>4 DEF GoesOn
  <1>5. CASE Check(h)
    BY <1>2, <1>4, <1>5, HandleMoves DEF Check, At, Known
  <1>6. CASE Identify(h)
    <2>1. PICK found \in BOOLEAN :
            /\ blind' = (blind \/ Pair(t.m, found) # Jid)
            /\ Moves(h, "contact", Identity(t.m, found), "phone" \in Pair(t.m, found), t.seen)
      BY <1>6, HandleMoves
    <2>2. t.m \in Msg /\ contacts' = contacts
      BY <1>6 DEF Identify, Placed, At
    <2>3. CASE blind'
      BY <2>3 DEF ByNumber
    <2>4. CASE ~blind'
      <3>1. ~blind /\ Pair(t.m, found) = Jid
        BY <2>1, <2>4
      <3>2. Identity(t.m, found) = "phone"
        BY <2>2, <3>1, BothFormsAreTheNumber
      <3> QED
        BY <2>1, <2>2, <3>1, <3>2 DEF ByNumber, Moves, Others
    <2> QED
      BY <2>3, <2>4
  <1>7. CASE UpsertContact(h)
    <2>1. CASE blind
      BY <1>7, <2>1 DEF UpsertContact, ByNumber
    <2>2. CASE ~blind
      <3> DEFINE S == [waId : Jid, phone : BOOLEAN]
      <3>1. /\ contacts \in Seq(S) /\ Len(contacts) <= 1 /\ t.c = "phone" /\ ~blind' /\ t.pc \in Known
            /\ \A i \in DOMAIN contacts : contacts[i].waId = "phone"
        BY <1>7, <2>2 DEF Shape, ByNumber, UpsertContact, At, Known
      <3>2. DOMAIN contacts = 1..Len(contacts) /\ Len(contacts) \in Nat
        BY <3>1
      <3>3. /\ \A i \in DOMAIN contacts' : contacts'[i].waId = "phone"
            /\ Len(contacts') <= 1
        <4>1. CASE \E i \in DOMAIN contacts : contacts[i].waId = t.c
          <5> DEFINE k(i) == IF contacts[i].waId = t.c
                             THEN [contacts[i] EXCEPT !.phone = @ \/ t.new] ELSE contacts[i]
          <5>1. contacts' = [i \in 1..Len(contacts) |-> k(i)]
            BY <1>7, <3>2, <4>1 DEF UpsertContact
          <5>2. ASSUME NEW i \in 1..Len(contacts) PROVE k(i).waId = "phone"
            <6>1. contacts[i] \in S /\ contacts[i].waId = "phone"
              BY <3>1, <3>2, <5>2, ElementOfSeq
            <6> QED
              BY <6>1
          <5> HIDE DEF k
          <5> QED
            BY <3>1, <3>2, <5>1, <5>2
        <4>2. CASE ~\E i \in DOMAIN contacts : contacts[i].waId = t.c
          <5>1. contacts' = Append(contacts, [waId |-> t.c, phone |-> t.new])
            BY <1>7, <4>2 DEF UpsertContact
          <5>2. Len(contacts) = 0
            BY <3>1, <3>2, <4>2
          <5>3. contacts = <<>>
            BY <3>1, <5>2
          <5>4. contacts' = <<[waId |-> t.c, phone |-> t.new]>>
            BY <5>1, <5>3
          <5> QED
            BY <3>1, <5>4
        <4> QED
          BY <4>1, <4>2
      <3>4. Moves(h, "conversation", t.c, FALSE, t.seen)
        BY <1>7, HandleMoves
      <3> QED
        BY <2>2, <3>1, <3>3, <3>4 DEF ByNumber, Moves, Others
    <2> QED
      BY <2>1, <2>2
  <1>8. CASE FindConversation(h)
    BY <1>3, <1>8, HandleMoves DEF FindConversation, At, Known
  <1>9. CASE Increment(h)
    BY <1>4, <1>9, HandleMoves DEF Increment, At, Known
  <1>10. CASE CreateConversation(h)
    BY <1>4, <1>10, HandleMoves DEF CreateConversation, At, Known
  <1>11. CASE CreateLead(h)
    BY <1>4, <1>11, HandleMoves DEF CreateLead, At, Known
  <1>12. CASE Unseal(h)
    BY <1>2, <1>4, <1>12, HandleMoves DEF Unseal, At, Known
  <1>13. CASE FindOriginal(h)
    BY <1>2, <1>3, <1>13, HandleMoves DEF FindOriginal, At, Known
  <1>14. CASE Collide(h) \/ Store(h) \/ Rewrite(h)
    BY <1>2, <1>14, HandleMoves DEF Collide, Store, Rewrite
  <1> QED
    BY <1>5, <1>6, <1>7, <1>8, <1>9, <1>10, <1>11, <1>12, <1>13, <1>14 DEF Handle
\* One creator at a time, and one lead.
LEMMA HandleLead ==
  ASSUME Shape, Placed, Creating, OneLead, NEW h \in Handler, Handle(h)
  PROVE  Creating' /\ OneLead'
  <1> DEFINE t == task[h]
  <1>1. ASSUME Others(h), UNCHANGED <<unread, leads, halfway>>, t.pc # "lead", task'[h].pc # "lead",
               task'[h].pc = "write" /\ ~task'[h].new => unread[task'[h].c] # None
        PROVE  Creating' /\ OneLead'
    BY <1>1 DEF Creating, OneLead, Others, At
  <1>2. ASSUME Rests(h), UNCHANGED <<unread, leads, halfway>>, t.pc # "lead" PROVE Creating' /\ OneLead'
    BY <1>1, <1>2, RestingIsTask DEF Rests
  <1>3. ASSUME NEW pc, NEW c, NEW new, NEW seen, Moves(h, pc, c, new, seen), t.pc # "lead",
               pc \notin {"lead", "write"}, UNCHANGED <<unread, leads, halfway>>
        PROVE  Creating' /\ OneLead'
    BY <1>1, <1>3 DEF Moves
  <1>4. ASSUME NEW pc, GoesOn(h, pc), t.pc # "lead", pc \notin {"lead", "write"}, UNCHANGED <<unread, leads, halfway>>
        PROVE  Creating' /\ OneLead'
    BY <1>3, <1>4 DEF GoesOn
  <1>5. CASE Check(h)
    BY <1>2, <1>4, <1>5, HandleMoves DEF Check, At
  <1>6. CASE Identify(h)
    <2>1. PICK found \in BOOLEAN :
            Moves(h, "contact", Identity(t.m, found), "phone" \in Pair(t.m, found), t.seen)
      BY <1>6, HandleMoves
    <2> QED
      BY <1>3, <1>6, <2>1 DEF Identify, At
  <1>7. CASE UpsertContact(h)
    <2>1. Moves(h, "conversation", t.c, FALSE, t.seen)
      BY <1>7, HandleMoves
    <2>2. t.pc # "lead" /\ UNCHANGED <<unread, leads, halfway>>
      BY <1>7 DEF UpsertContact, At
    <2> QED
      BY <1>1, <2>1, <2>2 DEF Moves
  <1>8. CASE FindConversation(h)
    BY <1>1, <1>8, HandleMoves DEF FindConversation, At, Moves
  <1>9. CASE Increment(h)
    <2>1. GoesOn(h, "store") /\ UNCHANGED <<leads, halfway>> /\ t.pc = "write" /\ ~t.new
      BY <1>9, HandleMoves DEF Increment, At
    <2>2. t.c \in Jid /\ unread[t.c] \in Nat /\ None \notin Nat /\ unread \in [Jid -> Nat \cup {None}]
      BY <2>1, InboundAssumption DEF Placed, Creating, Shape, Known, At
    <2>3. \A c \in Jid : unread'[c] = None <=> unread[c] = None
      <3>1. unread' = [unread EXCEPT ![t.c] = @ + 1]
        BY <1>9 DEF Increment
      <3>2. unread[t.c] + 1 \in Nat
        BY <2>2
      <3> QED
        BY <2>2, <3>1, <3>2
    <2>4. \A k \in Handler : task[k].pc \in {"lead", "write"} => task[k].c \in Jid
      BY DEF Placed, Known
    <2> QED
      BY <2>1, <2>2, <2>3, <2>4 DEF Creating, OneLead, GoesOn, Moves, Others, At
  <1>10. CASE CreateConversation(h)
    <2>1. GoesOn(h, "lead") /\ UNCHANGED <<leads, halfway>> /\ t.pc = "write" /\ t.new /\ unread[t.c] = None
      BY <1>10, HandleMoves DEF CreateConversation, At
    <2>2. t.c \in Jid /\ None \notin Nat /\ unread \in [Jid -> Nat \cup {None}]
      BY <2>1, InboundAssumption DEF Placed, Shape, Known
    <2>3. \A c \in Jid : unread'[c] = IF c = t.c THEN 1 ELSE unread[c]
      BY <1>10, <2>2 DEF CreateConversation
    <2>4. \A k \in Handler : task[k].pc \in {"lead", "write"} => task[k].c \in Jid
      BY DEF Placed, Known
    <2>5. leads[t.c] = 0 /\ \A k \in Handler : ~(At(k, "lead") /\ task[k].c = t.c)
      BY <2>1, <2>2 DEF Creating
    <2> QED
      BY <2>1, <2>2, <2>3, <2>4, <2>5 DEF Creating, OneLead, GoesOn, Moves, Others, At
  <1>11. CASE Collide(h)
    BY <1>2, <1>11, HandleMoves DEF Collide, At
  <1>12. CASE CreateLead(h)
    <2>1. GoesOn(h, "store") /\ UNCHANGED <<unread, halfway>> /\ t.pc = "lead"
      BY <1>12, HandleMoves DEF CreateLead, At
    <2>2. t.c \in Jid /\ leads \in [Jid -> Nat] /\ leads[t.c] = 0 /\ unread[t.c] # None
      BY <2>1 DEF Placed, Shape, Known, Creating, At
    <2>3. \A c \in Jid : leads'[c] = IF c = t.c THEN 1 ELSE leads[c]
      BY <1>12, <2>2 DEF CreateLead
    <2>4. \A k \in Handler : task[k].pc \in {"lead", "write"} => task[k].c \in Jid
      BY DEF Placed, Known
    <2>5. \A k \in Handler : At(k, "lead") /\ task[k].c = t.c => k = h
      BY <2>1 DEF Creating, At
    <2> QED
      BY <2>1, <2>2, <2>3, <2>4, <2>5 DEF Creating, OneLead, GoesOn, Moves, Others, At
  <1>13. CASE Unseal(h)
    BY <1>2, <1>4, <1>13, HandleMoves DEF Unseal, At
  <1>14. CASE FindOriginal(h)
    <2>1. Rests(h) \/ Moves(h, "rewrite", t.c, t.new, row[t.m])
      BY <1>14, HandleMoves
    <2>2. t.pc # "lead" /\ UNCHANGED <<unread, leads, halfway>>
      BY <1>14 DEF FindOriginal, At
    <2> QED
      BY <1>2, <1>3, <2>1, <2>2
  <1>15. CASE Store(h) \/ Rewrite(h)
    BY <1>2, <1>15, HandleMoves DEF Store, Rewrite, At
  <1> QED
    BY <1>5, <1>6, <1>7, <1>8, <1>9, <1>10, <1>11, <1>12, <1>13, <1>14, <1>15 DEF Handle
\* A row never goes, and the first text stays in it.
LEMMA HandleEdits ==
  ASSUME Shape, Placed, EditsAreSound, FirstTextIsKept, NEW h \in Handler, Handle(h)
  PROVE  EditsAreSound' /\ FirstTextIsKept'
  <1> DEFINE t == task[h]
  <1>a. \A k \in Handler : At(k, "rewrite") => task[k].m \in Msg
    BY DEF Placed, At
  <1>1. ASSUME Others(h), \A m \in Msg : row[m] # None => row'[m] # None, FirstTextIsKept',
               task'[h].pc \in Editing => task'[h].text # 0,
               task'[h].pc = "rewrite" => task'[h].seen # None /\ Kept(task'[h].seen) /\ row'[task'[h].m] # None
        PROVE  EditsAreSound' /\ FirstTextIsKept'
    BY <1>a, <1>1 DEF EditsAreSound, Others, At
  <1>2. UNCHANGED row => FirstTextIsKept' /\ \A m \in Msg : row[m] # None => row'[m] # None
    BY DEF FirstTextIsKept
  <1>3. ASSUME NEW pc, NEW q, NEW c, NEW new, NEW seen, Moves(h, pc, c, new, seen), UNCHANGED row, t.pc = q,
               pc \in Editing => q \in Editing, pc # "rewrite"
        PROVE  EditsAreSound' /\ FirstTextIsKept'
    BY <1>1, <1>2, <1>3 DEF Moves, EditsAreSound
  <1>4. ASSUME NEW pc, NEW q, GoesOn(h, pc), UNCHANGED row, t.pc = q, pc \in Editing => q \in Editing, pc # "rewrite"
        PROVE  EditsAreSound' /\ FirstTextIsKept'
    BY <1>3, <1>4 DEF GoesOn
  <1>5. ASSUME Rests(h), FirstTextIsKept', \A m \in Msg : row[m] # None => row'[m] # None
        PROVE  EditsAreSound' /\ FirstTextIsKept'
    BY <1>1, <1>5, RestingIsTask DEF Rests, Editing
  <1>6. CASE Check(h)
    BY <1>2, <1>4, <1>5, <1>6, HandleMoves DEF Check, At, Editing
  <1>7. CASE Identify(h)
    <2>1. PICK found \in BOOLEAN :
            Moves(h, "contact", Identity(t.m, found), "phone" \in Pair(t.m, found), t.seen)
      BY <1>7, HandleMoves
    <2> QED
      BY <1>3, <1>7, <2>1 DEF Identify, At, Editing
  <1>8. CASE UpsertContact(h) \/ FindConversation(h)
    <2>1. \E pc \in {"conversation", "write"}, new \in BOOLEAN : Moves(h, pc, t.c, new, t.seen)
      BY <1>8, HandleMoves
    <2>2. UNCHANGED row
      BY <1>8 DEF UpsertContact, FindConversation
    <2> QED
      BY <1>3, <2>1, <2>2 DEF Editing
  <1>9. CASE Increment(h) \/ CreateConversation(h) \/ CreateLead(h)
    <2>1. \E pc \in {"store", "lead"} : GoesOn(h, pc)
      BY <1>9, HandleMoves
    <2>2. UNCHANGED row
      BY <1>9 DEF Increment, CreateConversation, CreateLead
    <2> QED
      BY <1>4, <2>1, <2>2 DEF Editing
  <1>10. CASE Collide(h)
    BY <1>2, <1>5, <1>10, HandleMoves DEF Collide
  <1>11. CASE Unseal(h)
    BY <1>2, <1>4, <1>5, <1>11, HandleMoves DEF Unseal, At, Editing
  <1>12. CASE FindOriginal(h)
    <2>1. CASE Rests(h)
      BY <1>2, <1>5, <1>12, <2>1 DEF FindOriginal
    <2>2. CASE row[t.m] # None /\ Moves(h, "rewrite", t.c, t.new, row[t.m])
      <3>1. t.pc = "edit" /\ t.m \in Msg /\ UNCHANGED row
        BY <1>12 DEF FindOriginal, At, Placed
      <3>2. Kept(row[t.m]) /\ t.text # 0
        BY <2>2, <3>1 DEF FirstTextIsKept, Kept, EditsAreSound, Editing
      <3> QED
        BY <1>1, <1>2, <2>2, <3>1, <3>2 DEF Moves
    <2> QED
      BY <1>12, <2>1, <2>2, HandleMoves
  <1>13. CASE Store(h)
    <2>1. t.m \in Msg /\ row \in [Msg -> Stored \cup {None}] /\ Rests(h)
      BY <1>13, HandleMoves DEF Store, At, Placed, Shape
    <2> DEFINE r == [body |-> 0, original |-> None]
    <2>2. Kept(r) /\ r # None
      <3>1. Kept(r)
        BY DEF Kept
      <3>2. r \in Stored
        BY InboundAssumption DEF Stored, Text
      <3> QED
        BY <3>1, <3>2, NoRowAssumption
    <2>3. \A m \in Msg : row'[m] = IF m = t.m /\ row[m] = None THEN r ELSE row[m]
      BY <1>13, <2>1 DEF Store
    <2> HIDE DEF r
    <2>4. FirstTextIsKept'
      BY <2>2, <2>3 DEF FirstTextIsKept, Kept
    <2>5. \A m \in Msg : row[m] # None => row'[m] # None
      BY <2>3
    <2> QED
      BY <1>5, <2>1, <2>4, <2>5
  <1>14. CASE Rewrite(h)
    <2>1. /\ t.m \in Msg /\ row \in [Msg -> Stored \cup {None}] /\ Rests(h) /\ t.pc = "rewrite"
          /\ t.seen # None /\ Kept(t.seen) /\ t.text # 0
      BY <1>14, HandleMoves DEF Rewrite, At, Placed, Shape, EditsAreSound, Editing
    <2> DEFINE r == [body |-> t.text,
                     original |-> IF t.seen.original # None THEN t.seen.original ELSE t.seen.body]
    <2>2. r.body = t.text /\ r.original = 0
      <3>1. 0 # None
        BY InboundAssumption
      <3> QED
        BY <2>1, <3>1 DEF Kept
    <2>3. Kept(r)
      BY <2>1, <2>2 DEF Kept
    <2>4. r # None
      <3>1. r \in Stored
        BY <2>1, <2>2 DEF Stored, Shape, Task, Text
      <3> QED
        BY <3>1, NoRowAssumption
    <2>5. \A m \in Msg : row'[m] = IF m = t.m THEN r ELSE row[m]
      BY <1>14, <2>1 DEF Rewrite
    <2> HIDE DEF r
    <2>6. FirstTextIsKept'
      BY <2>3, <2>5 DEF FirstTextIsKept, Kept
    <2>7. \A m \in Msg : row[m] # None => row'[m] # None
      BY <2>4, <2>5
    <2> QED
      BY <1>5, <2>1, <2>6, <2>7
  <1> QED
    BY <1>6, <1>7, <1>8, <1>9, <1>10, <1>11, <1>12, <1>13, <1>14 DEF Handle
-----------------------------------------------------------------------------
(***************************************************************************)
(* The count of a message.  What the steps of a handler do to Storing, to  *)
(* the rows and to the counts is all that matters here.                    *)
(***************************************************************************)
\* A handler that still stores message m.
Stores(h, m) == task[h].m = m /\ task[h].pc \notin {"idle"} \cup Editing

\* CountedOnce and HandledIsStored for one message, with the handlers spelt out.
Undisturbed(m) ==
  /\ \A h, k \in Handler : Stores(h, m) /\ Stores(k, m) => h = k
  /\ \A h \in Handler : Stores(h, m) /\ task[h].pc \in Counting \cup Counted => row[m] = None
  /\ \A h \in Handler, c \in Jid : Stores(h, m) /\ task[h].pc \in Counting => m \notin fresh[c]
  /\ \A c \in Jid : m \in fresh[c] /\ row[m] = None => \E h \in Handler : Stores(h, m) /\ task[h].pc \in Counted
Reached(m) == m \in emitted /\ (\A h \in Handler : ~Stores(h, m)) /\ m \notin failed => row[m] # None

Spelt ==
  /\ \A m \in Msg : \A h : h \in Storing(m) <=> h \in Handler /\ Stores(h, m)
  /\ CountedOnce <=> /\ \A c \in Jid : IsFiniteSet(fresh[c]) /\ (unread[c] = None => fresh[c] = {})
                     /\ \A m \in Msg \ (failed \cup doubled) : Undisturbed(m)
  /\ HandledIsStored <=> \A m \in Msg : Reached(m)

LEMMA SpeltOut == Spelt
  <1>1. \A m \in Msg : \A h : h \in Storing(m) <=> h \in Handler /\ Stores(h, m)
    BY DEF Storing, Stores, Editing
  <1>2. \A m \in Msg : Undisturbed(m) <=>
          /\ \A h, k \in Storing(m) : h = k
          /\ \A h \in Storing(m) : task[h].pc \in Counting \cup Counted => row[m] = None
          /\ \A h \in Storing(m), c \in Jid : task[h].pc \in Counting => m \notin fresh[c]
          /\ \A c \in Jid : m \in fresh[c] /\ row[m] = None => \E h \in Storing(m) : task[h].pc \in Counted
    BY <1>1 DEF Undisturbed
  <1>3. HandledIsStored <=> \A m \in Msg : Reached(m)
    BY <1>1 DEF HandledIsStored, Reached
  <1> QED
    BY <1>1, <1>2, <1>3 DEF CountedOnce, Spelt

LEMMA SpeltOutNext == Spelt'
  BY SpeltOut, PTL

\* A step on the way, before or after the count.
Advances(h) ==
  /\ Others(h) /\ task'[h].m = task[h].m
  /\ task[h].pc # "idle" /\ task'[h].pc # "idle"
  /\ task'[h].pc \in Editing <=> task[h].pc \in Editing
  /\ task'[h].pc \in Counted <=> task[h].pc \in Counted
  /\ task'[h].pc \in Counting => task[h].pc \in Counting \/ row[task[h].m] = None
  /\ UNCHANGED <<row, fresh, unread, failed, doubled, emitted>>

\* A handler ends with its message stored, or had none to store.
Concludes(h) ==
  /\ Rests(h)
  /\ \A m \in Msg : row[m] # None => row'[m] # None
  /\ \A m \in Msg : row'[m] # None /\ row[m] = None => Stores(h, m)
  /\ \A m \in Msg : Stores(h, m) => row'[m] # None
  /\ UNCHANGED <<fresh, unread, failed, doubled, emitted>>

\* A message is counted.
Counts(h) ==
  /\ Others(h) /\ task'[h].m = task[h].m /\ task[h].pc = "write" /\ task'[h].pc \in Counted
  /\ LET d == task[h].c
     IN  /\ fresh'[d] = fresh[d] \cup {task[h].m}
         /\ unread'[d] = IF unread[d] = None THEN 1 ELSE unread[d] + 1
         /\ \A c \in Jid \ {d} : fresh'[c] = fresh[c] /\ unread'[c] = unread[c]
  /\ UNCHANGED <<row, failed, doubled, emitted>>

CountInv == CountedOnce /\ UnreadIsTrue /\ HandledIsStored

\* The chats of which nothing changes keep their count.
LEMMA SameCounts ==
  ASSUME UnreadIsTrue, CountedOnce, UNCHANGED <<fresh, unread>>, failed \subseteq failed', doubled \subseteq doubled'
  PROVE  UnreadIsTrue' /\ \A c \in Jid : IsFiniteSet(fresh'[c]) /\ (unread'[c] = None => fresh'[c] = {})
  BY DEF UnreadIsTrue, CountedOnce

LEMMA AdvancesCounts ==
  ASSUME Shape, CountInv, NEW h \in Handler, Advances(h)
  PROVE  CountInv'
  <1>1. \A k \in Handler, m \in Msg : Stores(k, m)' <=> Stores(k, m)
    BY DEF Stores, Advances, Others
  <1>2. ASSUME NEW m \in Msg, Undisturbed(m) PROVE Undisturbed(m)'
    <2>1. \A k, j \in Handler : Stores(k, m)' /\ Stores(j, m)' => k = j
      BY <1>1, <1>2 DEF Undisturbed
    <2>2. ASSUME NEW k \in Handler, Stores(k, m)', task'[k].pc \in Counting \cup Counted PROVE row'[m] = None
      BY <1>1, <1>2, <2>2 DEF Undisturbed, Advances, Others, Stores
    <2>3. ASSUME NEW k \in Handler, NEW c \in Jid, Stores(k, m)', task'[k].pc \in Counting PROVE m \notin fresh'[c]
      <3>1. CASE task[k].pc \in Counting
        BY <1>1, <1>2, <2>3, <3>1 DEF Undisturbed, Advances
      <3>2. CASE task[k].pc \notin Counting
        <4>1. k = h /\ Stores(h, m) /\ row[m] = None /\ task[h].pc \notin Counted
          BY <1>1, <2>3, <3>2 DEF Advances, Others, Stores, Counting, Counted
        <4>2. m \notin fresh[c]
          BY <1>2, <4>1 DEF Undisturbed
        <4> QED
          BY <4>2 DEF Advances
      <3> QED
        BY <3>1, <3>2
    <2>4. ASSUME NEW c \in Jid, m \in fresh'[c], row'[m] = None
          PROVE  \E k \in Handler : Stores(k, m)' /\ task'[k].pc \in Counted
      <3>1. PICK k \in Handler : Stores(k, m) /\ task[k].pc \in Counted
        BY <1>2, <2>4 DEF Undisturbed, Advances
      <3> QED
        BY <1>1, <3>1 DEF Advances, Others
    <2> QED
      BY <2>1, <2>2, <2>3, <2>4 DEF Undisturbed
  <1>3. \A m \in Msg : Reached(m) => Reached(m)'
    BY <1>1 DEF Reached, Advances
  <1>4. UNCHANGED <<fresh, unread, failed, doubled>>
    BY DEF Advances
  <1> QED
    BY <1>2, <1>3, <1>4, SameCounts, SpeltOut, SpeltOutNext DEF CountInv, Spelt

LEMMA ConcludesCounts ==
  ASSUME Shape, CountInv, NEW h \in Handler, Concludes(h)
  PROVE  CountInv'
  <1>0. Others(h) /\ UNCHANGED <<fresh, unread, failed, doubled, emitted>>
    BY DEF Concludes, Rests
  <1>a. \A m \in Msg : row[m] # None => row'[m] # None
    BY DEF Concludes
  <1>b. \A m \in Msg : row'[m] # None /\ row[m] = None => Stores(h, m)
    BY DEF Concludes
  <1>c. \A m \in Msg : Stores(h, m) => row'[m] # None
    BY DEF Concludes
  <1>1. \A k \in Handler, m \in Msg : Stores(k, m)' <=> Stores(k, m) /\ k # h
    BY RestingIsTask DEF Stores, Concludes, Rests, Others
  <1>2. ASSUME NEW m \in Msg, Undisturbed(m) PROVE Undisturbed(m)'
    <2>1. \A k, j \in Handler : Stores(k, m)' /\ Stores(j, m)' => k = j
      BY <1>1, <1>2 DEF Undisturbed
    <2>2. ASSUME NEW k \in Handler, Stores(k, m)', task'[k].pc \in Counting \cup Counted PROVE row'[m] = None
      <3>1. Stores(k, m) /\ k # h /\ task[k] = task'[k]
        BY <1>1, <2>2 DEF Concludes, Rests, Others
      <3>2. row[m] = None /\ ~Stores(h, m)
        BY <1>2, <2>2, <3>1 DEF Undisturbed
      <3> QED
        BY <1>b, <3>2, Zenon
    <2>3. ASSUME NEW k \in Handler, NEW c \in Jid, Stores(k, m)', task'[k].pc \in Counting PROVE m \notin fresh'[c]
      BY <1>1, <1>2, <2>3 DEF Undisturbed, Concludes, Rests, Others
    <2>4. ASSUME NEW c \in Jid, m \in fresh'[c], row'[m] = None
          PROVE  \E k \in Handler : Stores(k, m)' /\ task'[k].pc \in Counted
      <3>0. m \in fresh[c] /\ row[m] = None
        BY <1>0, <1>a, <2>4, Zenon
      <3>1. PICK k \in Handler : Stores(k, m) /\ task[k].pc \in Counted
        BY <1>2, <3>0 DEF Undisturbed
      <3>2. k # h
        BY <1>c, <2>4, <3>1, Zenon
      <3> QED
        BY <1>1, <3>1, <3>2 DEF Concludes, Rests, Others
    <2> QED
      BY <2>1, <2>2, <2>3, <2>4 DEF Undisturbed
  <1>3. ASSUME NEW m \in Msg, Reached(m), m \in emitted', \A k \in Handler : ~Stores(k, m)', m \notin failed'
        PROVE  row'[m] # None
    <2>1. m \in emitted /\ m \notin failed
      BY <1>0, <1>3
    <2>2. CASE Stores(h, m)
      BY <1>c, <2>2, Zenon
    <2>3. CASE ~Stores(h, m)
      <3>1. \A k \in Handler : ~Stores(k, m)
        BY <1>1, <1>3, <2>3, Zenon
      <3>2. row[m] # None
        BY <1>3, <2>1, <3>1, Zenon DEF Reached
      <3> QED
        BY <1>a, <3>2, Zenon
    <2> QED
      BY <2>2, <2>3
  <1>r. \A m \in Msg : Reached(m) => Reached(m)'
    BY <1>3, Zenon DEF Reached
  <1>4. UNCHANGED <<fresh, unread, failed, doubled>>
    BY DEF Concludes
  <1> QED
    BY <1>2, <1>r, <1>4, SameCounts, SpeltOut, SpeltOutNext DEF CountInv, Spelt

LEMMA CountsCounts ==
  ASSUME Shape, Placed, CountInv, NEW h \in Handler, Counts(h)
  PROVE  CountInv'
  <1> DEFINE n == task[h].m
             d == task[h].c
  <1>a. n \in Msg /\ d \in Jid
    BY DEF Placed, At, Counts, Known
  <1>0. /\ row' = row /\ fresh'[d] = fresh[d] \cup {n}
        /\ unread'[d] = IF unread[d] = None THEN 1 ELSE unread[d] + 1
    BY <1>a DEF Counts
  <1>c. \A c \in Jid \ {d} : fresh'[c] = fresh[c] /\ unread'[c] = unread[c]
    BY DEF Counts
  <1>1. \A k \in Handler, m \in Msg : Stores(k, m)' <=> Stores(k, m)
    BY DEF Stores, Counts, Others, Counted, Editing
  <1>b. Stores(h, n) /\ task[h].pc \in Counting /\ task[h].pc \notin Counted
    BY DEF Stores, Counts, Counting, Counted, Editing
  <1>2. ASSUME NEW m \in Msg, Undisturbed(m) PROVE Undisturbed(m)'
    <2>1. \A k, j \in Handler : Stores(k, m)' /\ Stores(j, m)' => k = j
      BY <1>1, <1>2 DEF Undisturbed
    <2>2. ASSUME NEW k \in Handler, Stores(k, m)', task'[k].pc \in Counting \cup Counted PROVE row'[m] = None
      BY <1>1, <1>b, <1>2, <2>2 DEF Undisturbed, Counts, Others
    <2>3. ASSUME NEW k \in Handler, NEW c \in Jid, Stores(k, m)', task'[k].pc \in Counting PROVE m \notin fresh'[c]
      <3>1. k # h /\ task'[k] = task[k]
        BY <2>3 DEF Counts, Others, Counted, Counting
      <3>2. m # n
        BY <1>1, <1>2, <1>b, <2>3, <3>1 DEF Undisturbed
      <3>3. m \notin fresh[c]
        BY <1>1, <1>2, <2>3, <3>1 DEF Undisturbed
      <3> QED
        BY <1>0, <1>c, <3>2, <3>3
    <2>4. ASSUME NEW c \in Jid, m \in fresh'[c], row'[m] = None
          PROVE  \E k \in Handler : Stores(k, m)' /\ task'[k].pc \in Counted
      <3>1. CASE m = n
        BY <1>1, <1>b, <3>1 DEF Counts
      <3>2. CASE m # n
        <4>1. m \in fresh[c] /\ row[m] = None
          BY <1>0, <1>c, <2>4, <3>2
        <4>2. PICK k \in Handler : Stores(k, m) /\ task[k].pc \in Counted
          BY <1>2, <4>1 DEF Undisturbed
        <4> QED
          BY <1>1, <1>b, <4>2 DEF Counts, Others
      <3> QED
        BY <3>1, <3>2
    <2> QED
      BY <2>1, <2>2, <2>3, <2>4 DEF Undisturbed
  <1>3. \A m \in Msg : Reached(m) => Reached(m)'
    BY <1>1 DEF Reached, Counts
  <1>4. ASSUME NEW c \in Jid
        PROVE  IsFiniteSet(fresh'[c]) /\ (unread'[c] = None => fresh'[c] = {})
    <2>1. IsFiniteSet(fresh[c]) /\ (unread[c] = None => fresh[c] = {})
      BY DEF CountInv, CountedOnce
    <2>2. IsFiniteSet(fresh[c] \cup {n})
      BY <2>1, FS_AddElement
    <2>3. unread[d] \in Nat \cup {None} /\ None \notin Nat
      BY <1>a, InboundAssumption DEF Shape
    <2>4. unread'[d] \in Nat
      BY <1>0, <2>3
    <2> QED
      BY <1>0, <1>c, <2>1, <2>2, <2>3, <2>4
  <1>5. UnreadIsTrue'
    <2> SUFFICES ASSUME NEW c \in Jid, unread'[c] # None, fresh'[c] \cap (failed \cup doubled) = {}
                 PROVE  unread'[c] = Cardinality(fresh'[c])
      BY DEF UnreadIsTrue, Counts
    <2>1. CASE c # d
      <3>1. fresh'[c] = fresh[c] /\ unread'[c] = unread[c]
        BY <1>c, <2>1
      <3> QED
        BY <3>1 DEF CountInv, UnreadIsTrue, Counts
    <2>2. CASE c = d
      <3>1. fresh'[c] = fresh[c] \cup {n} /\ n \notin failed \cup doubled /\ fresh[c] \cap (failed \cup doubled) = {}
        BY <2>2 DEF Counts
      <3>2. n \notin fresh[c]
        BY <1>a, <1>b, <3>1, SpeltOut DEF CountInv, Spelt, Undisturbed
      <3>3. IsFiniteSet(fresh[c]) /\ (unread[c] = None => fresh[c] = {})
        BY DEF CountInv, CountedOnce
      <3>4. Cardinality(fresh'[c]) = Cardinality(fresh[c]) + 1
        BY <3>1, <3>2, <3>3, FS_AddElement
      <3>5. CASE unread[c] = None
        <4>1. Cardinality(fresh[c]) = 0
          BY <3>3, <3>5, FS_EmptySet, Zenon
        <4> QED
          BY <1>0, <2>2, <3>4, <3>5, <4>1
      <3>6. CASE unread[c] # None
        <4>1. unread[c] = Cardinality(fresh[c])
          BY <3>1, <3>6 DEF CountInv, UnreadIsTrue
        <4> QED
          BY <1>0, <2>2, <3>4, <3>6, <4>1
      <3> QED
        BY <3>5, <3>6
    <2> QED
      BY <2>1, <2>2
  <1>6. UNCHANGED <<failed, doubled>>
    BY DEF Counts
  <1> QED
    BY <1>2, <1>3, <1>4, <1>5, <1>6, SpeltOut, SpeltOutNext DEF CountInv, Spelt

\* Handlers end without their message, which is then among the failed.
Abandons(hs) ==
  /\ \A k \in Handler : task'[k] = IF k \in hs THEN Resting ELSE task[k]
  /\ \A h \in hs : task[h].pc \notin {"idle"} \cup Editing => task[h].m \in failed'
  /\ failed \subseteq failed' /\ UNCHANGED <<row, fresh, unread, doubled, emitted>>

LEMMA AbandonsCounts ==
  ASSUME Shape, CountInv, NEW hs \in SUBSET Handler, Abandons(hs)
  PROVE  CountInv'
  <1>1. \A k \in Handler, m \in Msg : Stores(k, m)' <=> Stores(k, m) /\ k \notin hs
    BY RestingIsTask DEF Stores, Abandons
  <1>2. ASSUME NEW m \in Msg \ failed', Undisturbed(m) PROVE Undisturbed(m)'
    <2>1. \A k \in Handler : Stores(k, m) => k \notin hs /\ task'[k] = task[k]
      BY <1>2 DEF Abandons, Stores
    <2> QED
      BY <1>1, <1>2, <2>1 DEF Undisturbed, Abandons
  <1>3. ASSUME NEW m \in Msg, Reached(m) PROVE Reached(m)'
    <2>1. \A k \in hs : Stores(k, m) => m \in failed'
      BY DEF Abandons, Stores
    <2> QED
      BY <1>1, <1>3, <2>1 DEF Reached, Abandons
  <1>4. UNCHANGED <<fresh, unread, doubled>> /\ failed \subseteq failed'
    BY DEF Abandons
  <1> QED
    BY <1>2, <1>3, <1>4, SameCounts, SpeltOut, SpeltOutNext DEF CountInv, Spelt

\* Every step of a handler is one of the four.
LEMMA HandleCount ==
  ASSUME Shape, Placed, Creating, EditsAreSound, CountInv, NEW h \in Handler, Handle(h)
  PROVE  CountInv'
  <1> DEFINE t == task[h]
             Same == UNCHANGED <<row, fresh, unread, failed, doubled, emitted>>
  <1>1. ASSUME NEW pc, NEW q, NEW c, NEW new, NEW seen, Moves(h, pc, c, new, seen), t.pc = q, Same,
               q # "idle", pc # "idle", pc \in Editing <=> q \in Editing, pc \in Counted <=> q \in Counted,
               pc \in Counting => q \in Counting \/ row[t.m] = None
        PROVE  CountInv'
    <2>1. Advances(h)
      BY <1>1 DEF Advances, Moves
    <2> QED
      BY <2>1, AdvancesCounts
  <1>2. ASSUME NEW pc, NEW q, GoesOn(h, pc), t.pc = q, Same,
               q # "idle", pc # "idle", pc \in Editing <=> q \in Editing, pc \in Counted <=> q \in Counted,
               pc \in Counting => q \in Counting \/ row[t.m] = None
        PROVE  CountInv'
    <2>1. Moves(h, pc, t.c, t.new, t.seen)
      BY <1>2 DEF GoesOn
    <2> HIDE DEF Same
    <2> QED
      BY <1>1, <1>2, <2>1
  <1>3. ASSUME Rests(h), t.pc \in Editing \/ (row[t.m] # None /\ t.m \in Msg), Same
        PROVE  CountInv'
    <2>1. \A m \in Msg : Stores(h, m) => row[m] # None
      BY <1>3 DEF Stores, Editing
    <2>2. Concludes(h)
      BY <1>3, <2>1 DEF Concludes
    <2> QED
      BY <2>2, ConcludesCounts
  <1>4. CASE Check(h)
    <2>1. t.pc = "check" /\ Same /\ t.m \in Msg
      BY <1>4 DEF Check, At, World, Placed
    <2>2. \/ row[t.m] = None /\ GoesOn(h, "identity")
          \/ row[t.m] # None /\ Rests(h)
      BY <1>4, HandleMoves
    <2> HIDE DEF Same
    <2>3. CASE row[t.m] = None /\ GoesOn(h, "identity")
      BY <1>2, <2>1, <2>3 DEF Editing, Counted
    <2> QED
      BY <1>3, <2>1, <2>2, <2>3
  <1>5. CASE Identify(h)
    <2>1. PICK found \in BOOLEAN :
            Moves(h, "contact", Identity(t.m, found), "phone" \in Pair(t.m, found), t.seen)
      BY <1>5, HandleMoves
    <2>2. t.pc = "identity" /\ Same
      BY <1>5 DEF Identify, At, World
    <2> HIDE DEF Same
    <2> QED
      BY <1>1, <2>1, <2>2 DEF Editing, Counted, Counting
  <1>6. CASE UpsertContact(h)
    <2>1. t.pc = "contact" /\ Same /\ Moves(h, "conversation", t.c, FALSE, t.seen)
      BY <1>6, HandleMoves DEF UpsertContact, At, World
    <2> HIDE DEF Same
    <2> QED
      BY <1>1, <2>1 DEF Editing, Counted, Counting
  <1>7. CASE FindConversation(h)
    <2>1. t.pc = "conversation" /\ Same /\ Moves(h, "write", t.c, unread[t.c] = None, t.seen)
      BY <1>7, HandleMoves DEF FindConversation, At, World
    <2> HIDE DEF Same
    <2> QED
      BY <1>1, <2>1 DEF Editing, Counted, Counting
  <1>8. CASE CreateLead(h)
    <2>1. t.pc = "lead" /\ Same /\ GoesOn(h, "store")
      BY <1>8, HandleMoves DEF CreateLead, At, World
    <2> HIDE DEF Same
    <2> QED
      BY <1>2, <2>1 DEF Editing, Counted, Counting
  <1>9. CASE Increment(h) \/ CreateConversation(h)
    <2>1. t.c \in Jid /\ t.m \in Msg
      BY <1>9 DEF Increment, CreateConversation, At, Placed, Known
    <2>2. unread \in [Jid -> Nat \cup {None}] /\ fresh \in [Jid -> SUBSET Msg]
      BY DEF Shape
    <2>3. /\ fresh'[t.c] = fresh[t.c] \cup {t.m}
          /\ \A c \in Jid \ {t.c} : fresh'[c] = fresh[c]
      BY <1>9, <2>1, <2>2 DEF Increment, CreateConversation, Count
    <2>4. /\ unread'[t.c] = IF unread[t.c] = None THEN 1 ELSE unread[t.c] + 1
          /\ \A c \in Jid \ {t.c} : unread'[c] = unread[c]
      <3>1. CASE Increment(h)
        <4>1. unread[t.c] # None
          BY <3>1, <2>1 DEF Increment, Creating, At
        <4> QED
          BY <2>1, <2>2, <3>1, <4>1 DEF Increment
      <3>2. CASE CreateConversation(h)
        BY <2>1, <2>2, <3>2 DEF CreateConversation
      <3> QED
        BY <1>9, <3>1, <3>2
    <2>5. /\ \E pc \in Counted : GoesOn(h, pc)
          /\ t.pc = "write" /\ UNCHANGED <<row, failed, doubled, emitted>>
      BY <1>9, HandleMoves DEF Increment, CreateConversation, At, World, Counted
    <2>6. Counts(h)
      BY <2>3, <2>4, <2>5 DEF Counts, GoesOn, Moves
    <2> QED
      BY <2>6, CountsCounts
  <1>10. CASE Collide(h)
    <2>1. Rests(h) /\ failed' = failed \cup {t.m} /\ UNCHANGED <<row, fresh, unread, doubled, emitted>>
      BY <1>10, HandleMoves DEF Collide, World
    <2>2. Abandons({h})
      BY <2>1 DEF Abandons, Rests, Others
    <2> QED
      BY <2>2, AbandonsCounts
  <1>11. CASE Store(h)
    <2>1. t.m \in Msg /\ row \in [Msg -> Stored \cup {None}] /\ Rests(h) /\ t.pc = "store"
      BY <1>11, HandleMoves DEF Store, At, Placed, Shape
    <2> DEFINE r == [body |-> 0, original |-> None]
    <2>2. r # None
      <3>1. r \in Stored
        BY InboundAssumption DEF Stored, Text
      <3> QED
        BY <3>1, NoRowAssumption
    <2>3. \A m \in Msg : row'[m] = IF m = t.m /\ row[m] = None THEN r ELSE row[m]
      BY <1>11, <2>1 DEF Store
    <2> HIDE DEF r
    <2>4. \A m \in Msg : Stores(h, m) <=> m = t.m
      BY <2>1 DEF Stores, Editing
    <2>5. /\ \A m \in Msg : row[m] # None => row'[m] # None
          /\ \A m \in Msg : row'[m] # None /\ row[m] = None => m = t.m
          /\ row'[t.m] # None
      BY <2>1, <2>2, <2>3
    <2>6. UNCHANGED <<fresh, unread, failed, doubled, emitted>>
      BY <1>11 DEF Store, World
    <2>7. Concludes(h)
      BY <2>1, <2>4, <2>5, <2>6 DEF Concludes
    <2> QED
      BY <2>7, ConcludesCounts
  <1>12. CASE Unseal(h)
    <2>1. t.pc = "unseal" /\ Same
      BY <1>12 DEF Unseal, At, World
    <2>2. GoesOn(h, "edit") \/ Rests(h)
      BY <1>12, HandleMoves
    <2> HIDE DEF Same
    <2>3. CASE GoesOn(h, "edit")
      BY <1>2, <2>1, <2>3 DEF Editing, Counted, Counting
    <2> QED
      BY <1>3, <2>1, <2>2, <2>3 DEF Editing
  <1>13. CASE FindOriginal(h)
    <2>1. t.pc = "edit" /\ Same
      BY <1>13 DEF FindOriginal, At, World
    <2>2. Rests(h) \/ Moves(h, "rewrite", t.c, t.new, row[t.m])
      BY <1>13, HandleMoves
    <2> HIDE DEF Same
    <2>3. CASE Moves(h, "rewrite", t.c, t.new, row[t.m])
      BY <1>1, <2>1, <2>3 DEF Editing, Counted, Counting
    <2> QED
      BY <1>3, <2>1, <2>2, <2>3 DEF Editing
  <1>14. CASE Rewrite(h)
    <2>1. /\ t.m \in Msg /\ row \in [Msg -> Stored \cup {None}] /\ Rests(h) /\ t.pc = "rewrite"
          /\ t.seen \in Stored /\ t.text \in Text /\ row[t.m] # None
      BY <1>14, HandleMoves DEF Rewrite, At, Placed, Shape, Task, EditsAreSound
    <2> DEFINE r == [body |-> t.text,
                     original |-> IF t.seen.original # None THEN t.seen.original ELSE t.seen.body]
    <2>2. r # None
      <3>1. r \in Stored
        BY <2>1 DEF Stored
      <3> QED
        BY <3>1, NoRowAssumption
    <2>3. \A m \in Msg : row'[m] = IF m = t.m THEN r ELSE row[m]
      BY <1>14, <2>1 DEF Rewrite
    <2> HIDE DEF r
    <2>4. \A m \in Msg : ~Stores(h, m)
      BY <2>1 DEF Stores, Editing
    <2>5. /\ \A m \in Msg : row[m] # None => row'[m] # None
          /\ \A m \in Msg : ~(row'[m] # None /\ row[m] = None)
      BY <2>1, <2>2, <2>3
    <2>6. UNCHANGED <<fresh, unread, failed, doubled, emitted>>
      BY <1>14 DEF Rewrite, World
    <2>7. Concludes(h)
      BY <2>1, <2>4, <2>5, <2>6 DEF Concludes
    <2> QED
      BY <2>7, ConcludesCounts
  <1> QED
    BY <1>4, <1>5, <1>6, <1>7, <1>8, <1>9, <1>10, <1>11, <1>12, <1>13, <1>14 DEF Handle

-----------------------------------------------------------------------------
(***************************************************************************)
(* The other steps: a handler starts or ends, the pair is learned, the     *)
(* chat is read.                                                           *)
(***************************************************************************)
\* Nothing happens to a message on its way.
LEMMA QuietCounts ==
  ASSUME CountInv, \A k \in Handler : task'[k] = task[k] \/ (/\ task[k].pc \in {"idle"} \cup Editing
                                                             /\ task'[k].pc \in {"idle"} \cup Editing),
         UNCHANGED <<row, fresh, unread, failed, doubled, emitted>>
  PROVE  CountInv'
  <1>1. \A k \in Handler, m \in Msg : Stores(k, m)' <=> Stores(k, m)
    BY DEF Stores
  <1>2. \A k \in Handler, m \in Msg : Stores(k, m) => task'[k] = task[k]
    BY DEF Stores
  <1>3. \A m \in Msg : Undisturbed(m) => Undisturbed(m)'
    BY <1>1, <1>2 DEF Undisturbed
  <1>4. \A m \in Msg : Reached(m) => Reached(m)'
    BY <1>1 DEF Reached
  <1> QED
    BY <1>3, <1>4, SameCounts, SpeltOut, SpeltOutNext DEF CountInv, Spelt

\* A message is on its way, once more if it already was.
LEMMA EmitCounts ==
  ASSUME Shape, CountInv, NEW h \in Handler, NEW m \in Msg, Emit(h, m)
  PROVE  CountInv'
  <1>0. Others(h) /\ task'[h].pc = "check" /\ task'[h].m = m /\ task[h].pc = "idle"
    BY StartMoves DEF TaskStarts, Emit, At
  <1>1. \A k \in Handler, x \in Msg : Stores(k, x)' <=> Stores(k, x) \/ (k = h /\ x = m)
    BY <1>0 DEF Stores, Others, Editing
  <1>2. ~Stores(h, m) /\ \A k \in Handler \ {h} : task'[k] = task[k]
    BY <1>0 DEF Stores, Others
  <1>3. /\ UNCHANGED <<row, fresh, unread, failed>> /\ emitted' = emitted \cup {m} /\ doubled \subseteq doubled'
        /\ m \in doubled' \/ Storing(m) = {}
    BY DEF Emit
  <1>4. ASSUME NEW x \in Msg \ {m} PROVE (Undisturbed(x) => Undisturbed(x)') /\ (Reached(x) => Reached(x)')
    <2>1. \A k \in Handler : Stores(k, x)' <=> Stores(k, x)
      BY <1>1
    <2>2. \A k \in Handler : Stores(k, x) => task'[k] = task[k]
      BY <1>0, <1>2 DEF Stores
    <2> QED
      BY <1>3, <2>1, <2>2 DEF Undisturbed, Reached
  <1>5. ASSUME m \notin failed \cup doubled' PROVE Undisturbed(m)'
    <2>1. \A k \in Handler : ~Stores(k, m)
      BY <1>3, <1>5, SpeltOut DEF Spelt
    <2>2. Undisturbed(m)
      BY <1>3, <1>5, SpeltOut DEF Spelt, CountInv
    <2>3. \A k \in Handler : Stores(k, m)' <=> k = h
      BY <1>1, <2>1
    <2>4. \A c \in Jid : ~(m \in fresh[c] /\ row[m] = None)
      BY <2>1, <2>2 DEF Undisturbed
    <2> QED
      BY <1>0, <1>3, <2>3, <2>4 DEF Undisturbed, Counting, Counted
  <1>6. Reached(m)'
    BY <1>1 DEF Reached
  <1>7. \A x \in Msg \ (failed' \cup doubled') : Undisturbed(x)'
    BY <1>3, <1>4, <1>5, SpeltOut DEF Spelt, CountInv
  <1>8. \A x \in Msg : Reached(x)'
    BY <1>4, <1>6, SpeltOut DEF Spelt, CountInv
  <1> QED
    BY <1>3, <1>7, <1>8, SameCounts, SpeltOutNext DEF CountInv, Spelt

LEMMA StartKeeps ==
  ASSUME IInv, NEW h \in Handler, NEW m \in Msg, Emit(h, m) \/ Edit(h, m)
  PROVE  IInv'
  <1>0. Shape /\ Placed /\ ByNumber /\ Creating /\ OneLead /\ EditsAreSound /\ CountInv /\ FirstTextIsKept
    BY DEF IInv, CountInv, NothingIsLost
  <1>1. /\ Typed /\ Others(h) /\ task[h].pc = "idle" /\ task'[h].m = m
        /\ \/ task'[h].pc = "check"
           \/ task'[h].pc \in {"edit", "unseal"} /\ task'[h].text = edits + 1
    <2>1. CASE Emit(h, m)
      BY <1>0, <2>1, StartMoves DEF TaskStarts, Emit, At
    <2>2. CASE Edit(h, m)
      BY <1>0, <2>2, StartMoves DEF TaskStarts, Edit, At
    <2> QED
      BY <2>1, <2>2
  <1>2. UNCHANGED <<form, contacts, unread, leads, row, fresh, blind, failed, halfway>>
    BY DEF Emit, Edit
  <1>3. edits' \in 0..MaxEdits
    BY <1>0, InboundAssumption DEF Emit, Edit, Shape
  <1>4. Shape'
    BY <1>0, <1>1, <1>2, <1>3 DEF Shape, Typed
  <1>5. Placed'
    BY <1>0, <1>1 DEF Placed, At, Others, Known
  <1>6. ByNumber'
    BY <1>0, <1>1, <1>2 DEF ByNumber, Others, Known
  <1>7. Creating' /\ OneLead'
    BY <1>0, <1>1, <1>2 DEF Creating, OneLead, Others, At
  <1>8. EditsAreSound'
    <2>1. edits + 1 # 0
      BY <1>0 DEF Shape
    <2> QED
      BY <1>0, <1>1, <1>2, <2>1 DEF EditsAreSound, Others, At, Editing
  <1>9. FirstTextIsKept'
    BY <1>0, <1>2 DEF FirstTextIsKept
  <1>10. CountInv'
    <2>1. CASE Emit(h, m)
      BY <1>0, <2>1, EmitCounts
    <2>2. CASE Edit(h, m)
      <3>1. task'[h].pc \in {"edit", "unseal"}
        BY <1>0, <2>2, StartMoves DEF TaskStarts
      <3>2. UNCHANGED <<doubled, emitted>>
        BY <2>2 DEF Edit
      <3> QED
        BY <1>0, <1>1, <1>2, <3>1, <3>2, QuietCounts DEF Others, Editing
    <2> QED
      BY <2>1, <2>2
  <1> QED
    BY <1>4, <1>5, <1>6, <1>7, <1>8, <1>9, <1>10 DEF IInv, CountInv, NothingIsLost

\* Handlers end halfway: each leaves its message among the failed, and its contact
\* without a lead if that was next.
LEMMA EndKeeps ==
  ASSUME IInv, NEW hs \in SUBSET Handler, Ended(hs),
         UNCHANGED <<form, mapped, contacts, unread, leads, row, emitted, emissions, edits, fresh, blind, doubled>>
  PROVE  IInv'
  <1>0. Shape /\ Placed /\ ByNumber /\ Creating /\ OneLead /\ EditsAreSound /\ CountInv /\ FirstTextIsKept
    BY DEF IInv, CountInv, NothingIsLost
  <1>1. /\ Typed
        /\ \A k \in Handler : task'[k] = IF k \in hs THEN Resting ELSE task[k]
        /\ \A h \in hs : /\ task[h].pc \notin {"idle"} \cup Editing => task[h].m \in failed'
                         /\ At(h, "lead") => task[h].c \in halfway'
        /\ failed \subseteq failed' /\ halfway \subseteq halfway'
    BY <1>0, EndedMoves
  <1>2. \A k \in Handler : task'[k].pc = "idle" \/ task'[k] = task[k]
    BY <1>1, RestingIsTask
  <1>3. Shape'
    BY <1>0, <1>1, TablesKeepShape DEF Tables
  <1>4. Placed'
    BY <1>0, <1>2 DEF Placed, At, Known
  <1>5. ByNumber'
    BY <1>0, <1>2 DEF ByNumber, Known
  <1>6. Creating'
    BY <1>0, <1>2 DEF Creating, At
  <1>7. OneLead'
    <2>1. ASSUME NEW c \in Jid, c \notin halfway', \A h \in Handler : ~(At(h, "lead") /\ task[h].c = c)'
          PROVE  c \notin halfway /\ \A h \in Handler : ~(At(h, "lead") /\ task[h].c = c)
      BY <1>1, <2>1 DEF At
    <2> QED
      BY <1>0, <2>1 DEF OneLead
  <1>8. EditsAreSound' /\ FirstTextIsKept'
    BY <1>0, <1>2 DEF EditsAreSound, Editing, At, FirstTextIsKept
  <1>9. CountInv'
    <2>1. Abandons(hs)
      BY <1>1 DEF Abandons
    <2> QED
      BY <1>0, <2>1, AbandonsCounts
  <1> QED
    BY <1>3, <1>4, <1>5, <1>6, <1>7, <1>8, <1>9 DEF IInv, CountInv, NothingIsLost

\* The chat is read: nothing in it is new.
LEMMA ReadKeeps ==
  ASSUME IInv, NEW c \in Jid, MarkRead(c)
  PROVE  IInv'
  <1>0. Shape /\ Placed /\ ByNumber /\ Creating /\ OneLead /\ EditsAreSound /\ CountInv /\ FirstTextIsKept
    BY DEF IInv, CountInv, NothingIsLost
  <1>1. /\ UNCHANGED <<form, contacts, leads, row, task, edits, blind, failed, doubled, halfway, emitted>>
        /\ unread[c] # None /\ unread' = [unread EXCEPT ![c] = 0] /\ fresh' = [fresh EXCEPT ![c] = {}]
    BY DEF MarkRead, World
  <1>2. unread \in [Jid -> Nat \cup {None}] /\ fresh \in [Jid -> SUBSET Msg] /\ 0 # None
    BY <1>0, InboundAssumption DEF Shape
  <1>3. \A d \in Jid : /\ unread'[d] = IF d = c THEN 0 ELSE unread[d]
                       /\ fresh'[d] = IF d = c THEN {} ELSE fresh[d]
    BY <1>1, <1>2
  <1>4. Shape'
    BY <1>0, <1>1, <1>2 DEF Shape
  <1>5. Placed' /\ ByNumber' /\ EditsAreSound' /\ FirstTextIsKept'
    BY <1>0, <1>1 DEF Placed, ByNumber, EditsAreSound, FirstTextIsKept, At
  <1>6. \A d \in Jid : unread'[d] = None <=> unread[d] = None
    BY <1>1, <1>2, <1>3
  <1>7. Creating' /\ OneLead'
    <2>1. \A k \in Handler : task[k].pc \in {"lead", "write"} => task[k].c \in Jid
      BY <1>0 DEF Placed, Known
    <2> QED
      BY <1>0, <1>1, <1>6, <2>1 DEF Creating, OneLead, At
  <1>8. CountedOnce'
    <2>1. ASSUME NEW m \in Msg, Undisturbed(m) PROVE Undisturbed(m)'
      <3>1. \A k \in Handler : Stores(k, m)' <=> Stores(k, m)
        BY <1>1 DEF Stores
      <3>2. \A d \in Jid : m \in fresh'[d] => m \in fresh[d]
        BY <1>3
      <3> QED
        BY <1>1, <2>1, <3>1, <3>2 DEF Undisturbed
    <2>2. \A d \in Jid : IsFiniteSet(fresh'[d]) /\ (unread'[d] = None => fresh'[d] = {})
      <3>1. \A d \in Jid : IsFiniteSet(fresh[d]) /\ (unread[d] = None => fresh[d] = {})
        BY <1>0 DEF CountInv, CountedOnce
      <3> QED
        BY <1>2, <1>3, <3>1, FS_EmptySet
    <2> QED
      BY <1>0, <1>1, <2>1, <2>2, SpeltOut, SpeltOutNext DEF CountInv, Spelt
  <1>9. UnreadIsTrue'
    <2> SUFFICES ASSUME NEW d \in Jid, unread'[d] # None, fresh'[d] \cap (failed \cup doubled) = {}
                 PROVE  unread'[d] = Cardinality(fresh'[d])
      BY <1>1 DEF UnreadIsTrue
    <2>1. CASE d = c
      <3>1. unread'[d] = 0 /\ fresh'[d] = {} /\ Cardinality({}) = 0
        BY <1>3, <2>1, FS_EmptySet
      <3> QED
        BY <3>1
    <2>2. CASE d # c
      <3>1. unread'[d] = unread[d] /\ fresh'[d] = fresh[d]
        BY <1>3, <2>2
      <3> QED
        BY <1>0, <3>1 DEF CountInv, UnreadIsTrue
    <2> QED
      BY <2>1, <2>2
  <1>10. HandledIsStored'
    <2>1. HandledIsStored /\ UNCHANGED <<emitted, row, task, failed>>
      BY <1>0, <1>1 DEF CountInv
    <2>2. \A m \in Msg : Storing(m)' = Storing(m)
      BY <2>1 DEF Storing
    <2> QED
      BY <2>1, <2>2 DEF HandledIsStored
  <1> QED
    BY <1>4, <1>5, <1>7, <1>8, <1>9, <1>10 DEF IInv, NothingIsLost

\* The file of pairs is not what these are about.
LEMMA LearnKeeps ==
  ASSUME IInv, UNCHANGED <<form, contacts, unread, leads, row, task, emitted, edits, fresh, blind, failed, doubled, halfway>>
  PROVE  IInv'
  <1>0. Shape /\ Placed /\ ByNumber /\ Creating /\ OneLead /\ EditsAreSound /\ CountInv /\ FirstTextIsKept
    BY DEF IInv, CountInv, NothingIsLost
  <1>1. Shape'
    BY <1>0 DEF Shape
  <1>2. Placed' /\ ByNumber' /\ EditsAreSound' /\ FirstTextIsKept'
    BY <1>0 DEF Placed, ByNumber, EditsAreSound, FirstTextIsKept, At
  <1>3. Creating' /\ OneLead'
    BY <1>0 DEF Creating, OneLead, At
  <1>4. CountInv'
    BY <1>0, QuietCounts
  <1> QED
    BY <1>1, <1>2, <1>3, <1>4 DEF IInv, CountInv, NothingIsLost

-----------------------------------------------------------------------------
(***************************************************************************)
(* The invariant, and the theorems.                                        *)
(***************************************************************************)
LEMMA InitEstablishesInv == Init => IInv
  <1> SUFFICES ASSUME Init PROVE IInv
    OBVIOUS
  <1>1. \A h \in Handler : task[h] = Resting
    BY DEF Init
  <1>2. Shape
    BY InboundAssumption, RestingIsTask DEF Init, Shape
  <1>3. Placed /\ ByNumber /\ EditsAreSound
    BY <1>1, RestingIsTask DEF Init, Placed, ByNumber, EditsAreSound, At, Known, Editing
  <1>4. Creating /\ OneLead
    BY <1>1, RestingIsTask DEF Init, Creating, OneLead, At
  <1>5. \A c \in Jid : fresh[c] = {} /\ IsFiniteSet(fresh[c]) /\ unread[c] = None
    BY FS_EmptySet DEF Init
  <1>6. \A m \in Msg : Storing(m) = {} /\ row[m] = None
    BY <1>1, RestingIsTask DEF Init, Storing
  <1>7. CountedOnce /\ UnreadIsTrue /\ NothingIsLost
    BY <1>5, <1>6 DEF Init, CountedOnce, UnreadIsTrue, NothingIsLost, HandledIsStored, FirstTextIsKept
  <1> QED
    BY <1>2, <1>3, <1>4, <1>7 DEF IInv

LEMMA StepKeepsInv == IInv /\ [Next]_vars => IInv'
  <1> SUFFICES ASSUME IInv, [Next]_vars PROVE IInv'
    OBVIOUS
  <1>0. Shape /\ Placed /\ ByNumber /\ Creating /\ OneLead /\ EditsAreSound /\ CountInv /\ FirstTextIsKept
    BY DEF IInv, CountInv, NothingIsLost
  <1>1. ASSUME NEW h \in Handler, Handle(h) PROVE IInv'
    <2>1. Shape' /\ Placed' /\ ByNumber' /\ Creating' /\ OneLead' /\ EditsAreSound' /\ FirstTextIsKept' /\ CountInv'
      BY <1>0, <1>1, HandleShape, HandlePlaced, HandleByNumber, HandleLead, HandleEdits, HandleCount
    <2> QED
      BY <2>1 DEF IInv, CountInv, NothingIsLost
  <1>2. ASSUME NEW h \in Handler, Fails(h) PROVE IInv'
    BY <1>2, EndKeeps DEF Fails
  <1>3. ASSUME NEW h \in Handler, NEW m \in Msg, Emit(h, m) \/ Edit(h, m) PROVE IInv'
    BY <1>3, StartKeeps
  <1>4. CASE Learn
    BY <1>4, LearnKeeps DEF Learn, World
  <1>5. CASE Crash
    BY <1>5, EndKeeps DEF Crash
  <1>6. ASSUME NEW c \in Jid, MarkRead(c) PROVE IInv'
    BY <1>6, ReadKeeps
  <1>7. CASE UNCHANGED vars
    BY <1>7, LearnKeeps DEF vars
  <1> QED
    BY <1>1, <1>2, <1>3, <1>4, <1>5, <1>6, <1>7 DEF Next

LEMMA InvHolds == Spec => []IInv
  BY InitEstablishesInv, StepKeepsInv, PTL DEF Spec

\* A person who writes for the first time, in however many messages at once, becomes
\* one contact (if every sender was looked up with both forms) with one lead:
\* resolution of the identity, upsert of the contact and creation of the conversation.
THEOREM OnePersonHolds == Spec => []OnePerson
  <1>1. IInv => OnePerson
    BY DEF IInv, ByNumber, OnePerson, OneContact
  <1> QED
    BY <1>1, InvHolds, PTL

\* The badge of a chat is the number of messages counted since it was read, none of
\* them twice: the check for a stored row comes before the count, the row after it.
THEOREM UnreadIsTrueHolds == Spec => []UnreadIsTrue
  <1>1. IInv => UnreadIsTrue
    BY DEF IInv
  <1> QED
    BY <1>1, InvHolds, PTL

\* A message whose handling did not fail is stored when it ends, and the text it was
\* first stored with stays, whatever edits and repeated emissions follow.
THEOREM NothingIsLostHolds == Spec => []NothingIsLost
  <1>1. IInv => NothingIsLost
    BY DEF IInv
  <1> QED
    BY <1>1, InvHolds, PTL

-----------------------------------------------------------------------------
(* The files of the chats. *)

FileKind == {"message", "reply", "sticker"}
FileCopy == [to : FileKind, url : Media!Object, hash : Content \cup {Media!MISSING, None}, holds : Content, into : Media!Row \cup {None}]

MediaTypeOK ==
  /\ rows \in [Media!Row -> Media!FileRow \cup {None}] /\ stored \subseteq Media!Object /\ content \in [Media!Object -> Content]
  /\ copying \subseteq FileCopy /\ job \in [Media!Process -> Media!FileJob \cup {None}]

\* A row that is there, and one that points to a file; a row keeps its kind and what it was made with.
Points(r) == rows[r] # None /\ rows[r].url # None
RowsKeep ==
  \A r \in Media!Row : rows[r] # None =>
    rows'[r] # None /\ rows'[r].kind = rows[r].kind /\ rows'[r].holds = rows[r].holds

\* Pointers are moved among objects of the same bytes only, and hashes are those of the bytes.
TrueRow(r) ==
  Points(r) =>
    /\ content[rows[r].url] = rows[r].holds
    /\ rows[r].kind = "message" /\ rows[r].hash \in Content => rows[r].hash = content[rows[r].url]
TrueCopy(w) ==
  /\ content[w.url] = w.holds
  /\ w.hash \in Content => w.hash = content[w.url]
  /\ w.into # None => w.to = "reply" /\ rows[w.into] # None /\ rows[w.into].kind = "reply" /\ rows[w.into].holds = w.holds

\* A job takes messages, and joins files of the same bytes.
TrueJob(j) ==
  /\ \A r \in j.ids : rows[r] # None /\ rows[r].kind = "message"
  /\ j.kind = "join" => j.ids = {}
  /\ j.at = "repoint" => j.keep \in Media!Object /\ \A o \in j.names : content[o] = content[j.keep]

\* Once a job that works alone has asked whether a file is used, no row comes to point to it
\* but one that is written down.
Asked(j, r) ==
  /\ j.at \in {"protect", "remove"} /\ Points(r) /\ rows[r].kind \in Media!Joined /\ rows[r].url \in j.names => r \in j.ids \cup raced
  /\ j.at = "remove" /\ Points(r) /\ rows[r].kind = "sticker" /\ rows[r].url \in j.names => r \in raced
Guarded(p) ==
  job[p] # None /\ job[p].alone =>
    /\ \A q \in Media!Process : q # p => job[q] = None
    /\ \A r \in Media!Row : Asked(job[p], r)

Excused(r) == r \in raced \cup unfinished \/ \E p \in Media!Process : job[p] # None /\ job[p].at = "forget" /\ r \in job[p].ids
KeptRow(r) == Points(r) => Excused(r) \/ rows[r].url \in stored

MediaInv ==
  /\ MediaTypeOK
  /\ \A r \in Media!Row : TrueRow(r) /\ KeptRow(r)
  /\ \A w \in copying : TrueCopy(w)
  /\ \A p \in Media!Process : (job[p] # None => TrueJob(job[p])) /\ Guarded(p)

LEMMA FilesOfRows ==
  ASSUME Media!MediaAssumption, MediaTypeOK
  PROVE  /\ \A r \in Media!Row : rows[r] # None =>
              /\ rows[r] \in Media!FileRow /\ rows[r].kind \in FileKind /\ rows[r].url \in Media!Object \cup {None}
              /\ rows[r].hash \in Content \cup {Media!MISSING, None} /\ rows[r].holds \in Content
         /\ \A r \in Media!Row : Points(r) => rows[r].url \in Media!Object
         /\ \A w \in copying : w \in FileCopy /\ w.to \in FileKind /\ w.url \in Media!Object /\ w.holds \in Content
              /\ w.hash \in Content \cup {Media!MISSING, None} /\ w.into \in Media!Row \cup {None}
         /\ \A p \in Media!Process : job[p] # None =>
              /\ job[p] \in Media!FileJob /\ job[p].ids \subseteq Media!Row /\ job[p].names \subseteq Media!Object
              /\ job[p].at \in Media!JobSteps /\ job[p].kind \in {"purge", "join"}
         /\ None \notin Media!Row /\ None \notin Media!Object /\ None \notin Content
<1>1. \A r \in Media!Row : rows[r] # None => rows[r] \in Media!FileRow
  BY DEF MediaTypeOK
<1>2. \A r \in Media!Row : rows[r] # None =>
        /\ rows[r].kind \in FileKind /\ rows[r].url \in Media!Object \cup {None}
        /\ rows[r].hash \in Content \cup {Media!MISSING, None} /\ rows[r].holds \in Content
  BY <1>1 DEF Media!FileRow, FileKind
<1>3. \A w \in copying : w \in FileCopy /\ w.to \in FileKind /\ w.url \in Media!Object /\ w.holds \in Content
        /\ w.hash \in Content \cup {Media!MISSING, None} /\ w.into \in Media!Row \cup {None}
  BY DEF MediaTypeOK, FileCopy
<1>4. \A p \in Media!Process : job[p] # None => job[p] \in Media!FileJob
  BY DEF MediaTypeOK
<1>5. \A p \in Media!Process : job[p] # None =>
              /\ job[p].ids \subseteq Media!Row /\ job[p].names \subseteq Media!Object
              /\ job[p].at \in Media!JobSteps /\ job[p].kind \in {"purge", "join"}
  BY <1>4 DEF Media!FileJob
<1>6. None \notin Media!Row /\ None \notin Media!Object /\ None \notin Content
  BY DEF Media!MediaAssumption, Media!Row, Media!Object
<1> QED BY <1>1, <1>2, <1>3, <1>4, <1>5, <1>6 DEF Points

LEMMA PointingIs ==
  ASSUME NEW kinds, NEW names
  PROVE  \A r : r \in Media!Pointing(kinds, names) <=> r \in Media!Row /\ Points(r) /\ rows[r].kind \in kinds /\ rows[r].url \in names
BY DEF Media!Pointing, Media!Rows, Points

\* The parts of the invariant that only rows, or only jobs, can disturb.
LEMMA CopiesStay ==
  ASSUME Media!MediaAssumption, MediaInv, RowsKeep, UNCHANGED content, NEW w \in copying
  PROVE  TrueCopy(w)'
BY FilesOfRows DEF MediaInv, TrueCopy, RowsKeep

LEMMA JobsStay ==
  ASSUME Media!MediaAssumption, MediaInv, RowsKeep, UNCHANGED content, NEW p \in Media!Process, job[p] # None, NEW j, j = job[p]
  PROVE  TrueJob(j)'
BY FilesOfRows DEF MediaInv, TrueJob, RowsKeep

\* Rows change; jobs and objects do not.  A row points to what it did, or is written down, or
\* points to a file of which nobody has asked yet.
LEMMA RowsChange ==
  ASSUME Media!MediaAssumption, MediaInv, MediaTypeOK', RowsKeep, UNCHANGED <<stored, content, job, unfinished>>,
         copying' \subseteq copying, raced \subseteq raced', (\A r \in Media!Row : TrueRow(r))',
         \A r \in Media!Row : Points(r)' =>
           \/ r \in raced'
           \/ Points(r) /\ rows'[r].url = rows[r].url
           \/ rows'[r].url \in stored /\ \A p \in Media!Process : job[p] # None => ~Media!Overlooks(job[p], [to |-> rows'[r].kind, url |-> rows'[r].url])
  PROVE  MediaInv'
<1>1. ASSUME NEW r \in Media!Row PROVE KeptRow(r)'
  <2>1. Excused(r) => Excused(r)'
    BY DEF Excused
  <2>2. KeptRow(r)
    BY DEF MediaInv
  <2> QED BY <2>1, <2>2 DEF KeptRow, Excused, Points
<1>2. \A w \in copying' : TrueCopy(w)'
  BY CopiesStay
<1>3. ASSUME NEW p \in Media!Process PROVE (job'[p] # None => TrueJob(job[p])') /\ Guarded(p)'
  <2>1. job'[p] # None => TrueJob(job[p])'
    BY JobsStay
  <2>2. ASSUME job[p] # None, job[p].alone, NEW r \in Media!Row PROVE Asked(job[p], r)'
    <3>1. Asked(job[p], r)
      BY <2>2 DEF MediaInv, Guarded
    <3>2. Points(r) => rows'[r].kind = rows[r].kind
      BY DEF RowsKeep, Points
    <3>3. CASE ~Points(r)' \/ r \in raced'
      BY <3>3 DEF Asked, Points
    <3>4. CASE Points(r) /\ rows'[r].url = rows[r].url
      BY <3>1, <3>2, <3>4 DEF Asked, Points
    <3>5. CASE ~Media!Overlooks(job[p], [to |-> rows'[r].kind, url |-> rows'[r].url])
      BY <3>5 DEF Asked, Points, Media!Overlooks, Media!Joined
    <3> QED BY <3>3, <3>4, <3>5, <2>2
  <2> QED BY <2>1, <2>2 DEF Guarded, MediaInv
<1> QED BY <1>1, <1>2, <1>3 DEF MediaInv

\* One row becomes another that keeps its kind and its bytes, and points to what it did or to nothing.
LEMMA RowReplaced ==
  ASSUME Media!MediaAssumption, MediaInv, NEW r \in Media!Row, rows[r] # None, NEW entry \in Media!FileRow,
         rows' = [rows EXCEPT ![r] = entry], UNCHANGED <<stored, content, copying, job, raced, unfinished>>,
         entry.kind = rows[r].kind, entry.holds = rows[r].holds, entry.url \in {rows[r].url, None},
         entry.hash = rows[r].hash \/ entry.hash = content[entry.url] \/ entry.hash = Media!MISSING
  PROVE  MediaInv'
<1>1. MediaTypeOK' /\ MediaTypeOK
  BY DEF MediaInv, MediaTypeOK
<1>2. None \notin Media!FileRow
  BY DEF Media!MediaAssumption
<1>3. \A q \in Media!Row : rows'[q] = IF q = r THEN entry ELSE rows[q]
  BY <1>1 DEF MediaTypeOK
<1>4. RowsKeep
  BY <1>2, <1>3 DEF RowsKeep
<1>5. ASSUME NEW q \in Media!Row PROVE TrueRow(q)'
  <2>1. TrueRow(q)
    BY DEF MediaInv
  <2>2. CASE q # r
    BY <2>1, <2>2, <1>3 DEF TrueRow, Points
  <2>3. CASE q = r
    <3>1. rows'[q] = entry /\ rows[q] = rows[r]
      BY <2>3, <1>3
    <3>2. entry.url # None => entry.url = rows[r].url
      OBVIOUS
    <3>3. Media!MISSING \notin Content
      BY DEF Media!MediaAssumption
    <3> QED BY <2>1, <3>1, <3>2, <3>3 DEF TrueRow, Points
  <2> QED BY <2>2, <2>3
<1>6. \A q \in Media!Row : Points(q)' => Points(q) /\ rows'[q].url = rows[q].url
  BY <1>3 DEF Points
<1> QED BY <1>1, <1>4, <1>5, <1>6, RowsChange

LEMMA AgeKeeps ==
  ASSUME Media!MediaAssumption, MediaInv, NEW r \in Media!Row, Media!Age(r)
  PROVE  MediaInv'
<1>1. PICK entry : entry = [rows[r] EXCEPT !.old = TRUE]
  OBVIOUS
<1>2. rows[r] # None /\ rows' = [rows EXCEPT ![r] = entry] /\ UNCHANGED <<stored, content, copying, job, raced, unfinished>>
  BY <1>1 DEF Media!Age, MediaInv, MediaTypeOK
<1>3. rows[r] \in Media!FileRow
  BY <1>2, FilesOfRows DEF MediaInv
<1>4. entry \in Media!FileRow /\ entry.kind = rows[r].kind /\ entry.holds = rows[r].holds /\ entry.url = rows[r].url /\ entry.hash = rows[r].hash
  BY <1>1, <1>3 DEF Media!FileRow
<1> QED BY <1>2, <1>4, RowReplaced

LEMMA ForgetKeeps ==
  ASSUME Media!MediaAssumption, MediaInv, NEW r \in Media!Row, Media!Forget(r)
  PROVE  MediaInv'
<1>1. PICK entry : entry = [rows[r] EXCEPT !.url = None]
  OBVIOUS
<1>2. rows[r] # None /\ rows' = [rows EXCEPT ![r] = entry] /\ UNCHANGED <<stored, content, copying, job, raced, unfinished>>
  BY <1>1 DEF Media!Forget, MediaInv, MediaTypeOK
<1>3. rows[r] \in Media!FileRow
  BY <1>2, FilesOfRows DEF MediaInv
<1>4. entry \in Media!FileRow /\ entry.kind = rows[r].kind /\ entry.holds = rows[r].holds /\ entry.url = None /\ entry.hash = rows[r].hash
  BY <1>1, <1>3 DEF Media!FileRow
<1> QED BY <1>2, <1>4, RowReplaced

LEMMA HashKeeps ==
  ASSUME Media!MediaAssumption, MediaInv, NEW p \in Media!Process, NEW r \in Media!Row, Media!HashMessage(p, r)
  PROVE  MediaInv'
<1>1. PICK hash : hash = IF rows[r].url \in stored THEN content[rows[r].url] ELSE Media!MISSING
  OBVIOUS
<1>2. PICK entry : entry = [rows[r] EXCEPT !.hash = hash]
  OBVIOUS
<1>3. rows[r] # None /\ rows[r].url # None /\ rows' = [rows EXCEPT ![r] = entry] /\ UNCHANGED <<stored, content, copying, job, raced, unfinished>>
  BY <1>1, <1>2 DEF Media!HashMessage, Media!Rows, MediaInv, MediaTypeOK
<1>4. rows[r] \in Media!FileRow /\ rows[r].url \in Media!Object
  BY <1>3, FilesOfRows DEF MediaInv, Points
<1>5. hash \in Content \cup {Media!MISSING, None}
  BY <1>1, <1>4 DEF MediaInv, MediaTypeOK
<1>6. entry \in Media!FileRow /\ entry.kind = rows[r].kind /\ entry.holds = rows[r].holds /\ entry.url = rows[r].url /\ entry.hash = hash
  BY <1>2, <1>4, <1>5 DEF Media!FileRow
<1>7. entry.hash = content[entry.url] \/ entry.hash = Media!MISSING
  BY <1>1, <1>6
<1> QED BY <1>3, <1>6, <1>7, RowReplaced

\* A handler comes to hold a pointer; an object may be new.
LEMMA CopyingGrows ==
  ASSUME Media!MediaAssumption, MediaInv, NEW w \in FileCopy, TrueCopy(w), copying' = copying \cup {w},
         stored' \subseteq Media!Object, stored \subseteq stored', UNCHANGED <<rows, content, job, raced, unfinished>>
  PROVE  MediaInv'
<1>1. MediaTypeOK'
  BY DEF MediaInv, MediaTypeOK
<1>2. \A r \in Media!Row : TrueRow(r)'
  BY DEF MediaInv, TrueRow, Points
<1>3. \A r \in Media!Row : KeptRow(r)'
  BY DEF MediaInv, KeptRow, Points, Excused
<1>4. \A v \in copying' : TrueCopy(v)'
  BY DEF MediaInv, TrueCopy
<1>5. \A p \in Media!Process : job'[p] # None => TrueJob(job[p])'
  BY DEF MediaInv, TrueJob
<1>6. \A p \in Media!Process : Guarded(p)'
  BY DEF MediaInv, Guarded, Asked, Points
<1> QED BY <1>1, <1>2, <1>3, <1>4, <1>5, <1>6 DEF MediaInv

LEMMA UploadKeeps ==
  ASSUME Media!MediaAssumption, MediaInv, NEW o \in Media!Object, NEW to \in FileKind, Media!Upload(o, to)
  PROVE  MediaInv'
<1>1. PICK w : w = [to |-> to, url |-> o, hash |-> None, holds |-> content[o], into |-> None]
  OBVIOUS
<1>2. stored' = stored \cup {o} /\ copying' = copying \cup {w} /\ UNCHANGED <<rows, content, job, raced, unfinished>>
  BY <1>1 DEF Media!Upload, Media!Takes
<1>3. content[o] \in Content /\ stored \subseteq Media!Object
  BY DEF MediaInv, MediaTypeOK
<1>4. w \in FileCopy /\ w.url = o /\ w.holds = content[o] /\ w.hash = None /\ w.into = None
  BY <1>1, <1>3 DEF FileCopy
<1>5. TrueCopy(w)
  BY <1>4, FilesOfRows DEF TrueCopy, MediaInv
<1> QED BY <1>2, <1>3, <1>4, <1>5, CopyingGrows

\* The copy a handler holds once it has read a row.
CopyOf(r, to, hash, into) == [to |-> to, url |-> rows[r].url, hash |-> hash, holds |-> rows[r].holds, into |-> into]

LEMMA CopyIsTrue ==
  ASSUME Media!MediaAssumption, MediaInv, NEW r \in Media!Row, Points(r), NEW to \in FileKind, NEW hash, NEW into,
         hash = None \/ (rows[r].kind = "message" /\ hash = rows[r].hash),
         into = None \/ (into = r /\ rows[r].kind = "reply" /\ to = "reply")
  PROVE  CopyOf(r, to, hash, into) \in FileCopy /\ TrueCopy(CopyOf(r, to, hash, into))
<1>1. Points(r)
  OBVIOUS
<1>2. rows[r] # None /\ rows[r].url \in Media!Object /\ rows[r].holds \in Content /\ rows[r].hash \in Content \cup {Media!MISSING, None}
      /\ stored \subseteq Media!Object
  BY <1>1, FilesOfRows DEF MediaInv, Points, MediaTypeOK
<1>3. PICK w : w = CopyOf(r, to, hash, into)
  OBVIOUS
<1>4. /\ w \in FileCopy /\ w.to = to /\ w.url = rows[r].url /\ w.holds = rows[r].holds
      /\ w.hash = hash /\ w.into = into
  <2>1. PICK url \in Media!Object, holds \in Content : url = rows[r].url /\ holds = rows[r].holds
    BY <1>2
  <2>2. w = [to |-> to, url |-> url, hash |-> hash, holds |-> holds, into |-> into]
        /\ hash \in Content \cup {Media!MISSING, None} /\ into \in Media!Row \cup {None}
    BY <1>2, <1>3, <2>1 DEF CopyOf
  <2>3. w \in FileCopy /\ w.to = to /\ w.url = url /\ w.holds = holds /\ w.hash = hash /\ w.into = into
    BY ONLY <2>2, to \in FileKind, url \in Media!Object, holds \in Content DEF FileCopy
  <2> QED BY <2>1, <2>3
<1>5. TrueRow(r)
  BY DEF MediaInv
<1>6. TrueCopy(w)
  BY <1>1, <1>2, <1>4, <1>5, FilesOfRows DEF TrueCopy, TrueRow, MediaInv
<1> QED BY <1>3, <1>4, <1>6

LEMMA CopiesTaken ==
  ASSUME Media!MediaAssumption, MediaInv
  PROVE  /\ \A r \in Media!Row : Media!ForwardMessage(r) \/ Media!SendSticker(r) \/ Media!AddFromMessage(r) \/ Media!UpdateReply(r) => MediaInv'
         /\ \A o \in Media!Object : Media!SendMedia(o) \/ Media!UploadSticker(o) \/ Media!CreateReply(o) => MediaInv'
<1>1. "message" \in FileKind /\ "reply" \in FileKind /\ "sticker" \in FileKind
  BY DEF FileKind
<1>2. ASSUME NEW r \in Media!Row, Media!ForwardMessage(r) PROVE MediaInv'
  <2>1. rows[r].kind = "message" /\ stored \subseteq Media!Object /\ Points(r) /\ copying' = copying \cup {CopyOf(r, "message", rows[r].hash, None)}
        /\ UNCHANGED <<rows, stored, content, job, raced, unfinished>>
    BY <1>2 DEF Media!ForwardMessage, Media!ReadToCopy, Media!Takes, Media!Rows, Points, CopyOf, MediaInv, MediaTypeOK
  <2>2. CopyOf(r, "message", rows[r].hash, None) \in FileCopy /\ TrueCopy(CopyOf(r, "message", rows[r].hash, None))
    BY <1>1, <2>1, CopyIsTrue
  <2> QED BY <2>1, <2>2, CopyingGrows
<1>3. ASSUME NEW r \in Media!Row, NEW from \in FileKind, NEW to \in FileKind, Media!ReadToCopy(r, from, to, None, None) PROVE MediaInv'
  <2>1. stored \subseteq Media!Object /\ Points(r) /\ copying' = copying \cup {CopyOf(r, to, None, None)}
        /\ UNCHANGED <<rows, stored, content, job, raced, unfinished>>
    BY <1>3 DEF Media!ReadToCopy, Media!Takes, Media!Rows, Points, CopyOf, MediaInv, MediaTypeOK
  <2>2. CopyOf(r, to, None, None) \in FileCopy /\ TrueCopy(CopyOf(r, to, None, None))
    BY <2>1, CopyIsTrue
  <2> QED BY <2>1, <2>2, CopyingGrows
<1>4. ASSUME NEW r \in Media!Row, Media!SendSticker(r) \/ Media!AddFromMessage(r) PROVE MediaInv'
  BY <1>1, <1>3, <1>4 DEF Media!SendSticker, Media!AddFromMessage
<1>5. ASSUME NEW r \in Media!Row, Media!UpdateReply(r) PROVE MediaInv'
  <2>1. rows[r].kind = "reply" /\ stored \subseteq Media!Object /\ Points(r) /\ copying' = copying \cup {CopyOf(r, "reply", None, r)}
        /\ UNCHANGED <<rows, stored, content, job, raced, unfinished>>
    BY <1>5 DEF Media!UpdateReply, Media!ReadToCopy, Media!Takes, Media!Rows, Points, CopyOf, MediaInv, MediaTypeOK
  <2>2. CopyOf(r, "reply", None, r) \in FileCopy /\ TrueCopy(CopyOf(r, "reply", None, r))
    BY <1>1, <2>1, CopyIsTrue
  <2> QED BY <2>1, <2>2, CopyingGrows
<1>6. ASSUME NEW o \in Media!Object, Media!SendMedia(o) \/ Media!UploadSticker(o) \/ Media!CreateReply(o) PROVE MediaInv'
  BY <1>1, <1>6, UploadKeeps DEF Media!SendMedia, Media!UploadSticker, Media!CreateReply
<1> QED BY <1>2, <1>4, <1>5, <1>6

LEMMA WriteKeeps ==
  ASSUME Media!MediaAssumption, MediaInv, NEW w \in copying, Media!WriteCopy(w)
  PROVE  MediaInv'
<1> DEFINE Late == w.url \notin stored \/ \E p \in Media!Process : job[p] # None /\ Media!Overlooks(job[p], w)
<1>1. PICK r \in Media!Row :
       /\ IF w.into # None THEN r = w.into ELSE rows[r] = None
       /\ rows' = [rows EXCEPT ![r] = IF w.into # None THEN [rows[r] EXCEPT !.url = IF @ = None THEN @ ELSE w.url]
                                      ELSE [kind |-> w.to, url |-> w.url, hash |-> w.hash, old |-> FALSE, keep |-> FALSE, holds |-> w.holds]]
       /\ raced' = IF Late THEN raced \cup {r} ELSE raced
  BY DEF Media!WriteCopy
<1>2. PICK url : url = IF rows[r].url = None THEN None ELSE w.url
  OBVIOUS
<1>3. PICK entry : entry = IF w.into # None THEN [rows[r] EXCEPT !.url = url]
                       ELSE [kind |-> w.to, url |-> w.url, hash |-> w.hash, old |-> FALSE, keep |-> FALSE, holds |-> w.holds]
  OBVIOUS
<1>4. rows' = [rows EXCEPT ![r] = entry] /\ copying' \subseteq copying /\ UNCHANGED <<stored, content, job, unfinished>>
  <2>1. w.into # None => entry = [rows[r] EXCEPT !.url = IF @ = None THEN @ ELSE w.url]
    BY <1>2, <1>3
  <2> QED BY <1>1, <1>3, <2>1 DEF Media!WriteCopy
<1>5. w \in FileCopy /\ w.to \in FileKind /\ w.url \in Media!Object /\ w.holds \in Content /\ w.hash \in Content \cup {Media!MISSING, None} /\ TrueCopy(w)
  BY FilesOfRows DEF MediaInv
<1>6. /\ entry \in Media!FileRow /\ entry.kind = w.to /\ entry.holds = w.holds /\ entry.url \in {None, w.url}
      /\ entry.kind = "message" => entry.hash = w.hash
      /\ rows[r] # None => rows[r].kind = entry.kind /\ rows[r].holds = entry.holds
  <2>1. CASE w.into # None
    <3>1. r = w.into /\ rows[r] # None /\ rows[r].kind = "reply" /\ rows[r].holds = w.holds /\ w.to = "reply" /\ rows[r] \in Media!FileRow
      BY <1>1, <1>5, <2>1, FilesOfRows DEF TrueCopy, MediaInv
    <3>2. entry \in Media!FileRow /\ entry.kind = "reply" /\ entry.holds = w.holds /\ entry.url \in {None, w.url}
      BY <1>2, <1>3, <1>5, <2>1, <3>1 DEF Media!FileRow
    <3> QED BY <3>1, <3>2
  <2>2. CASE w.into = None
    BY <1>1, <1>3, <1>5, <2>2 DEF Media!FileRow, FileKind
  <2> QED BY <2>1, <2>2
<1>7. MediaTypeOK /\ None \notin Media!FileRow
  BY DEF MediaInv, Media!MediaAssumption
<1>8. \A q \in Media!Row : rows'[q] = IF q = r THEN entry ELSE rows[q]
  BY <1>4, <1>7 DEF MediaTypeOK
<1>9. MediaTypeOK'
  BY <1>4, <1>6, <1>7 DEF MediaTypeOK
<1>10. RowsKeep
  BY <1>6, <1>7, <1>8 DEF RowsKeep
<1>11. ASSUME NEW q \in Media!Row PROVE TrueRow(q)'
  <2>1. TrueRow(q)
    BY DEF MediaInv
  <2>2. CASE q # r
    BY <2>1, <2>2, <1>4, <1>8 DEF TrueRow, Points
  <2>3. CASE q = r
    BY <2>3, <1>4, <1>5, <1>6, <1>8 DEF TrueRow, TrueCopy, Points
  <2> QED BY <2>2, <2>3
<1>12. ASSUME NEW q \in Media!Row, Points(q)'
       PROVE  \/ q \in raced'
              \/ Points(q) /\ rows'[q].url = rows[q].url
              \/ rows'[q].url \in stored /\ \A p \in Media!Process : job[p] # None => ~Media!Overlooks(job[p], [to |-> rows'[q].kind, url |-> rows'[q].url])
  <2>1. CASE q # r
    BY <2>1, <1>8, <1>12 DEF Points
  <2>2. CASE q = r /\ ~Late
    <3>1. rows'[q].url = w.url /\ rows'[q].kind = w.to
      BY <2>2, <1>6, <1>8, <1>12 DEF Points
    <3> QED BY <2>2, <3>1 DEF Media!Overlooks
  <2>3. CASE q = r /\ Late
    BY <2>3, <1>1
  <2> QED BY <2>1, <2>2, <2>3
<1>13. raced \subseteq raced'
  BY <1>1
<1> HIDE DEF Late
<1> QED BY <1>4, <1>9, <1>10, <1>11, <1>12, <1>13, RowsChange

\* A job of one process becomes another, or ends; the rows, the objects and the copies stay.
LEMMA JobMoves ==
  ASSUME Media!MediaAssumption, MediaInv, NEW p \in Media!Process, job[p] # None, NEW j \in Media!FileJob \cup {None},
         job' = [job EXCEPT ![p] = j], UNCHANGED <<rows, stored, content, copying, unfinished>>, raced \subseteq raced',
         job[p].at # "forget",
         j # None => TrueJob(j) /\ j.alone = job[p].alone /\ (j.alone => \A r \in Media!Row : Asked(j, r))
  PROVE  MediaInv'
<1>1. MediaTypeOK' /\ MediaTypeOK
  BY DEF MediaInv, MediaTypeOK
<1>2. \A q \in Media!Process : job'[q] = IF q = p THEN j ELSE job[q]
  BY <1>1 DEF MediaTypeOK
<1>3. \A r \in Media!Row : TrueRow(r)'
  BY DEF MediaInv, TrueRow, Points
<1>4. ASSUME NEW r \in Media!Row PROVE KeptRow(r)'
  <2>1. Excused(r) => Excused(r)'
    BY <1>2 DEF Excused
  <2> QED BY <2>1 DEF MediaInv, KeptRow, Points
<1>5. \A w \in copying' : TrueCopy(w)'
  BY DEF MediaInv, TrueCopy
<1>6. ASSUME NEW q \in Media!Process, job'[q] # None PROVE TrueJob(job[q])'
  <2>1. \A k : k = job'[q] => (TrueJob(k) => TrueJob(job[q])')
    BY DEF TrueJob
  <2>2. TrueJob(job'[q])
    BY <1>2, <1>6 DEF MediaInv
  <2> QED BY <2>1, <2>2
<1>7. ASSUME NEW q \in Media!Process PROVE Guarded(q)'
  <2>1. Guarded(q) /\ Guarded(p)
    BY DEF MediaInv
  <2>2. CASE q = p
    <3>1. job'[q] = j /\ raced \subseteq raced'
      BY <1>2, <2>2
    <3>2. ASSUME j # None, j.alone, NEW r \in Media!Row PROVE Asked(job[q], r)'
      <4>1. Asked(j, r)
        BY <3>2
      <4> QED BY <3>1, <4>1 DEF Asked, Points
    <3>3. \A o \in Media!Process : o # q => job'[o] = job[o]
      BY <1>2, <2>2
    <3>4. j # None /\ j.alone => \A o \in Media!Process : o # q => job[o] = None
      BY <2>1, <2>2 DEF Guarded
    <3> QED BY <3>1, <3>2, <3>3, <3>4 DEF Guarded
  <2>3. CASE q # p
    BY <1>2, <2>1, <2>3 DEF Guarded
  <2> QED BY <2>2, <2>3
<1> QED BY <1>1, <1>3, <1>4, <1>5, <1>6, <1>7 DEF MediaInv

LEMMA JobOf ==
  ASSUME Media!MediaAssumption, MediaInv, NEW p \in Media!Process, job[p] # None
  PROVE  /\ job[p] \in Media!FileJob /\ TrueJob(job[p]) /\ Guarded(p) /\ None \notin Media!FileJob
         /\ \A q \in Media!Process : q # p /\ job[q] # None => ~job[q].alone
<1>1. job[p] \in Media!FileJob /\ TrueJob(job[p]) /\ Guarded(p) /\ None \notin Media!FileJob
  BY FilesOfRows DEF MediaInv, Media!MediaAssumption
<1>2. \A q \in Media!Process : q # p /\ job[q] # None => ~job[q].alone
  BY DEF MediaInv, Guarded
<1> QED BY <1>1, <1>2

\* The files of a group have the bytes of the hash the group goes by.
LEMMA GroupIsOfOne ==
  ASSUME Media!MediaAssumption, MediaInv, NEW h \in Content, NEW r \in Media!Rows(Media!Joined), Media!HashOf(r) = h
  PROVE  rows[r].url \in Media!Object /\ content[rows[r].url] = h
<1>1. r \in Media!Row /\ Points(r) /\ rows[r].kind \in Media!Joined
  BY DEF Media!Rows, Points
<1>2. rows[r].url \in Media!Object /\ TrueRow(r) /\ None \notin Content
  BY <1>1, FilesOfRows DEF MediaInv
<1> QED BY <1>1, <1>2 DEF Media!HashOf, TrueRow

LEMMA GroupKeeps ==
  ASSUME Media!MediaAssumption, MediaInv, NEW p \in Media!Process, Media!Group(p)
  PROVE  MediaInv'
<1> DEFINE group(h) == {r \in Media!Rows(Media!Joined) : Media!HashOf(r) = h}
           names(h) == {rows[r].url : r \in group(h)}
           safe(h) == Media!ProtectedObjects(names(h))
           next(k, h) == [job[p] EXCEPT !.at = "repoint", !.names = names(h) \ {k}, !.keep = k]
<1>1. /\ job[p] # None /\ job[p].at = "hash" /\ UNCHANGED <<rows, stored, content, copying, raced, unfinished>>
      /\ job[p] \in Media!FileJob /\ TrueJob(job[p]) /\ job \in [Media!Process -> Media!FileJob \cup {None}]
  BY JobOf DEF Media!Group, MediaInv, MediaTypeOK
<1>2. PICK h \in Content :
        IF Media!Cardinality(names(h)) < 2 THEN job' = [job EXCEPT ![p] = None]
        ELSE \E k \in IF safe(h) # {} THEN safe(h) ELSE {rows[r].url : r \in {g \in group(h) : \A q \in group(h) : g <= q}} :
               job' = [job EXCEPT ![p] = IF k \in stored THEN next(k, h) ELSE None]
  BY <1>1 DEF Media!Group
<1>3. \A o \in names(h) : o \in Media!Object /\ content[o] = h
  BY GroupIsOfOne
<1>4. safe(h) \subseteq names(h) /\ {rows[r].url : r \in {g \in group(h) : \A q \in group(h) : g <= q}} \subseteq names(h)
  BY DEF Media!ProtectedObjects, Media!Pointing
<1>5. PICK j : /\ job' = [job EXCEPT ![p] = j]
               /\ j = None \/ (\E k \in names(h) : j = next(k, h))
  <2> HIDE DEF safe, names, group, next
  <2>1. CASE Media!Cardinality(names(h)) < 2
    BY <1>2, <2>1
  <2>2. CASE ~(Media!Cardinality(names(h)) < 2)
    <3>1. PICK k \in names(h) : job' = [job EXCEPT ![p] = IF k \in stored THEN next(k, h) ELSE None]
      BY <1>2, <1>4, <2>2
    <3> QED BY <3>1
  <2> QED BY <2>1, <2>2
<1>6. CASE j = None
  BY <1>1, <1>5, <1>6, JobMoves
<1>7. CASE \E k \in names(h) : j = next(k, h)
  <2>1. PICK k \in names(h) : j = next(k, h)
    BY <1>7
  <2>2. PICK others \in SUBSET Media!Object : others = names(h) \ {k}
    BY <1>3
  <2>3. j = [job[p] EXCEPT !.at = "repoint", !.names = others, !.keep = k]
    BY <2>1, <2>2
  <2>4. k \in Media!Object /\ "repoint" \in Media!JobSteps /\ \A o \in others : content[o] = content[k]
    BY <1>3, <2>2 DEF Media!JobSteps
  <2> HIDE DEF names, group, next, safe
  <2>5. j \in Media!FileJob /\ j.at = "repoint" /\ j.names = others /\ j.keep = k /\ j.kind = job[p].kind /\ j.ids = job[p].ids /\ j.alone = job[p].alone
    <3>1. PICK old \in Media!FileJob : old = job[p]
      BY <1>1
    <3>2. j = [old EXCEPT !.at = "repoint", !.names = others, !.keep = k]
      BY <2>3, <3>1
    <3>3. j = [kind |-> old.kind, at |-> "repoint", ids |-> old.ids, names |-> others, keep |-> k, alone |-> old.alone]
      BY <3>2 DEF Media!FileJob
    <3>4. old.kind \in {"purge", "join"} /\ old.ids \in SUBSET Media!Row /\ old.alone \in BOOLEAN
      BY DEF Media!FileJob
    <3>5. j \in Media!FileJob
      BY <2>4, <3>3, <3>4 DEF Media!FileJob
    <3> QED BY <3>1, <3>3, <3>5
  <2>6. TrueJob(j)
    BY <1>1, <2>4, <2>5 DEF TrueJob
  <2>7. \A r \in Media!Row : Asked(j, r)
    BY <2>5 DEF Asked
  <2> QED BY <1>1, <1>5, <2>5, <2>6, <2>7, JobMoves
<1> QED BY <1>5, <1>6, <1>7

LEMMA CheckUsedKeeps ==
  ASSUME Media!MediaAssumption, MediaInv, NEW p \in Media!Process, Media!CheckUsed(p)
  PROVE  MediaInv'
<1>1. /\ job[p] # None /\ job[p].at = "check" /\ UNCHANGED <<rows, stored, content, copying, raced, unfinished>>
      /\ job[p] \in Media!FileJob /\ TrueJob(job[p]) /\ job \in [Media!Process -> Media!FileJob \cup {None}] /\ job[p].names \subseteq Media!Object
  BY JobOf, FilesOfRows DEF Media!CheckUsed, MediaInv, MediaTypeOK
<1>2. PICK names \in SUBSET Media!Object : names = Media!Unused(job[p].names, job[p].ids)
  BY <1>1 DEF Media!Unused
<1>3. PICK j : j = [job[p] EXCEPT !.names = names, !.at = "protect"]
  OBVIOUS
<1>4. job' = [job EXCEPT ![p].names = names, ![p].at = "protect"] /\ "protect" \in Media!JobSteps
  BY <1>1, <1>2 DEF Media!CheckUsed, Media!JobSteps
<1>5. /\ job' = [job EXCEPT ![p] = j] /\ j \in Media!FileJob /\ j.at = "protect" /\ j.names = names
      /\ j.keep = job[p].keep /\ j.kind = job[p].kind /\ j.ids = job[p].ids /\ j.alone = job[p].alone
  <2>1. job' = [job EXCEPT ![p] = j]
    BY <1>1, <1>3, <1>4
  <2>2. j \in Media!FileJob /\ j.at = "protect" /\ j.names = names
        /\ j.keep = job[p].keep /\ j.kind = job[p].kind /\ j.ids = job[p].ids /\ j.alone = job[p].alone
    BY ONLY <1>1, <1>3, <1>4, names \in SUBSET Media!Object DEF Media!FileJob
  <2> QED BY <2>1, <2>2
<1>6. TrueJob(j)
  BY <1>1, <1>5 DEF TrueJob
<1>7. ASSUME NEW r \in Media!Row, Points(r), rows[r].kind \in Media!Joined, rows[r].url \in names PROVE r \in job[p].ids
  <2>1. r \in Media!Pointing(Media!Joined, {rows[r].url})
    BY <1>7, PointingIs
  <2> QED BY <1>2, <1>7, <2>1 DEF Media!Unused
<1>8. \A r \in Media!Row : Asked(j, r)
  BY <1>5, <1>7 DEF Asked
<1> QED BY <1>1, <1>5, <1>6, <1>8, JobMoves

LEMMA CheckProtectedKeeps ==
  ASSUME Media!MediaAssumption, MediaInv, NEW p \in Media!Process, Media!CheckProtected(p)
  PROVE  MediaInv'
<1>1. /\ job[p] # None /\ job[p].at = "protect" /\ UNCHANGED <<rows, stored, content, copying, raced, unfinished>>
      /\ job[p] \in Media!FileJob /\ TrueJob(job[p]) /\ Guarded(p) /\ job \in [Media!Process -> Media!FileJob \cup {None}] /\ job[p].names \subseteq Media!Object
  BY JobOf, FilesOfRows DEF Media!CheckProtected, MediaInv, MediaTypeOK
<1>2. PICK names \in SUBSET Media!Object : names = job[p].names \ Media!ProtectedObjects(job[p].names)
  BY <1>1
<1>3. PICK j : j = [job[p] EXCEPT !.names = names, !.at = "remove"]
  OBVIOUS
<1>4. job' = [job EXCEPT ![p].names = names, ![p].at = "remove"] /\ "remove" \in Media!JobSteps
  BY <1>1, <1>2 DEF Media!CheckProtected, Media!JobSteps
<1>5. /\ job' = [job EXCEPT ![p] = j] /\ j \in Media!FileJob /\ j.at = "remove" /\ j.names = names
      /\ j.keep = job[p].keep /\ j.kind = job[p].kind /\ j.ids = job[p].ids /\ j.alone = job[p].alone
  <2>1. job' = [job EXCEPT ![p] = j]
    BY <1>1, <1>3, <1>4
  <2>2. j \in Media!FileJob /\ j.at = "remove" /\ j.names = names
        /\ j.keep = job[p].keep /\ j.kind = job[p].kind /\ j.ids = job[p].ids /\ j.alone = job[p].alone
    BY ONLY <1>1, <1>3, <1>4, names \in SUBSET Media!Object DEF Media!FileJob
  <2> QED BY <2>1, <2>2
<1>6. TrueJob(j)
  BY <1>1, <1>5 DEF TrueJob
<1>7. ASSUME NEW r \in Media!Row, Points(r), rows[r].kind = "sticker", rows[r].url \in names PROVE FALSE
  <2>1. r \in Media!Pointing({"sticker"}, job[p].names)
    BY <1>2, <1>7, PointingIs
  <2> QED BY <1>2, <1>7, <2>1 DEF Media!ProtectedObjects
<1>8. ASSUME j.alone, NEW r \in Media!Row PROVE Asked(j, r)
  <2>1. Asked(job[p], r)
    BY <1>1, <1>5, <1>8 DEF Guarded
  <2> QED BY <1>1, <1>2, <1>5, <1>7, <2>1 DEF Asked
<1> QED BY <1>1, <1>5, <1>6, <1>8, JobMoves

\* A job starts, and no job that works at the same time is alone.
LEMMA JobStartKeeps ==
  ASSUME Media!MediaAssumption, MediaInv, NEW p \in Media!Process, NEW what \in {"purge", "join"}, NEW at \in {"hash", "check"},
         NEW ids \in SUBSET Media!Row, NEW names \in SUBSET Media!Object, Media!Start(p, what, at, ids, names),
         \A r \in ids : rows[r] # None /\ rows[r].kind = "message", what = "join" => ids = {}
  PROVE  MediaInv'
<1>1. PICK alone \in BOOLEAN : alone = (\A q \in Media!Process : job[q] = None)
  <2>1. CASE \A q \in Media!Process : job[q] = None
    <3>1. TRUE = (\A q \in Media!Process : job[q] = None)
      BY <2>1
    <3> QED BY <3>1
  <2>2. CASE ~(\A q \in Media!Process : job[q] = None)
    <3>1. FALSE = (\A q \in Media!Process : job[q] = None)
      BY <2>2
    <3> QED BY <3>1
  <2> QED BY <2>1, <2>2
<1>2. PICK j : j = [kind |-> what, at |-> at, ids |-> ids, names |-> names, keep |-> None, alone |-> alone]
  OBVIOUS
<1>3. /\ job[p] = None /\ UNCHANGED <<rows, stored, content, copying, raced, unfinished>>
      /\ job' = [q \in Media!Process |-> IF q = p THEN j ELSE IF job[q] = None THEN None ELSE [job[q] EXCEPT !.alone = FALSE]]
  BY <1>1, <1>2 DEF Media!Start
<1>4. j \in Media!FileJob /\ j.kind = what /\ j.at = at /\ j.ids = ids /\ j.names = names /\ j.alone = alone
  BY <1>2 DEF Media!FileJob, Media!JobSteps
<1>5. None \notin Media!FileJob
  BY DEF Media!MediaAssumption
<1>6. ASSUME NEW q \in Media!Process, q # p, job[q] # None
      PROVE  /\ job'[q] \in Media!FileJob /\ job'[q] # None /\ job'[q].kind = job[q].kind /\ job'[q].at = job[q].at /\ job'[q].ids = job[q].ids
             /\ job'[q].names = job[q].names /\ job'[q].keep = job[q].keep /\ ~job'[q].alone
  <2>1. job[q] \in Media!FileJob
    BY <1>6, FilesOfRows DEF MediaInv
  <2>2. job'[q] = [job[q] EXCEPT !.alone = FALSE]
    BY <1>3, <1>6
  <2> QED BY <1>5, <2>1, <2>2 DEF Media!FileJob
<1>7. job'[p] = j /\ \A q \in Media!Process : q # p /\ job[q] = None => job'[q] = None
  BY <1>3
<1>8. MediaTypeOK'
  <2>1. \A q \in Media!Process : job'[q] \in Media!FileJob \cup {None}
    BY <1>4, <1>6, <1>7
  <2>2. MediaTypeOK
    BY DEF MediaInv
  <2> QED BY <1>3, <2>1, <2>2 DEF MediaTypeOK
<1>9. \A r \in Media!Row : TrueRow(r)'
  BY <1>3 DEF MediaInv, TrueRow, Points
<1>10. ASSUME NEW r \in Media!Row PROVE KeptRow(r)'
  <2>1. Excused(r) => Excused(r)'
    BY <1>3, <1>6 DEF Excused
  <2> QED BY <1>3, <2>1 DEF MediaInv, KeptRow, Points
<1>11. \A w \in copying' : TrueCopy(w)'
  BY <1>3 DEF MediaInv, TrueCopy
<1>12. ASSUME NEW q \in Media!Process, job'[q] # None PROVE TrueJob(job[q])'
  <2>1. CASE q = p
    BY <1>3, <1>4, <1>7, <2>1 DEF TrueJob
  <2>2. CASE q # p
    <3>1. job[q] # None
      BY <1>7, <1>12, <2>2
    <3>2. TrueJob(job[q])
      BY <3>1 DEF MediaInv
    <3> QED BY <1>3, <1>6, <2>2, <3>1, <3>2 DEF TrueJob
  <2> QED BY <2>1, <2>2
<1>13. ASSUME NEW q \in Media!Process PROVE Guarded(q)'
  <2>1. CASE q = p
    <3>1. \A r \in Media!Row : Asked(job[q], r)'
      BY <1>4, <1>7, <2>1 DEF Asked
    <3>2. alone => \A o \in Media!Process : o # q => job'[o] = None
      BY <1>1, <1>7, <2>1
    <3> QED BY <1>4, <1>7, <2>1, <3>1, <3>2 DEF Guarded
  <2>2. CASE q # p
    BY <1>6, <1>7, <2>2 DEF Guarded
  <2> QED BY <2>1, <2>2
<1> QED BY <1>8, <1>9, <1>10, <1>11, <1>12, <1>13 DEF MediaInv

LEMMA JobsStart ==
  ASSUME Media!MediaAssumption, MediaInv
  PROVE  /\ Media!PurgeOldMedia => MediaInv'
         /\ \A r \in Media!Row : Media!DeleteFile(r) => MediaInv'
         /\ \A p \in Media!Process : Media!JoinDuplicates(p) => MediaInv'
<1>1. "api" \in Media!Process
  BY DEF Media!Process
<1>2. ASSUME Media!PurgeOldMedia PROVE MediaInv'
  <2>1. PICK ids \in SUBSET Media!Row, names \in SUBSET Media!Object :
          /\ Media!Start("api", "purge", "check", ids, names)
          /\ \A r \in ids : rows[r] # None /\ rows[r].kind = "message"
    <3>1. \A r \in Media!Rows({"message"}) : r \in Media!Row /\ rows[r] # None /\ rows[r].kind = "message" /\ rows[r].url \in Media!Object
      BY FilesOfRows DEF Media!Rows, Points, MediaInv
    <3> QED BY <1>2, <3>1 DEF Media!PurgeOldMedia
  <2> QED BY <1>1, <2>1, JobStartKeeps
<1>3. ASSUME NEW r \in Media!Row, Media!DeleteFile(r) PROVE MediaInv'
  <2>1. PICK ids \in SUBSET Media!Row, names \in SUBSET Media!Object :
          /\ Media!Start("api", "purge", "check", ids, names)
          /\ \A q \in ids : rows[q] # None /\ rows[q].kind = "message"
    <3>1. rows[r].url \in Media!Object
      BY <1>3, FilesOfRows DEF Media!DeleteFile, Media!Rows, Points, MediaInv
    <3>2. \A q \in Media!Pointing({"message"}, {rows[r].url}) : q \in Media!Row /\ rows[q] # None /\ rows[q].kind = "message"
      BY PointingIs DEF Points
    <3>3. PICK ids \in SUBSET Media!Row, names \in SUBSET Media!Object : ids = Media!Pointing({"message"}, {rows[r].url}) /\ names = {rows[r].url}
      BY <3>1, <3>2
    <3>4. Media!Start("api", "purge", "check", ids, names)
      BY <1>3, <3>3 DEF Media!DeleteFile
    <3> QED BY <3>2, <3>3, <3>4
  <2> QED BY <1>1, <2>1, JobStartKeeps
<1>4. ASSUME NEW p \in Media!Process, Media!JoinDuplicates(p) PROVE MediaInv'
  <2>1. PICK ids \in SUBSET Media!Row, names \in SUBSET Media!Object : ids = {} /\ names = {}
    OBVIOUS
  <2>2. Media!Start(p, "join", "hash", ids, names)
    BY <1>4, <2>1 DEF Media!JoinDuplicates
  <2> QED BY <2>1, <2>2, JobStartKeeps
<1> QED BY <1>2, <1>3, <1>4

LEMMA RepointKeeps ==
  ASSUME Media!MediaAssumption, MediaInv, NEW p \in Media!Process, Media!Repoint(p)
  PROVE  MediaInv'
<1>1. /\ job[p] # None /\ job[p].at = "repoint" /\ UNCHANGED <<stored, content, copying, unfinished>>
      /\ job[p] \in Media!FileJob /\ TrueJob(job[p]) /\ MediaTypeOK /\ None \notin Media!FileRow
      /\ \A q \in Media!Process : q # p /\ job[q] # None => ~job[q].alone
  BY JobOf DEF Media!Repoint, MediaInv, Media!MediaAssumption
<1>2. PICK keep \in Media!Object : keep = job[p].keep
  BY <1>1 DEF TrueJob
<1>3. PICK moved \in SUBSET Media!Row : moved = Media!Pointing(Media!Joined, job[p].names)
  BY DEF Media!Pointing, Media!Rows
<1>4. /\ \A r \in Media!Row : rows'[r] = IF r \in moved THEN [rows[r] EXCEPT !.url = keep] ELSE rows[r]
      /\ rows' = [r \in Media!Row |-> IF r \in moved THEN [rows[r] EXCEPT !.url = keep] ELSE rows[r]]
      /\ raced' = IF keep \in stored THEN raced ELSE raced \cup moved
  BY <1>2, <1>3 DEF Media!Repoint
<1>5. PICK j : j = [job[p] EXCEPT !.at = "check"]
  OBVIOUS
<1>6. job' = [job EXCEPT ![p] = j] /\ j \in Media!FileJob /\ j.at = "check" /\ j.ids = job[p].ids /\ j.kind = job[p].kind /\ j.alone = job[p].alone
  BY <1>1, <1>5 DEF Media!Repoint, Media!FileJob, Media!JobSteps
<1>7. job'[p] = j /\ \A q \in Media!Process : q # p => job'[q] = job[q]
  BY <1>1, <1>6 DEF MediaTypeOK
<1>8. ASSUME NEW r \in moved
      PROVE  /\ rows[r] \in Media!FileRow /\ rows[r] # None /\ rows'[r] \in Media!FileRow /\ rows'[r].url = keep /\ rows'[r].kind = rows[r].kind
             /\ rows'[r].holds = rows[r].holds /\ rows'[r].hash = rows[r].hash
             /\ Points(r) /\ content[keep] = content[rows[r].url]
  <2>1. Points(r) /\ rows[r] # None /\ rows[r] \in Media!FileRow /\ rows[r].url \in job[p].names
    BY <1>3, PointingIs, FilesOfRows DEF Points, MediaInv
  <2>2. rows'[r] = [rows[r] EXCEPT !.url = keep]
    BY <1>4
  <2>3. content[keep] = content[rows[r].url]
    BY <1>1, <1>2, <2>1 DEF TrueJob
  <2>4. rows'[r] \in Media!FileRow /\ rows'[r].url = keep /\ rows'[r].kind = rows[r].kind
        /\ rows'[r].holds = rows[r].holds /\ rows'[r].hash = rows[r].hash
    BY <2>1, <2>2 DEF Media!FileRow
  <2> QED BY <2>1, <2>3, <2>4
<1>9. MediaTypeOK'
  <2>1. \A r \in Media!Row : rows'[r] \in Media!FileRow \cup {None}
    BY <1>1, <1>4, <1>8 DEF MediaTypeOK
  <2>2. rows' \in [Media!Row -> Media!FileRow \cup {None}]
    BY <1>4, <2>1
  <2>3. job' \in [Media!Process -> Media!FileJob \cup {None}]
    BY <1>1, <1>6 DEF MediaTypeOK
  <2> QED BY <1>1, <2>2, <2>3 DEF MediaTypeOK
<1>10. RowsKeep
  BY <1>1, <1>4, <1>8 DEF RowsKeep
<1>11. ASSUME NEW r \in Media!Row PROVE TrueRow(r)'
  <2>1. TrueRow(r)
    BY DEF MediaInv
  <2>2. CASE r \in moved
    BY <1>1, <1>8, <2>1, <2>2 DEF TrueRow, Points
  <2>3. CASE r \notin moved
    BY <1>1, <1>4, <2>1, <2>3 DEF TrueRow, Points
  <2> QED BY <2>2, <2>3
<1>12. ASSUME NEW r \in Media!Row PROVE KeptRow(r)'
  <2>1. Excused(r) => Excused(r)'
    BY <1>1, <1>4, <1>7 DEF Excused
  <2>2. KeptRow(r)
    BY DEF MediaInv
  <2>3. CASE r \in moved
    <3>1. rows'[r].url = keep
      BY <1>8, <2>3
    <3>2. keep \in stored' \/ r \in raced'
      BY <1>1, <1>4, <2>3
    <3>3. r \in raced' => Excused(r)'
      BY DEF Excused
    <3> QED BY <3>1, <3>2, <3>3 DEF KeptRow
  <2>4. CASE r \notin moved
    BY <1>1, <1>4, <2>1, <2>2, <2>4 DEF KeptRow, Points
  <2> QED BY <2>3, <2>4
<1>13. \A w \in copying' : TrueCopy(w)'
  BY <1>1, <1>10, CopiesStay
<1>14. ASSUME NEW q \in Media!Process, job'[q] # None PROVE TrueJob(job[q])'
  <2>1. CASE q = p
    BY <1>1, <1>6, <1>7, <1>10, <2>1, FilesOfRows DEF TrueJob, RowsKeep, MediaInv
  <2>2. CASE q # p
    <3>1. PICK j1 : j1 = job[q]
      OBVIOUS
    <3>2. TrueJob(j1)'
      BY <1>1, <1>7, <1>10, <1>14, <2>2, <3>1, JobsStay
    <3> QED BY <1>7, <2>2, <3>1, <3>2 DEF TrueJob
  <2> QED BY <2>1, <2>2
<1>15. ASSUME NEW q \in Media!Process PROVE Guarded(q)'
  <2>1. CASE q = p
    <3>1. \A r \in Media!Row : Asked(job[q], r)'
      BY <1>6, <1>7, <2>1 DEF Asked
    <3>3. j.alone => \A o \in Media!Process : o # q => job'[o] = None
      BY <1>1, <1>6, <1>7, <2>1, JobOf DEF Guarded
    <3> QED BY <1>6, <1>7, <2>1, <3>1, <3>3 DEF Guarded
  <2>2. CASE q # p
    BY <1>1, <1>7, <2>2 DEF Guarded
  <2> QED BY <2>1, <2>2
<1> QED BY <1>9, <1>11, <1>12, <1>13, <1>14, <1>15 DEF MediaInv

\* A job ends, or turns to the forgetting; the rows stay or forget, and every row is as well kept as it was.
LEMMA JobEnds ==
  ASSUME Media!MediaAssumption, MediaInv, NEW p \in Media!Process, job[p] # None, NEW j \in Media!FileJob \cup {None},
         job' = [job EXCEPT ![p] = j], UNCHANGED <<content, copying>>, stored' \subseteq Media!Object,
         rows' \in [Media!Row -> Media!FileRow \cup {None}], RowsKeep,
         \A r \in Media!Row : Points(r)' => Points(r) /\ rows'[r].url = rows[r].url /\ rows'[r].hash = rows[r].hash,
         j # None => j.at = "forget" /\ j.ids = job[p].ids /\ j.kind = job[p].kind /\ j.alone = job[p].alone,
         \A r \in Media!Row : KeptRow(r)'
  PROVE  MediaInv'
<1>1. /\ TrueJob(job[p]) /\ MediaTypeOK /\ None \notin Media!FileRow
      /\ \A q \in Media!Process : q # p /\ job[q] # None => ~job[q].alone
  BY JobOf DEF MediaInv, Media!MediaAssumption
<1>2. job'[p] = j /\ \A q \in Media!Process : q # p => job'[q] = job[q]
  BY <1>1 DEF MediaTypeOK
<1>3. MediaTypeOK'
  BY <1>1 DEF MediaTypeOK
<1>4. ASSUME NEW r \in Media!Row PROVE TrueRow(r)'
  <2>1. TrueRow(r)
    BY DEF MediaInv
  <2>2. Points(r)' => rows'[r].kind = rows[r].kind /\ rows'[r].holds = rows[r].holds
    BY DEF RowsKeep, Points
  <2> QED BY <2>1, <2>2 DEF TrueRow
<1>5. \A w \in copying' : TrueCopy(w)'
  BY CopiesStay
<1>6. ASSUME NEW q \in Media!Process, job'[q] # None PROVE TrueJob(job[q])'
  <2>1. CASE q = p
    BY <1>1, <1>2, <1>6, <2>1, FilesOfRows DEF TrueJob, RowsKeep, MediaInv
  <2>2. CASE q # p
    <3>1. PICK k : k = job[q]
      OBVIOUS
    <3>2. TrueJob(k)'
      BY <1>2, <1>6, <2>2, <3>1, JobsStay
    <3> QED BY <1>2, <2>2, <3>1, <3>2 DEF TrueJob
  <2> QED BY <2>1, <2>2
<1>7. ASSUME NEW q \in Media!Process PROVE Guarded(q)'
  <2>1. CASE q = p
    <3>1. j # None => \A r \in Media!Row : Asked(job[q], r)'
      BY <1>2, <2>1 DEF Asked
    <3>2. j # None /\ j.alone => \A o \in Media!Process : o # q => job'[o] = None
      BY <1>1, <1>2, <2>1, JobOf DEF Guarded
    <3> QED BY <1>2, <2>1, <3>1, <3>2 DEF Guarded
  <2>2. CASE q # p
    BY <1>1, <1>2, <2>2 DEF Guarded
  <2> QED BY <2>1, <2>2
<1> QED BY <1>3, <1>4, <1>5, <1>6, <1>7 DEF MediaInv

LEMMA RemoveKeeps ==
  ASSUME Media!MediaAssumption, MediaInv, NEW p \in Media!Process, NEW ok \in BOOLEAN, Media!RemoveObjects(p, ok)
  PROVE  MediaInv'
<1>1. /\ job[p] # None /\ job[p].at = "remove" /\ UNCHANGED <<rows, content, copying, unfinished>>
      /\ job[p] \in Media!FileJob /\ TrueJob(job[p]) /\ Guarded(p) /\ MediaTypeOK /\ None \notin Media!FileJob
  BY JobOf DEF Media!RemoveObjects, MediaInv
<1>2. PICK j : j = IF ok /\ job[p].kind = "purge" THEN [job[p] EXCEPT !.at = "forget"] ELSE None
  OBVIOUS
<1>3. job' = [job EXCEPT ![p] = j]
  BY <1>2 DEF Media!RemoveObjects
<1>4. j \in Media!FileJob \cup {None}
      /\ (j # None => j.at = "forget" /\ j.ids = job[p].ids /\ j.kind = job[p].kind /\ j.alone = job[p].alone)
      /\ (ok /\ job[p].kind = "purge" => j # None)
  BY <1>1, <1>2 DEF Media!FileJob, Media!JobSteps
<1>5. job'[p] = j /\ \A q \in Media!Process : q # p => job'[q] = job[q]
  BY <1>1, <1>3 DEF MediaTypeOK
<1>6. stored' \subseteq stored /\ (\A o : o \in stored /\ o \notin stored' => ok /\ o \in job[p].names) /\ raced \subseteq raced'
  BY DEF Media!RemoveObjects
<1>7. ASSUME NEW r \in Media!Row, ok, Points(r), rows[r].url \in job[p].names PROVE r \in raced' \cup job[p].ids
  <2>1. rows[r].kind \in FileKind
    BY <1>7, FilesOfRows DEF MediaInv, Points
  <2>2. CASE job[p].alone
    <3>1. Asked(job[p], r)
      BY <1>1, <2>2 DEF Guarded
    <3> QED BY <1>1, <1>6, <1>7, <2>1, <3>1 DEF Asked, FileKind, Media!Joined
  <2>3. CASE ~job[p].alone
    <3>1. r \in Media!Pointing({"message", "reply", "sticker"}, job[p].names)
      BY <1>7, <2>1, PointingIs DEF FileKind
    <3> QED BY <1>7, <2>3, <3>1 DEF Media!RemoveObjects
  <2> QED BY <2>2, <2>3
<1>8. ASSUME NEW r \in Media!Row PROVE KeptRow(r)'
  <2>1. KeptRow(r)
    BY DEF MediaInv
  <2>2. Excused(r) => Excused(r)'
    BY <1>1, <1>5, <1>6 DEF Excused
  <2>3. ASSUME ok, r \in raced' \cup job[p].ids PROVE Excused(r)'
    <3>1. r \in job[p].ids => job[p].kind = "purge"
      BY <1>1, <2>3 DEF TrueJob, Media!FileJob
    <3> QED BY <1>4, <1>5, <2>3, <3>1 DEF Excused
  <2>4. rows' = rows
    BY <1>1
  <2> QED BY <1>6, <1>7, <2>1, <2>2, <2>3, <2>4 DEF KeptRow, Points
<1>9. stored' \subseteq Media!Object /\ rows' \in [Media!Row -> Media!FileRow \cup {None}]
  BY <1>1, <1>6 DEF MediaTypeOK
<1>10. RowsKeep /\ \A r \in Media!Row : Points(r)' => Points(r) /\ rows'[r].url = rows[r].url /\ rows'[r].hash = rows[r].hash
  BY <1>1 DEF RowsKeep, Points
<1> QED BY <1>1, <1>3, <1>4, <1>8, <1>9, <1>10, JobEnds

LEMMA ForgetFilesKeeps ==
  ASSUME Media!MediaAssumption, MediaInv, NEW p \in Media!Process, Media!ForgetFiles(p)
  PROVE  MediaInv'
<1>1. /\ job[p] # None /\ job[p].at = "forget" /\ UNCHANGED <<stored, content, copying, raced>>
      /\ job[p] \in Media!FileJob /\ TrueJob(job[p]) /\ MediaTypeOK /\ None \notin Media!FileRow
  BY JobOf DEF Media!ForgetFiles, MediaInv, Media!MediaAssumption
<1>2. PICK j \in Media!FileJob \cup {None} : j = None
  OBVIOUS
<1>3. job' = [job EXCEPT ![p] = j]
  BY <1>2 DEF Media!ForgetFiles
<1>4. job'[p] = None /\ \A q \in Media!Process : q # p => job'[q] = job[q]
  BY <1>1, <1>2, <1>3 DEF MediaTypeOK
<1>5. /\ rows' = [r \in Media!Row |-> IF r \in job[p].ids THEN [rows[r] EXCEPT !.url = None] ELSE rows[r]]
      /\ unfinished' = unfinished \ job[p].ids
  BY DEF Media!ForgetFiles
<1>6. ASSUME NEW r \in Media!Row, r \in job[p].ids
      PROVE  /\ rows[r] # None /\ rows'[r] \in Media!FileRow /\ rows'[r].url = None /\ rows'[r].kind = rows[r].kind /\ rows'[r].holds = rows[r].holds
  <2>1. rows[r] # None /\ rows[r] \in Media!FileRow
    BY <1>1, <1>6, FilesOfRows DEF TrueJob, MediaInv
  <2>2. rows'[r] = [rows[r] EXCEPT !.url = None]
    BY <1>5, <1>6
  <2> QED BY <2>1, <2>2 DEF Media!FileRow
<1>7. \A r \in Media!Row : r \notin job[p].ids => rows'[r] = rows[r]
  BY <1>5
<1>8. rows' \in [Media!Row -> Media!FileRow \cup {None}]
  <2>1. \A r \in Media!Row : rows'[r] \in Media!FileRow \cup {None}
    BY <1>1, <1>6, <1>7 DEF MediaTypeOK
  <2> QED BY <1>5, <2>1
<1>9. RowsKeep /\ stored' \subseteq Media!Object
  BY <1>1, <1>6, <1>7 DEF RowsKeep, MediaTypeOK
<1>10. \A r \in Media!Row : Points(r)' => r \notin job[p].ids /\ Points(r) /\ rows'[r].url = rows[r].url /\ rows'[r].hash = rows[r].hash
  BY <1>6, <1>7 DEF Points
<1>11. ASSUME NEW r \in Media!Row PROVE KeptRow(r)'
  <2>1. KeptRow(r)
    BY DEF MediaInv
  <2>2. r \notin job[p].ids /\ Excused(r) => Excused(r)'
    BY <1>1, <1>4, <1>5 DEF Excused
  <2> QED BY <1>1, <1>10, <2>1, <2>2 DEF KeptRow
<1> QED BY <1>1, <1>2, <1>3, <1>8, <1>9, <1>10, <1>11, JobEnds

LEMMA MediaCrashKeeps ==
  ASSUME Media!MediaAssumption, MediaInv, NEW p \in Media!Process, Media!MediaCrash(p)
  PROVE  MediaInv'
<1>1. /\ job[p] # None /\ UNCHANGED <<rows, stored, content, copying, raced>> /\ MediaTypeOK
  BY DEF Media!MediaCrash, MediaInv
<1>2. PICK j \in Media!FileJob \cup {None} : j = None
  OBVIOUS
<1>3. job' = [job EXCEPT ![p] = j]
  BY <1>2 DEF Media!MediaCrash
<1>4. job'[p] = None /\ \A q \in Media!Process : q # p => job'[q] = job[q]
  BY <1>1, <1>2, <1>3 DEF MediaTypeOK
<1>5. unfinished' = IF job[p].at = "forget" THEN unfinished \cup job[p].ids ELSE unfinished
  BY DEF Media!MediaCrash
<1>6. ASSUME NEW r \in Media!Row PROVE KeptRow(r)'
  <2>1. Excused(r) => Excused(r)'
    BY <1>1, <1>4, <1>5 DEF Excused
  <2> QED BY <1>1, <2>1 DEF MediaInv, KeptRow, Points
<1>7. rows' \in [Media!Row -> Media!FileRow \cup {None}] /\ stored' \subseteq Media!Object
  BY <1>1 DEF MediaTypeOK
<1>8. RowsKeep /\ \A r \in Media!Row : Points(r)' => Points(r) /\ rows'[r].url = rows[r].url /\ rows'[r].hash = rows[r].hash
  BY <1>1 DEF RowsKeep, Points
<1> QED BY <1>1, <1>2, <1>3, <1>6, <1>7, <1>8, JobEnds

LEMMA MediaStarts ==
  ASSUME Media!MediaAssumption, Media!MediaInit
  PROVE  MediaInv
<1>1. PICK k1 \in Media!Joined, k2 \in {"message", "reply", "sticker"}, keep \in BOOLEAN :
        rows = [r \in Media!Row |-> IF r = 1 THEN Media!NewRow(k1, 1, FALSE) ELSE IF r = 2 THEN Media!NewRow(k2, 2, keep) ELSE None]
  BY DEF Media!MediaInit
<1>2. 1 \in Media!Object /\ 2 \in Media!Object /\ 1 # None /\ 2 # None /\ None \notin Media!FileRow /\ Media!MISSING \notin Content /\ None \notin Content
  BY DEF Media!MediaAssumption, Media!Object
<1>3. content \in [Media!Object -> Content] /\ stored = {1, 2} /\ copying = {} /\ job = [p \in Media!Process |-> None]
  BY DEF Media!MediaInit
<1>4. PICK one \in Media!FileRow : one = Media!NewRow(k1, 1, FALSE) /\ one.url = 1 /\ one.hash = None /\ one.holds = content[1]
  <2>1. PICK one : one = Media!NewRow(k1, 1, FALSE)
    OBVIOUS
  <2>2. one \in Media!FileRow /\ one.url = 1 /\ one.hash = None /\ one.holds = content[1]
    BY <1>2, <1>3, <2>1 DEF Media!NewRow, Media!FileRow, Media!Joined
  <2> QED BY <2>1, <2>2
<1>5. PICK two \in Media!FileRow : two = Media!NewRow(k2, 2, keep) /\ two.url = 2 /\ two.hash = None /\ two.holds = content[2]
  <2>1. PICK two : two = Media!NewRow(k2, 2, keep)
    OBVIOUS
  <2>2. two \in Media!FileRow /\ two.url = 2 /\ two.hash = None /\ two.holds = content[2]
    BY <1>2, <1>3, <2>1 DEF Media!NewRow, Media!FileRow
  <2> QED BY <2>1, <2>2
<1>6. rows = [r \in Media!Row |-> IF r = 1 THEN one ELSE IF r = 2 THEN two ELSE None]
  BY <1>1, <1>4, <1>5
<1>7. \A r \in Media!Row : rows[r] = one \/ rows[r] = two \/ rows[r] = None
  BY <1>6
<1>8. MediaTypeOK
  BY <1>2, <1>3, <1>6 DEF MediaTypeOK
<1>9. ASSUME NEW r \in Media!Row PROVE TrueRow(r) /\ KeptRow(r)
  BY <1>2, <1>3, <1>4, <1>5, <1>7 DEF TrueRow, KeptRow, Points
<1>10. \A p \in Media!Process : job[p] = None
  BY <1>3
<1> QED BY <1>3, <1>8, <1>9, <1>10 DEF MediaInv, Guarded

LEMMA MediaSteps ==
  ASSUME Media!MediaAssumption, MediaInv, Media!MediaNext
  PROVE  MediaInv'
<1>1. ASSUME NEW r \in Media!Row, Media!Age(r) \/ Media!DeleteFile(r) \/ Media!Forget(r) PROVE MediaInv'
  BY <1>1, AgeKeeps, JobsStart, ForgetKeeps
<1>2. ASSUME NEW r \in Media!Row, Media!ForwardMessage(r) \/ Media!SendSticker(r) \/ Media!AddFromMessage(r) \/ Media!UpdateReply(r) PROVE MediaInv'
  BY <1>2, CopiesTaken
<1>3. ASSUME NEW o \in Media!Object, Media!SendMedia(o) \/ Media!UploadSticker(o) \/ Media!CreateReply(o) PROVE MediaInv'
  BY <1>3, CopiesTaken
<1>4. ASSUME NEW w \in copying, Media!WriteCopy(w) PROVE MediaInv'
  BY <1>4, WriteKeeps
<1>5. ASSUME Media!PurgeOldMedia PROVE MediaInv'
  BY <1>5, JobsStart
<1>6. ASSUME NEW p \in Media!Process, Media!JoinDuplicates(p) \/ Media!Group(p) \/ Media!Repoint(p) \/ Media!CheckUsed(p) PROVE MediaInv'
  BY <1>6, JobsStart, GroupKeeps, RepointKeeps, CheckUsedKeeps
<1>7. ASSUME NEW p \in Media!Process, Media!CheckProtected(p) \/ Media!ForgetFiles(p) \/ Media!MediaCrash(p) PROVE MediaInv'
  BY <1>7, CheckProtectedKeeps, ForgetFilesKeeps, MediaCrashKeeps
<1>8. ASSUME NEW p \in Media!Process, NEW r \in Media!Row, Media!HashMessage(p, r) PROVE MediaInv'
  BY <1>8, HashKeeps
<1>9. ASSUME NEW p \in Media!Process, NEW ok \in BOOLEAN, Media!RemoveObjects(p, ok) PROVE MediaInv'
  BY <1>9, RemoveKeeps
<1> QED BY <1>1, <1>2, <1>3, <1>4, <1>5, <1>6, <1>7, <1>8, <1>9 DEF Media!MediaNext

LEMMA MediaRestsStill ==
  ASSUME MediaInv, UNCHANGED mediaVars
  PROVE  MediaInv'
<1>1. UNCHANGED <<rows, stored, content, copying, job, raced, unfinished>>
  BY DEF mediaVars
<1>2. MediaTypeOK' /\ (\A r \in Media!Row : TrueRow(r)' /\ KeptRow(r)') /\ (\A w \in copying' : TrueCopy(w)')
  BY <1>1 DEF MediaInv, MediaTypeOK, TrueRow, KeptRow, Excused, TrueCopy, Points
<1>3. \A p \in Media!Process : (job'[p] # None => TrueJob(job[p])') /\ Guarded(p)'
  BY <1>1 DEF MediaInv, TrueJob, Guarded, Asked, Points
<1> QED BY <1>2, <1>3 DEF MediaInv

LEMMA MediaKeeps ==
  ASSUME MediaInv
  PROVE  Media!FilesKept
<1>1. ASSUME NEW r \in Media!Rows({"message", "reply", "sticker"}), r \notin raced \cup unfinished,
             ~\E p \in Media!Process : job[p] # None /\ job[p].at = "forget" /\ r \in job[p].ids
      PROVE  rows[r].url \in stored /\ content[rows[r].url] = rows[r].holds
  <2>1. r \in Media!Row /\ Points(r)
    BY DEF Media!Rows, Points
  <2>2. TrueRow(r) /\ KeptRow(r)
    BY <2>1 DEF MediaInv
  <2> QED BY <1>1, <2>1, <2>2 DEF TrueRow, KeptRow, Excused
<1> QED BY <1>1 DEF Media!FilesKept

-----------------------------------------------------------------------------
(* The pictures of the contacts. *)

Stages == {"fetch", "write", "read", "tell", "over"}
ChoreType == [stage : Stages, url : Photos!Photo]

PicturesTypes ==
  /\ kind \in {"contact", "group"} /\ known \in BOOLEAN /\ photo \in Photos!Photo /\ avatar \in Photos!Photo /\ announced \in Photos!Photo
  /\ notified \in Seq({"removed", "changed"}) /\ chores \in Seq(ChoreType) /\ Len(chores) <= MaxFetches /\ turns \in 0..MaxNotices

\* Chores that did not cross: the panels were told of what the row has, or are to be.
ToldOrToBe ==
  "crossed" \notin amiss =>
    /\ announced = avatar \/ (\E t \in DOMAIN chores : chores[t].stage \in {"read", "tell"})
    /\ \A t \in DOMAIN chores : chores[t].stage = "tell" => chores[t].url = avatar

\* The last notice on its way says of the picture as it is.
LastNoticeIsTrue ==
  "behind" \notin amiss /\ notified # <<>> => (notified[Len(notified)] = "removed" <=> photo = 0)

\* Nothing is amiss: the row has the picture, and nobody writes another, or a chore will find it.
SettledRow == avatar = photo /\ \A t \in DOMAIN chores : chores[t].stage = "write" => chores[t].url = photo
Right(t) ==
  \/ chores[t].stage = "fetch" /\ (photo # 0 \/ kind = "group")
  \/ chores[t].stage = "write" /\ chores[t].url = photo
HasOrWill == amiss = {} => notified # <<>> \/ SettledRow \/ (\E t \in DOMAIN chores : Right(t))

PicturesInv == PicturesTypes /\ ToldOrToBe /\ LastNoticeIsTrue /\ HasOrWill

LEMMA PicturesNumbers ==
  ASSUME Photos!PicturesAssumption
  PROVE  /\ MaxPhotos \in Nat /\ MaxNotices \in Nat /\ MaxFetches \in Nat /\ 0 \in Photos!Photo /\ Photos!Photo \subseteq Nat
         /\ 1 \in Photos!Photo
BY DEF Photos!PicturesAssumption, Photos!Photo

LEMMA ChoreGoes ==
  ASSUME NEW s \in Seq(ChoreType), NEW t \in DOMAIN s, NEW c \in ChoreType
  PROVE  /\ [s EXCEPT ![t] = c] \in Seq(ChoreType) /\ Len([s EXCEPT ![t] = c]) = Len(s)
         /\ DOMAIN [s EXCEPT ![t] = c] = DOMAIN s
         /\ \A u \in DOMAIN s : [s EXCEPT ![t] = c][u] = IF u = t THEN c ELSE s[u]
OBVIOUS

LEMMA ChoreComes ==
  ASSUME NEW s \in Seq(ChoreType), NEW c \in ChoreType
  PROVE  /\ Append(s, c) \in Seq(ChoreType) /\ Len(Append(s, c)) = Len(s) + 1 /\ Len(s) \in Nat
         /\ DOMAIN Append(s, c) = DOMAIN s \cup {Len(s) + 1}
         /\ \A u \in DOMAIN s : Append(s, c)[u] = s[u]
         /\ Append(s, c)[Len(s) + 1] = c
<1>1. Append(s, c) \in Seq(ChoreType) /\ Len(Append(s, c)) = Len(s) + 1 /\ Len(s) \in Nat
  OBVIOUS
<1>2. DOMAIN s = 1..Len(s) /\ DOMAIN Append(s, c) = 1..(Len(s) + 1)
  BY <1>1
<1>3. 1..(Len(s) + 1) = (1..Len(s)) \cup {Len(s) + 1}
  BY <1>1
<1>4. \A u \in DOMAIN s : Append(s, c)[u] = s[u]
  BY <1>2
<1> QED BY <1>1, <1>2, <1>3, <1>4

LEMMA NoticeGoes ==
  ASSUME NEW s \in Seq({"removed", "changed"}), s # <<>>
  PROVE  /\ Tail(s) \in Seq({"removed", "changed"}) /\ Len(s) \in Nat
         /\ Tail(s) = <<>> => Head(s) = s[Len(s)]
         /\ Tail(s) # <<>> => Tail(s)[Len(Tail(s))] = s[Len(s)]
<1>1. Tail(s) \in Seq({"removed", "changed"}) /\ Len(s) \in Nat /\ Len(s) >= 1 /\ Len(Tail(s)) = Len(s) - 1
  OBVIOUS
<1>2. Tail(s) = <<>> => Len(s) = 1
  <2>1. \A r : r = <<>> => Len(r) = 0
    OBVIOUS
  <2> QED BY <1>1, <2>1
<1>3. Head(s) = s[1]
  OBVIOUS
<1>4. ASSUME Tail(s) # <<>> PROVE Tail(s)[Len(Tail(s))] = s[Len(s)]
  <2>1. Len(Tail(s)) >= 1 /\ Len(Tail(s)) \in 1..Len(Tail(s)) /\ Len(s) = Len(Tail(s)) + 1
    BY <1>1, <1>4
  <2>2. \A i \in 1..Len(Tail(s)) : Tail(s)[i] = s[i + 1]
    OBVIOUS
  <2> QED BY <2>1, <2>2
<1> QED BY <1>1, <1>2, <1>3, <1>4

LEMMA NoticeComes ==
  ASSUME NEW s \in Seq({"removed", "changed"}), NEW n \in {"removed", "changed"}
  PROVE  /\ Append(s, n) \in Seq({"removed", "changed"}) /\ Append(s, n) # <<>>
         /\ Append(s, n)[Len(Append(s, n))] = n
OBVIOUS

\* A chore turns to another step, and neither the row nor the person changes.
LEMMA ChoreTurns ==
  ASSUME Photos!PicturesAssumption, PicturesInv, NEW t \in DOMAIN chores, NEW c \in ChoreType, chores' = [chores EXCEPT ![t] = c],
         UNCHANGED <<kind, known, photo, avatar, notified, turns>>
  PROVE  /\ (announced' \in Photos!Photo => PicturesTypes') /\ DOMAIN chores' = DOMAIN chores
         /\ \A u \in DOMAIN chores : chores'[u] = IF u = t THEN c ELSE chores[u]
BY ChoreGoes DEF PicturesInv, PicturesTypes

LEMMA TakePictureKeeps ==
  ASSUME Photos!PicturesAssumption, PicturesInv, NEW p \in Photos!Photo, Photos!TakePicture(p)
  PROVE  PicturesInv'
<1>1. PICK note \in {"removed", "changed"} : note = (IF p = 0 THEN "removed" ELSE "changed")
  OBVIOUS
<1>2. /\ turns < MaxNotices /\ turns' = turns + 1 /\ photo' = p /\ UNCHANGED <<kind, known, avatar, chores, announced>>
      /\ \/ notified' = Append(notified, note) /\ amiss' = amiss
         \/ notified' = notified /\ amiss' = amiss \cup {"behind"}
  BY <1>1 DEF Photos!TakePicture, Photos!Amiss
<1>3. turns' \in 0..MaxNotices
  BY <1>2, PicturesNumbers DEF PicturesInv, PicturesTypes
<1>4. PicturesTypes'
  BY <1>2, <1>3, NoticeComes DEF PicturesInv, PicturesTypes
<1>5. ToldOrToBe'
  BY <1>2 DEF PicturesInv, ToldOrToBe
<1>6. LastNoticeIsTrue'
  BY <1>1, <1>2, NoticeComes DEF PicturesInv, PicturesTypes, LastNoticeIsTrue
<1>7. HasOrWill'
  BY <1>2, NoticeComes DEF PicturesInv, PicturesTypes, HasOrWill
<1> QED BY <1>4, <1>5, <1>6, <1>7 DEF PicturesInv

\* A chore is added.
LEMMA ChoreAdded ==
  ASSUME Photos!PicturesAssumption, PicturesInv, NEW c \in ChoreType, c.stage # "tell", Len(chores) < MaxFetches, chores' = Append(chores, c),
         UNCHANGED <<kind, known, photo, avatar, announced, turns>>, notified' \in Seq({"removed", "changed"}),
         "crossed" \notin amiss' => "crossed" \notin amiss
  PROVE  /\ PicturesTypes' /\ ToldOrToBe'
         /\ DOMAIN chores \subseteq DOMAIN chores' /\ \A t \in DOMAIN chores : chores'[t] = chores[t]
         /\ \A t \in DOMAIN chores' : t \in DOMAIN chores \/ chores'[t] = c
         /\ \E t \in DOMAIN chores' : chores'[t] = c
<1>1. chores \in Seq(ChoreType)
  BY DEF PicturesInv, PicturesTypes
<1>2. /\ chores' \in Seq(ChoreType) /\ Len(chores') = Len(chores) + 1 /\ Len(chores) \in Nat
      /\ DOMAIN chores' = DOMAIN chores \cup {Len(chores) + 1}
      /\ \A u \in DOMAIN chores : chores'[u] = chores[u]
      /\ chores'[Len(chores) + 1] = c
  BY <1>1, ChoreComes
<1>3. Len(chores') <= MaxFetches
  BY <1>2, PicturesNumbers
<1>4. PicturesTypes'
  BY <1>2, <1>3 DEF PicturesInv, PicturesTypes
<1>5. /\ DOMAIN chores \subseteq DOMAIN chores' /\ \A t \in DOMAIN chores : chores'[t] = chores[t]
      /\ \A t \in DOMAIN chores' : t \in DOMAIN chores \/ chores'[t] = c
      /\ \E t \in DOMAIN chores' : chores'[t] = c
  BY <1>2
<1>6. ToldOrToBe'
  BY <1>5 DEF PicturesInv, ToldOrToBe
<1> QED BY <1>4, <1>5, <1>6

LEMMA NoticeKeeps ==
  ASSUME Photos!PicturesAssumption, PicturesInv, Photos!Notice
  PROVE  PicturesInv'
<1>1. /\ notified # <<>> /\ notified' = Tail(notified) /\ UNCHANGED <<kind, known, photo, avatar, announced, turns>>
      /\ amiss' = IF ~known THEN amiss \cup {"behind"} ELSE amiss
      /\ notified \in Seq({"removed", "changed"}) /\ kind \in {"contact", "group"} /\ LastNoticeIsTrue
  BY DEF Photos!Notice, Photos!Amiss, PicturesInv, PicturesTypes
<1>2. /\ notified' \in Seq({"removed", "changed"})
      /\ notified' = <<>> => Head(notified) = notified[Len(notified)]
      /\ notified' # <<>> => notified'[Len(notified')] = notified[Len(notified)]
  BY <1>1, NoticeGoes
<1>3. LastNoticeIsTrue'
  BY <1>1, <1>2 DEF LastNoticeIsTrue
<1>4. CASE ~known
  <2>1. chores' = chores /\ amiss' # {} /\ ("crossed" \notin amiss' => "crossed" \notin amiss)
    BY <1>1, <1>4 DEF Photos!Notice
  <2> QED BY <1>1, <1>2, <1>3, <2>1 DEF PicturesInv, PicturesTypes, ToldOrToBe, HasOrWill
<1>5. CASE known
  <2>1. PICK c : c = IF kind = "contact" /\ Head(notified) = "removed" THEN Photos!Chore("write", 0) ELSE Photos!Chore("fetch", 0)
    OBVIOUS
  <2>2. c \in ChoreType /\ c.url = 0 /\ c.stage = IF kind = "contact" /\ Head(notified) = "removed" THEN "write" ELSE "fetch"
    BY <2>1, PicturesNumbers DEF Photos!Chore, ChoreType, Stages
  <2>3. Len(chores) < MaxFetches /\ chores' = Append(chores, c) /\ amiss' = amiss
    BY <1>1, <1>5, <2>1 DEF Photos!Notice, Photos!Starts
  <2>4. /\ PicturesTypes' /\ ToldOrToBe' /\ \E t \in DOMAIN chores' : chores'[t] = c
    BY <1>1, <1>2, <2>2, <2>3, ChoreAdded
  <2>5. ASSUME amiss' = {}, notified' = <<>> PROVE \E t \in DOMAIN chores' : Right(t)'
    <3>1. Head(notified) = "removed" <=> photo = 0
      BY <1>1, <1>2, <2>3, <2>5 DEF LastNoticeIsTrue
    <3> QED BY <1>1, <2>2, <2>4, <3>1 DEF Right
  <2>6. HasOrWill'
    BY <2>5 DEF HasOrWill
  <2> QED BY <1>3, <2>4, <2>6 DEF PicturesInv
<1> QED BY <1>4, <1>5

LEMMA SweepKeeps ==
  ASSUME Photos!PicturesAssumption, PicturesInv, Photos!FillGap \/ Photos!Sweep
  PROVE  PicturesInv'
<1>1. PICK c : c = Photos!Chore("fetch", 0)
  OBVIOUS
<1>2. c \in ChoreType /\ c.stage = "fetch"
  BY <1>1, PicturesNumbers DEF Photos!Chore, ChoreType, Stages
<1>3. Len(chores) < MaxFetches /\ chores' = Append(chores, c) /\ UNCHANGED <<kind, known, photo, avatar, notified, announced, turns, amiss>>
  BY <1>1 DEF Photos!FillGap, Photos!Sweep, Photos!Starts
<1>4. notified' \in Seq({"removed", "changed"})
  BY <1>3 DEF PicturesInv, PicturesTypes
<1>5. /\ PicturesTypes' /\ ToldOrToBe'
      /\ DOMAIN chores \subseteq DOMAIN chores' /\ \A t \in DOMAIN chores : chores'[t] = chores[t]
      /\ \A t \in DOMAIN chores' : t \in DOMAIN chores \/ chores'[t] = c
  BY <1>2, <1>3, <1>4, ChoreAdded
<1>6. LastNoticeIsTrue'
  BY <1>3 DEF PicturesInv, LastNoticeIsTrue
<1>7. HasOrWill'
  <2>1. SettledRow => SettledRow'
    BY <1>2, <1>3, <1>5 DEF SettledRow
  <2>2. \A t \in DOMAIN chores : Right(t) => t \in DOMAIN chores' /\ Right(t)'
    BY <1>3, <1>5 DEF Right
  <2> QED BY <1>3, <2>1, <2>2 DEF PicturesInv, HasOrWill
<1> QED BY <1>5, <1>6, <1>7 DEF PicturesInv

LEMMA FetchKeeps ==
  ASSUME Photos!PicturesAssumption, PicturesInv, NEW t \in DOMAIN chores, Photos!Fetch(t)
  PROVE  PicturesInv'
<1>1. PICK c : /\ chores' = [chores EXCEPT ![t] = c]
               /\ \/ photo # 0 /\ c = Photos!Chore("write", photo) /\ amiss' = amiss
                  \/ c = Photos!Ended /\ amiss' = (IF (photo # 0 \/ kind = "group") /\ (avatar # photo \/ Photos!Busy # {t}) THEN amiss \cup {"unfetched"} ELSE amiss)
  BY DEF Photos!Fetch, Photos!Goes, Photos!Amiss
<1>2. chores[t].stage = "fetch" /\ UNCHANGED <<kind, known, photo, avatar, notified, announced, turns>>
  BY DEF Photos!Fetch
<1>3. photo \in Photos!Photo /\ announced \in Photos!Photo
  BY DEF PicturesInv, PicturesTypes
<1>4. c \in ChoreType /\ c.stage \in {"write", "over"} /\ (c.stage = "write" => photo # 0 /\ c.url = photo /\ amiss' = amiss)
  BY <1>1, <1>3, PicturesNumbers DEF Photos!Chore, Photos!Ended, ChoreType, Stages
<1>5. /\ PicturesTypes' /\ DOMAIN chores' = DOMAIN chores
      /\ \A u \in DOMAIN chores : chores'[u] = IF u = t THEN c ELSE chores[u]
  BY <1>1, <1>2, <1>3, <1>4, ChoreTurns
<1>6. amiss \subseteq amiss' /\ ("crossed" \in amiss' => "crossed" \in amiss) /\ ("behind" \in amiss' => "behind" \in amiss)
  BY <1>1
<1>7. ToldOrToBe'
  BY <1>2, <1>4, <1>5, <1>6 DEF PicturesInv, ToldOrToBe
<1>8. LastNoticeIsTrue'
  BY <1>2, <1>6 DEF PicturesInv, LastNoticeIsTrue
<1>9. ASSUME amiss' = {}, notified' = <<>> PROVE SettledRow' \/ \E u \in DOMAIN chores' : Right(u)'
  <2>1. SettledRow \/ \E u \in DOMAIN chores : Right(u)
    BY <1>2, <1>6, <1>9 DEF PicturesInv, HasOrWill
  <2>2. CASE c.stage = "write"
    <3>1. Right(t)'
      BY <1>2, <1>4, <1>5, <2>2 DEF Right
    <3> QED BY <1>5, <3>1
  <2>3. CASE c.stage = "over"
    <3>1. SettledRow => SettledRow'
      BY <1>2, <1>5, <2>3 DEF SettledRow
    <3>2. \A u \in DOMAIN chores : u # t /\ Right(u) => Right(u)'
      BY <1>2, <1>5 DEF Right
    <3>3. ASSUME Right(t) PROVE SettledRow'
      <4>1. photo # 0 \/ kind = "group"
        BY <1>2, <3>3 DEF Right
      <4>2. avatar = photo /\ Photos!Busy = {t}
        <5>1. c # Photos!Chore("write", photo)
          BY <2>3 DEF Photos!Chore
        <5> QED BY <1>1, <1>9, <4>1, <5>1
      <4>3. \A u \in DOMAIN chores : u # t => chores[u].stage = "over"
        BY <4>2 DEF Photos!Busy
      <4> QED BY <1>2, <1>5, <2>3, <4>2, <4>3 DEF SettledRow
    <3> QED BY <1>5, <2>1, <3>1, <3>2, <3>3
  <2> QED BY <1>4, <2>2, <2>3
<1>10. HasOrWill'
  BY <1>9 DEF HasOrWill
<1> QED BY <1>5, <1>7, <1>8, <1>10 DEF PicturesInv

LEMMA WriteAvatarKeeps ==
  ASSUME Photos!PicturesAssumption, PicturesInv, NEW t \in DOMAIN chores, Photos!WriteAvatar(t)
  PROVE  PicturesInv'
<1>1. PICK c : c = Photos!Chore("read", 0)
  OBVIOUS
<1>2. /\ chores[t].stage = "write" /\ avatar' = chores[t].url /\ chores' = [chores EXCEPT ![t] = c]
      /\ UNCHANGED <<kind, known, photo, notified, announced, turns>>
      /\ amiss' = (IF chores[t].url = photo /\ notified = <<>> THEN amiss \ {"behind", "unfetched"} ELSE amiss)
                    \cup (IF Photos!Busy # {t} THEN {"crossed"} ELSE {})
  BY <1>1 DEF Photos!WriteAvatar, Photos!Goes
<1>3. chores \in Seq(ChoreType) /\ chores[t] \in ChoreType
  BY DEF PicturesInv, PicturesTypes
<1>4. c \in ChoreType /\ c.stage = "read"
  BY <1>1, PicturesNumbers DEF Photos!Chore, ChoreType, Stages
<1>5. /\ chores' \in Seq(ChoreType) /\ Len(chores') = Len(chores) /\ DOMAIN chores' = DOMAIN chores
      /\ \A u \in DOMAIN chores : chores'[u] = IF u = t THEN c ELSE chores[u]
  BY <1>2, <1>3, <1>4, ChoreGoes
<1>6. PicturesTypes'
  BY <1>2, <1>3, <1>5 DEF PicturesInv, PicturesTypes, ChoreType
<1>7. ASSUME "crossed" \notin amiss' PROVE "crossed" \notin amiss /\ \A u \in DOMAIN chores : u # t => chores[u].stage = "over"
  BY <1>2, <1>7 DEF Photos!Busy
<1>8. ToldOrToBe'
  BY <1>4, <1>5, <1>7 DEF ToldOrToBe
<1>9. LastNoticeIsTrue'
  BY <1>2 DEF PicturesInv, LastNoticeIsTrue
<1>10. ASSUME amiss' = {}, notified' = <<>> PROVE SettledRow'
  <2>1. \A u \in DOMAIN chores : u # t => chores[u].stage = "over"
    BY <1>7, <1>10
  <2>2. chores[t].url = photo
    <3>1. CASE amiss = {}
      <4>1. SettledRow \/ \E u \in DOMAIN chores : Right(u)
        BY <1>2, <1>10, <3>1 DEF PicturesInv, HasOrWill
      <4>2. \A u \in DOMAIN chores : Right(u) => u = t
        BY <2>1 DEF Right
      <4> QED BY <1>2, <4>1, <4>2 DEF SettledRow, Right
    <3>2. CASE amiss # {}
      BY <1>2, <1>10, <3>2
    <3> QED BY <3>1, <3>2
  <2> QED BY <1>2, <1>4, <1>5, <2>1, <2>2 DEF SettledRow
<1>11. HasOrWill'
  BY <1>10 DEF HasOrWill
<1> QED BY <1>6, <1>8, <1>9, <1>11 DEF PicturesInv

LEMMA TellingKeeps ==
  ASSUME Photos!PicturesAssumption, PicturesInv, NEW t \in DOMAIN chores, Photos!ReadChats(t) \/ Photos!Announce(t)
  PROVE  PicturesInv'
<1>1. PICK c : /\ chores' = [chores EXCEPT ![t] = c] /\ UNCHANGED <<kind, known, photo, avatar, notified, turns, amiss>>
               /\ \/ chores[t].stage = "read" /\ c = Photos!Chore("tell", avatar) /\ announced' = announced
                  \/ chores[t].stage = "tell" /\ c = Photos!Ended /\ announced' = chores[t].url
  BY DEF Photos!ReadChats, Photos!Announce, Photos!Goes
<1>2. chores[t] \in ChoreType /\ avatar \in Photos!Photo /\ announced \in Photos!Photo
  BY DEF PicturesInv, PicturesTypes
<1>3. c \in ChoreType /\ c.stage \in {"tell", "over"} /\ (c.stage = "tell" => c.url = avatar /\ announced' = announced)
      /\ (c.stage = "over" => announced' = chores[t].url /\ chores[t].stage = "tell")
  BY <1>1, <1>2, PicturesNumbers DEF Photos!Chore, Photos!Ended, ChoreType, Stages
<1>4. announced' \in Photos!Photo
  BY <1>1, <1>2 DEF ChoreType
<1>5. /\ PicturesTypes' /\ DOMAIN chores' = DOMAIN chores
      /\ \A u \in DOMAIN chores : chores'[u] = IF u = t THEN c ELSE chores[u]
  BY <1>1, <1>3, <1>4, ChoreTurns
<1>6. ToldOrToBe'
  BY <1>1, <1>3, <1>5 DEF PicturesInv, ToldOrToBe
<1>7. LastNoticeIsTrue'
  BY <1>1 DEF PicturesInv, LastNoticeIsTrue
<1>8. HasOrWill'
  <2>1. SettledRow => SettledRow'
    BY <1>1, <1>3, <1>5 DEF SettledRow
  <2>2. \A u \in DOMAIN chores : Right(u) => Right(u)'
    BY <1>1, <1>5 DEF Right
  <2> QED BY <1>1, <1>5, <2>1, <2>2 DEF PicturesInv, HasOrWill
<1> QED BY <1>5, <1>6, <1>7, <1>8 DEF PicturesInv

LEMMA PicturesStart ==
  ASSUME Photos!PicturesAssumption, Photos!PicturesInit
  PROVE  PicturesInv
<1>1. photo \in Photos!Photo /\ avatar \in Photos!Photo /\ announced = avatar /\ turns = 0 /\ notified = <<>> /\ chores = <<>>
      /\ kind \in {"contact", "group"} /\ known \in BOOLEAN /\ (amiss = {} => avatar = photo)
  BY PicturesNumbers DEF Photos!PicturesInit
<1>2. notified \in Seq({"removed", "changed"}) /\ chores \in Seq(ChoreType) /\ Len(chores) = 0 /\ DOMAIN chores = {}
  BY <1>1
<1>3. PicturesTypes
  BY <1>1, <1>2, PicturesNumbers DEF PicturesTypes
<1> QED BY <1>1, <1>2, <1>3 DEF PicturesInv, ToldOrToBe, LastNoticeIsTrue, HasOrWill, SettledRow

LEMMA PicturesSteps ==
  ASSUME Photos!PicturesAssumption, PicturesInv, Photos!PicturesNext
  PROVE  PicturesInv'
BY TakePictureKeeps, NoticeKeeps, SweepKeeps, FetchKeeps, WriteAvatarKeeps, TellingKeeps DEF Photos!PicturesNext

LEMMA PicturesRestStill ==
  ASSUME PicturesInv, UNCHANGED pictureVars
  PROVE  PicturesInv'
BY DEF pictureVars, PicturesInv, PicturesTypes, ToldOrToBe, LastNoticeIsTrue, HasOrWill, SettledRow, Right

LEMMA PicturesKeep ==
  ASSUME PicturesInv
  PROVE  Photos!PicturesAreTrue
<1>1. ASSUME notified = <<>>, Photos!Busy = {}, "crossed" \notin amiss PROVE announced = avatar /\ (amiss = {} => avatar = photo)
  <2>1. \A t \in DOMAIN chores : chores[t].stage = "over"
    BY <1>1 DEF Photos!Busy
  <2>2. announced = avatar
    BY <1>1, <2>1 DEF PicturesInv, ToldOrToBe
  <2>3. amiss = {} => avatar = photo
    BY <1>1, <2>1 DEF PicturesInv, HasOrWill, SettledRow, Right
  <2> QED BY <2>2, <2>3
<1>2. Photos!PicturesTypeOK
  <2>1. chores \in Seq(ChoreType)
    BY DEF PicturesInv, PicturesTypes
  <2>2. \A t \in DOMAIN chores : chores[t] \in ChoreType
    BY <2>1
  <2>3. \A t \in DOMAIN chores : chores[t].stage \in Stages /\ chores[t].url \in Photos!Photo
    BY <2>2 DEF ChoreType
  <2> QED BY <2>3 DEF PicturesInv, PicturesTypes, Photos!PicturesTypeOK, Stages
<1> QED BY <1>1, <1>2 DEF Photos!PicturesAreTrue, Photos!PictureIsTrue

-----------------------------------------------------------------------------
(* The services together. *)

\* The part at work keeps what it promises; the others rest.
FilesInv == (part = "media" => MediaInv) /\ (part = "photos" => PicturesInv)

\* A row that points to a file finds it in the bucket with the bytes it was made with, and the
\* row of a contact has the picture the contact has.
THEOREM FilesHold ==
  ASSUME Media!MediaAssumption, Photos!PicturesAssumption
  PROVE  ServicesSpec => []FilesKept
<1>1. ServicesInit => FilesInv
  BY MediaStarts, PicturesStart DEF ServicesInit, Starts, FilesInv
<1>2. FilesInv /\ [ServicesNext]_allVars => FilesInv'
  <2> SUFFICES ASSUME FilesInv, [ServicesNext]_allVars PROVE FilesInv'
    OBVIOUS
  <2>1. part' = part
    BY DEF ServicesNext, allVars
  <2>2. ASSUME part = "media" PROVE MediaInv'
    <3>1. MediaInv /\ (Media!MediaNext \/ UNCHANGED mediaVars)
      BY <2>2 DEF ServicesNext, allVars, FilesInv
    <3> QED BY <3>1, MediaSteps, MediaRestsStill
  <2>3. ASSUME part = "photos" PROVE PicturesInv'
    <3>1. PicturesInv /\ (Photos!PicturesNext \/ UNCHANGED pictureVars)
      BY <2>3 DEF ServicesNext, allVars, FilesInv
    <3> QED BY <3>1, PicturesSteps, PicturesRestStill
  <2> QED BY <2>1, <2>2, <2>3 DEF FilesInv
<1>3. FilesInv => FilesKept
  BY MediaKeeps, PicturesKeep DEF FilesInv, FilesKept
<1> QED BY <1>1, <1>2, <1>3, PTL DEF ServicesSpec
=============================================================================
