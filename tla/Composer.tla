------------------------------ MODULE Composer ------------------------------
(***************************************************************************)
(* The composer of the inbox: the text box and its draft per chat, pending *)
(* files, voice notes and quick replies, and the sends under way while the *)
(* agent types on and moves to another chat.                               *)
(***************************************************************************)
EXTENDS Naturals, FiniteSets

CONSTANTS
  Chat,      \* the chats the agent moves between
  MaxWritten, \* bound: texts, files and voice notes made
  MaxSends,   \* bound: sends
  MaxPending, \* MAX_PENDING_FILES
  None

Written == 1..MaxWritten
ReplyFiles == 2      \* files of the quick reply, one message each

VARIABLES
  made,     \* [Written -> what it is and the chat it was made in, or None]
  here,     \* selectedId
  box,      \* text
  drafts,   \* [Chat -> text kept for the chat]
  pending,  \* pendingFiles
  recorded, \* the voice note being recorded, or None
  picked,   \* a quick reply whose files are being fetched: chat and text, or None
  sends,    \* requests under way
  sending,  \* the flag that blocks a second send
  sent,     \* how many so far
  arrived,  \* what the API stored: <<what, chat>>
  twice,    \* what it stored more than once
  excused,  \* history: what may be gone, and
  again     \* history: what may be stored twice

composerVars == <<made, here, box, drafts, pending, recorded, picked, sends, sending, sent, arrived, twice, excused, again>>

ComposerInit ==
  /\ made = [w \in Written |-> None]
  /\ here \in Chat /\ box = {} /\ drafts = [c \in Chat |-> {}] /\ pending = {}
  /\ recorded = None /\ picked = None
  /\ sends = {} /\ sending = FALSE /\ sent = 0
  /\ arrived = {} /\ twice = {} /\ excused = {} /\ again = {}

Make(w, what) ==
  /\ made[w] = None /\ \A v \in Written : v < w => made[v] # None
  /\ made' = [made EXCEPT ![w] = [what |-> what, chat |-> here]]

ClearedAnyway(c) == box' = {} /\ UNCHANGED drafts
\* clearDraftOf: the box if the chat is still open, its draft if not.
Cleared(c) == /\ box' = IF here = c THEN {} ELSE box
              /\ drafts' = IF here = c THEN drafts ELSE [drafts EXCEPT ![c] = {}]

\* What is written while a send of the chat is out may be overwritten by its end.
Type ==
  /\ recorded = None
  /\ \E w \in Written :
       /\ Make(w, "text") /\ box' = box \cup {w}
       /\ excused' = IF \E s \in sends : s.chat = here THEN excused \cup {w} ELSE excused
  /\ UNCHANGED <<here, drafts, pending, recorded, picked, sends, sending, sent, arrived, twice, again>>

Attach ==
  /\ Cardinality(pending) < MaxPending
  /\ \E w \in Written : Make(w, "file") /\ pending' = pending \cup {w}
  /\ UNCHANGED <<here, box, drafts, recorded, picked, sends, sending, sent, arrived, twice, excused, again>>

\* clearComposer, the broom; the agent wants it gone.
ClearComposer ==
  /\ box \cup pending # {}
  /\ box' = {} /\ pending' = {} /\ excused' = excused \cup box \cup pending
  /\ UNCHANGED <<made, here, drafts, recorded, picked, sends, sending, sent, arrived, twice, again>>

\* The text stays with the chat it was written in; its files do not.
OpenChat(c) ==
  /\ c # here /\ here' = c
  /\ drafts' = [drafts EXCEPT ![here] = box]
  /\ box' = drafts[c]
  /\ pending' = {} /\ excused' = excused \cup pending
  /\ UNCHANGED <<made, recorded, picked, sends, sending, sent, arrived, twice, again>>

Out(kind, text, files, loading) ==
  /\ sent < MaxSends /\ sent' = sent + 1
  /\ sends' = sends \cup {[id |-> sent, chat |-> here, kind |-> kind, text |-> text, files |-> files, loading |-> loading]}
  /\ again' = again \cup UNION {s.text \cap text : s \in {x \in sends : x.kind = "reply"}}

SendText ==
  /\ ~sending /\ pending = {} /\ box # {} /\ recorded = None
  /\ Out("text", box, {}, FALSE) /\ sending' = TRUE /\ box' = {}
  /\ UNCHANGED <<made, here, drafts, pending, recorded, picked, arrived, twice, excused>>

\* One message per file; the text goes with the first and stays in the box till then.
\* A picked reply's files are from now on like any other (lastQuickReplyRef is null).
SendPendingFiles ==
  /\ ~sending /\ pending # {} /\ recorded = None
  /\ Out("files", box, pending, FALSE) /\ sending' = TRUE
  /\ made' = [w \in Written |-> IF w \in pending THEN [made[w] EXCEPT !.what = "file"] ELSE made[w]]
  /\ UNCHANGED <<here, box, drafts, pending, recorded, picked, arrived, twice, excused>>

\* The text holds the shortcut of a quick reply with files.  They are fetched first,
\* and nothing blocks the Enter key in the meantime.
SendReply ==
  /\ ~sending /\ pending = {} /\ box # {} /\ recorded = None
  /\ Out("reply", box, 1..ReplyFiles, TRUE)
  /\ UNCHANGED <<made, here, box, drafts, pending, recorded, picked, sending, arrived, twice, excused>>

ReplyLoaded(s, ok) ==
  /\ s.loading
  /\ sends' = (sends \ {s}) \cup IF ok THEN {[s EXCEPT !.loading = FALSE]} ELSE {}
  /\ sending' = (sending \/ ok)
  /\ UNCHANGED <<made, here, box, drafts, pending, recorded, picked, sent, arrived, twice, excused, again>>

\* A reply picked from the list takes the place of the one picked before, whose
\* files go; its own files come later.
PickReply ==
  /\ picked = None /\ box # {} /\ recorded = None /\ sent < MaxSends /\ sent' = sent + 1
  /\ picked' = [chat |-> here, text |-> box]
  /\ LET before == {w \in pending : made[w].what = "reply"}
     IN  pending' = pending \ before /\ excused' = excused \cup before
  /\ UNCHANGED <<made, here, box, drafts, recorded, sends, sending, arrived, twice, again>>

\* They are there, unless the fetch failed or another chat is open: they join the
\* pending files while there is room (as one here), and the text of then is put
\* back over whatever the box holds by now.
ReplyPicked(ok) ==
  /\ picked # None /\ picked' = None
  /\ IF ok /\ here = picked.chat
     THEN /\ box' = picked.text /\ again' = again \cup picked.text
          /\ excused' = excused \cup (box \ picked.text)
          /\ IF Cardinality(pending) < MaxPending
             THEN \E w \in Written : Make(w, "reply") /\ pending' = pending \cup {w}
             ELSE UNCHANGED <<made, pending>>
     ELSE UNCHANGED <<box, again, excused, made, pending>>
  /\ UNCHANGED <<here, drafts, recorded, sends, sending, sent, arrived, twice>>

StartRecording ==
  /\ recorded = None /\ box = {} /\ pending = {}
  /\ \E w \in Written : Make(w, "voice") /\ recorded' = w
  /\ UNCHANGED <<here, box, drafts, pending, picked, sends, sending, sent, arrived, twice, excused, again>>

\* The note goes to the chat open when it ends, or nowhere if a send is out.
StopRecording(confirm) ==
  /\ recorded # None /\ recorded' = None
  /\ IF confirm /\ ~sending
     THEN Out("voice", {recorded}, {}, FALSE) /\ sending' = TRUE /\ excused' = excused \cup box
     ELSE excused' = excused \cup {recorded} /\ UNCHANGED <<sends, sent, sending, again>>
  /\ UNCHANGED <<made, here, box, drafts, pending, picked, arrived, twice>>

Store(s, what) ==
  /\ arrived' = arrived \cup {<<w, s.chat>> : w \in what}
  /\ twice' = twice \cup {w \in what : \E c \in Chat : <<w, c>> \in arrived}

\* The answer of a text or a voice note: stored or not, and known or not.
TextAnswered(s, stored, ok) ==
  /\ s.kind \in {"text", "voice"} /\ (ok => stored)
  /\ sends' = sends \ {s} /\ sending' = FALSE
  /\ IF stored THEN Store(s, s.text) ELSE UNCHANGED <<arrived, twice>>
  /\ again' = IF stored /\ ~ok THEN again \cup s.text ELSE again
  /\ excused' = IF s.kind = "voice" /\ ~ok THEN excused \cup s.text ELSE excused
  /\ CASE s.kind = "text" /\ ok -> UNCHANGED <<box, drafts>>
       [] s.kind = "text" /\ ~ok ->
            /\ box' = IF here = s.chat THEN s.text ELSE box
            /\ drafts' = IF here = s.chat THEN drafts ELSE [drafts EXCEPT ![s.chat] = s.text]
       [] s.kind = "voice" /\ ok -> Cleared(s.chat)
       [] OTHER -> UNCHANGED <<box, drafts>>
  /\ UNCHANGED <<made, here, pending, recorded, picked, sent>>

\* One file of several: the text is taken off with the first that is known to go,
\* and the failed ones stay to be sent again.
FileAnswered(s, f, stored, ok) ==
  /\ s.kind = "files" /\ f \in s.files /\ (ok => stored)
  /\ LET what == {f} \cup s.text
         left == s.files \ {f}
     IN /\ IF stored THEN Store(s, what) ELSE UNCHANGED <<arrived, twice>>
        /\ again' = IF stored /\ ~ok THEN again \cup what ELSE again
        /\ IF ok /\ s.text # {} THEN Cleared(s.chat) ELSE UNCHANGED <<box, drafts>>
        /\ pending' = IF ok /\ here = s.chat THEN pending \ {f} ELSE pending
        /\ sends' = (sends \ {s}) \cup
             IF left = {} THEN {} ELSE {[s EXCEPT !.files = left, !.text = IF ok THEN {} ELSE @]}
        /\ sending' = (left # {})
  /\ UNCHANGED <<made, here, recorded, picked, sent, excused>>

\* The files of a quick reply, in order: the text goes only with the first.
ReplyAnswered(s, stored, ok) ==
  /\ s.kind = "reply" /\ ~s.loading /\ (ok => stored)
  /\ LET left == {f \in s.files : \E g \in s.files : g < f}
     IN /\ IF stored THEN Store(s, s.text) ELSE UNCHANGED <<arrived, twice>>
        /\ again' = IF stored /\ ~ok THEN again \cup s.text ELSE again
        /\ excused' = IF ok THEN excused ELSE excused \cup s.text
        /\ IF ok THEN Cleared(s.chat) ELSE UNCHANGED <<box, drafts>>
        /\ sends' = (sends \ {s}) \cup IF left = {} THEN {} ELSE {[s EXCEPT !.files = left, !.text = {}]}
        /\ sending' = (left # {})
  /\ UNCHANGED <<made, here, pending, recorded, picked, sent>>

ComposerNext ==
  \/ Type \/ Attach \/ ClearComposer \/ SendText \/ SendPendingFiles \/ SendReply
  \/ PickReply \/ StartRecording
  \/ \E c \in Chat : OpenChat(c)
  \/ \E b \in BOOLEAN : StopRecording(b) \/ ReplyPicked(b)
  \/ \E s \in sends, ok \in BOOLEAN :
       \/ ReplyLoaded(s, ok)
       \/ \E stored \in BOOLEAN :
            TextAnswered(s, stored, ok) \/ ReplyAnswered(s, stored, ok) \/ \E f \in s.files : FileAnswered(s, f, stored, ok)

-----------------------------------------------------------------------------
Held == box \cup UNION {drafts[c] : c \in Chat} \cup pending \cup (IF recorded = None THEN {} ELSE {recorded})
          \cup (IF picked = None THEN {} ELSE picked.text)
          \cup UNION {s.text \cup (IF s.kind = "files" THEN s.files ELSE {}) : s \in sends}

\* Nothing the agent made is gone without having been sent, but for what the broom or a
\* second reply takes away and for these (excused): text typed while a send of its chat
\* is out; files of a chat that is left; a voice note that fails, or is stopped while a
\* send is out, or cancelled; a draft in the box when a voice note is sent (line 1668);
\* text written between picking a reply and its files (2353); the text of a shortcut
\* whose first file fails while the answer of the second clears the box (1781-1783, 1668).
KeptOrSent ==
  \A w \in Written : made[w] # None => w \in Held \cup excused \/ \E c \in Chat : <<w, c>> \in arrived

\* What is sent reaches the chat it was written in, a voice note the chat open when it
\* ends, and once, unless an answer was lost or a reply was sent or picked twice.
SentOnceWhereWritten ==
  /\ \A p \in arrived : p[2] = made[p[1]].chat \/ made[p[1]].what = "voice"
  /\ twice \subseteq again
=============================================================================
