------------------------------ MODULE Pictures ------------------------------
(***************************************************************************)
(* The picture of a contact or of a group: WhatsApp has it, the row keeps  *)
(* its link, the panels are told.  A notice of WhatsApp, a message of a    *)
(* contact without picture, the sweep after a connection, the one of the   *)
(* clock and the one an agent asks for fetch it at any time, each on its   *)
(* own, and none knows of the others.                                      *)
(***************************************************************************)
EXTENDS Naturals, Sequences

CONSTANTS
  MaxPhotos,   \* bound: pictures the person has had
  MaxNotices,  \* bound: changes of the picture
  MaxFetches   \* bound: chores of the worker

PicturesAssumption == MaxPhotos \in Nat \ {0} /\ MaxNotices \in Nat \ {0} /\ MaxFetches \in Nat \ {0}

VARIABLES
  kind,      \* "contact" or "group"
  known,     \* the row is under the id WhatsApp gives notice with
  photo,     \* the picture as WhatsApp has it; 0 is none
  avatar,    \* avatarUrl of the row
  notified,  \* notices on their way: "removed" or "changed"
  chores,    \* what the worker does about it
  announced, \* what the panels were last told
  turns,     \* changes of the picture
  amiss      \* history: what went wrong that nothing mends

pictureVars == <<kind, known, photo, avatar, notified, chores, announced, turns, amiss>>

Photo == 0..MaxPhotos
Ended == [stage |-> "over", url |-> 0]
Chore(stage, url) == [stage |-> stage, url |-> url]
Busy == {t \in DOMAIN chores : chores[t].stage # "over"}
Goes(t, stage, url) == chores' = [chores EXCEPT ![t] = Chore(stage, url)]
Starts(chore) == Len(chores) < MaxFetches /\ chores' = Append(chores, chore)
Amiss(why, if) == amiss' = IF if THEN amiss \cup {why} ELSE amiss

PicturesTypeOK ==
  /\ kind \in {"contact", "group"} /\ known \in BOOLEAN /\ photo \in Photo /\ avatar \in Photo
  /\ announced \in Photo /\ Len(chores) <= MaxFetches /\ turns \in 0..MaxNotices
  /\ \A t \in DOMAIN chores : chores[t].stage \in {"fetch", "write", "read", "tell", "over"} /\ chores[t].url \in Photo

\* The row may have no picture yet.
PicturesInit ==
  /\ kind \in {"contact", "group"} /\ known \in BOOLEAN /\ photo \in {0, 1} /\ avatar \in {0, photo}
  /\ announced = avatar /\ notified = <<>> /\ chores = <<>> /\ turns = 0
  /\ amiss = IF avatar = photo THEN {} ELSE {"behind"}

-----------------------------------------------------------------------------
\* The person takes another picture or none; the line is told if it is connected.
TakePicture(p) ==
  /\ turns < MaxNotices /\ turns' = turns + 1 /\ p # photo /\ photo' = p
  /\ \/ notified' = Append(notified, IF p = 0 THEN "removed" ELSE "changed") /\ UNCHANGED amiss
     \/ UNCHANGED notified /\ Amiss("behind", TRUE)
  /\ UNCHANGED <<kind, known, avatar, chores, announced>>

\* A contact's notice says whether it is gone; a group's says nothing, and is always fetched.
Notice ==
  /\ notified # <<>> /\ notified' = Tail(notified)
  /\ IF ~known THEN UNCHANGED chores
     ELSE Starts(IF kind = "contact" /\ Head(notified) = "removed" THEN Chore("write", 0) ELSE Chore("fetch", 0))
  /\ Amiss("behind", ~known)
  /\ UNCHANGED <<kind, known, photo, avatar, announced, turns>>

\* A message of somebody without picture, and the sweep after a connection.
FillGap ==
  /\ avatar = 0 /\ Starts(Chore("fetch", 0))
  /\ UNCHANGED <<kind, known, photo, avatar, notified, announced, turns, amiss>>
\* The sweep of the clock, and the one an agent asks for.
Sweep ==
  /\ Starts(Chore("fetch", 0))
  /\ UNCHANGED <<kind, known, photo, avatar, notified, announced, turns, amiss>>

\* profilePictureUrl: nothing is written without a link, and it may fail.  Only the notice of
\* a contact says that a picture is gone.
Fetch(t) ==
  /\ chores[t].stage = "fetch"
  /\ \/ /\ photo # 0 /\ Goes(t, "write", photo) /\ UNCHANGED amiss
     \/ /\ chores' = [chores EXCEPT ![t] = Ended]
        /\ Amiss("unfetched", (photo # 0 \/ kind = "group") /\ (avatar # photo \/ Busy # {t}))
  /\ UNCHANGED <<kind, known, photo, avatar, notified, announced, turns>>

WriteAvatar(t) ==
  /\ chores[t].stage = "write" /\ avatar' = chores[t].url /\ Goes(t, "read", 0)
  /\ amiss' = (IF chores[t].url = photo /\ notified = <<>> THEN amiss \ {"behind", "unfetched"} ELSE amiss)
       \cup (IF Busy # {t} THEN {"crossed"} ELSE {})
  /\ UNCHANGED <<kind, known, photo, notified, announced, turns>>

\* The chats of the contact are read again, with its link, and told.
ReadChats(t) ==
  /\ chores[t].stage = "read" /\ Goes(t, "tell", avatar)
  /\ UNCHANGED <<kind, known, photo, avatar, notified, announced, turns, amiss>>
Announce(t) ==
  /\ chores[t].stage = "tell" /\ announced' = chores[t].url /\ chores' = [chores EXCEPT ![t] = Ended]
  /\ UNCHANGED <<kind, known, photo, avatar, notified, turns, amiss>>

PicturesNext ==
  \/ \E p \in Photo : TakePicture(p)
  \/ Notice \/ FillGap \/ Sweep
  \/ \E t \in DOMAIN chores : Fetch(t) \/ WriteAvatar(t) \/ ReadChats(t) \/ Announce(t)

PicturesSpec == PicturesInit /\ [][PicturesNext]_pictureVars

-----------------------------------------------------------------------------
(* When nothing is under way, the row has the link of the picture the      *)
(* person has, or none, and the panels were told                           *)
(* (session-manager.ts:405-433, 1113-1236).  Excepted: a notice that did   *)
(* not come or has another id than the row, until a fetch finds a picture, *)
(* a fetch that failed, or of a group found none, and chores that crossed. *)
PictureIsTrue ==
  notified = <<>> /\ Busy = {} /\ "crossed" \notin amiss =>
    /\ announced = avatar
    /\ amiss = {} => avatar = photo

PicturesAreTrue == PicturesTypeOK /\ PictureIsTrue
=============================================================================
