------------------------------ MODULE Services ------------------------------
(***************************************************************************)
(* What reaches a company from outside: the messages of WhatsApp, the      *)
(* files it stores, the pictures of its contacts, the lines and keys of    *)
(* its integrations, and the page of a visitor.  The models share no       *)
(* state, so a behaviour is one of a part, and the others rest.            *)
(***************************************************************************)
EXTENDS InboundMessages, Integrations, VisitorPage

CONSTANTS
  MaxRow, MaxObject, Content, First, MaxCopies, MaxJobs,   \* MediaStore
  MaxPhotos, MaxNotices, MaxFetches                        \* Pictures

VARIABLES
  rows, stored, content, copying, job, copies, jobs, raced, unfinished,
  kind, known, photo, avatar, notified, chores, announced, turns, amiss,
  part      \* the part at work

Media == INSTANCE MediaStore
Photos == INSTANCE Pictures

ASSUME Media!MediaAssumption /\ Photos!PicturesAssumption /\ IntegrationAssumption /\ VisitorAssumption

mediaVars == <<rows, stored, content, copying, job, copies, jobs, raced, unfinished>>
pictureVars == <<kind, known, photo, avatar, notified, chores, announced, turns, amiss>>
allVars == <<vars, mediaVars, pictureVars, integrationVars, visitorVars, part>>

\* How a part rests: nobody wrote, nothing was made, or no values at all.
InboundRests == Init /\ form = [m \in Msg |-> Jid] /\ ~mapped
MediaRests ==
  /\ rows = 0 /\ stored = 0 /\ content = 0 /\ copying = 0 /\ job = 0 /\ copies = 0 /\ jobs = 0 /\ raced = 0 /\ unfinished = 0
PhotosRest ==
  /\ kind = 0 /\ known = 0 /\ photo = 0 /\ avatar = 0 /\ notified = 0 /\ chores = 0 /\ announced = 0 /\ turns = 0 /\ amiss = 0
KeysRest == IntegrationInit /\ line[1] = Null /\ key[1] = Null
VisitRests == VisitorInit /\ ~chat

\* One part starts as it does alone.
Starts(inbound, media, photos, keys, visit) ==
  /\ IF part = "inbound" THEN inbound ELSE InboundRests
  /\ IF part = "media" THEN media ELSE MediaRests
  /\ IF part = "photos" THEN photos ELSE PhotosRest
  /\ IF part = "keys" THEN keys ELSE KeysRest
  /\ IF part = "visit" THEN visit ELSE VisitRests

Parts == {"inbound", "media", "photos", "keys", "visit"}
ServicesInit ==
  part \in Parts /\ Starts(Init, Media!MediaInit, Photos!PicturesInit, IntegrationInit, VisitorInit)

ServicesNext ==
  /\ UNCHANGED part
  /\ IF part = "inbound" THEN Next ELSE UNCHANGED vars
  /\ IF part = "media" THEN Media!MediaNext ELSE UNCHANGED mediaVars
  /\ IF part = "photos" THEN Photos!PicturesNext ELSE UNCHANGED pictureVars
  /\ IF part = "keys" THEN IntegrationNext ELSE UNCHANGED integrationVars
  /\ IF part = "visit" THEN VisitorNext ELSE UNCHANGED visitorVars

ServicesSpec == ServicesInit /\ [][ServicesNext]_allVars

-----------------------------------------------------------------------------
(* The parts above say what they promise where they are defined; so do the others. *)

\* MediaStore: a row finds its file in the bucket (purge, deletion, join, copies).
\* Pictures: the row has the picture of the contact (notices, sweeps, setContactAvatar).
FilesKept ==
  /\ part = "media" => Media!FilesKept
  /\ part = "photos" => Photos!PicturesAreTrue
=============================================================================
