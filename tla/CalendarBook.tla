---------------------------- MODULE CalendarBook ----------------------------
(***************************************************************************)
(* The appointments of ONE company and their copies in Google Calendar     *)
(* (calendar.service.ts, google-calendar.service.ts): every request reads  *)
(* the connection, calls Google with the tokens it read, stores a token    *)
(* Google renewed meanwhile, and only then changes the row.  The panel may *)
(* connect another account, or none, between any two of those.             *)
(***************************************************************************)
EXTENDS Naturals, FiniteSets

CONSTANTS Account,      \* Google accounts of the company
          Appointment,  \* rows of CalendarEvent, and the events they name
          Caller,       \* requests at once
          None,
          MaxConnects, MaxCalls, MaxFaults   \* bounds

\* BackOffice assumes it.
CalendarAssumption ==
  None \notin Account \cup Appointment /\ MaxConnects \in Nat /\ MaxCalls \in Nat /\ MaxFaults \in Nat

VARIABLES
  integration,   \* whose access token and whose refresh token are stored, or None
  granted,       \* the accounts Google still lets us in
  google,        \* where the event of each appointment is: an account, "no" or "deleted"
  appointments,  \* the rows there are
  call,          \* what each request is at
  connects, calls, faults,
  apart          \* history: appointments whose row and event were parted by something no code sees

calendarVars == <<integration, granted, google, appointments, call, connects, calls, faults, apart>>

Tokens == [access : Account, refresh : Account]
Resting == [op |-> "none", at |-> "done", on |-> None, tokens |-> None, fresh |-> None]

CalendarInit ==
  /\ integration = None /\ granted = {} /\ google = [e \in Appointment |-> "no"] /\ appointments = {}
  /\ call = [c \in Caller |-> Resting] /\ connects = 0 /\ calls = 0 /\ faults = 0 /\ apart = {}

At(c, at) == call[c].at = at
Go(c, at) == call' = [call EXCEPT ![c].at = at]
Ends(c) == call' = [call EXCEPT ![c] = Resting]
Kept == UNCHANGED <<connects, calls>>

Ask(c, op, e, at) ==
  /\ At(c, "done") /\ calls < MaxCalls /\ calls' = calls + 1
  /\ call' = [call EXCEPT ![c] = [Resting EXCEPT !.op = op, !.on = e, !.at = at]]
  /\ UNCHANGED <<integration, granted, google, appointments, connects, faults, apart>>

Create(c) == \E e \in Appointment :
  /\ google[e] = "no" /\ \A d \in Caller : call[d].on # e
  /\ Ask(c, "create", e, "read")
Delete(c) == \E e \in appointments : Ask(c, "delete", e, "find")
ListRange(c) == Ask(c, "list", None, "read")

\* deleteAppointment looks for the row first.
FindAppointment(c) ==
  /\ At(c, "find") /\ IF call[c].on \in appointments THEN Go(c, "read") ELSE Ends(c)
  /\ Kept /\ UNCHANGED <<integration, granted, google, appointments, faults, apart>>

\* Without a connection nothing can be made, the list is empty, and only the row is deleted.
ReadIntegration(c) ==
  /\ At(c, "read") /\ Kept /\ UNCHANGED <<integration, granted, google, appointments, faults>>
  /\ IF integration # None
     THEN call' = [call EXCEPT ![c].at = "google", ![c].tokens = integration] /\ UNCHANGED apart
     ELSE IF call[c].op = "delete" THEN Go(c, "row") /\ apart' = apart \cup {call[c].on}
     ELSE Ends(c) /\ UNCHANGED apart

\* As whom the client calls Google: with the access token while it lasts, or else
\* with one that the refresh token gives it.
Clients(t) ==
  {[as |-> a, fresh |-> None] : a \in {t.access} \cap granted} \cup {[as |-> a, fresh |-> a] : a \in {t.refresh} \cap granted}

\* An event that is not there any more, or not in this account, is taken for deleted.
CallGoogle(c) ==
  /\ At(c, "google")
  /\ \E client \in Clients(call[c].tokens) :
       LET e == call[c].on
           missed == call[c].op = "delete" /\ google[e] # client.as
       IN /\ google' = CASE call[c].op = "create" -> [google EXCEPT ![e] = client.as]
                         [] call[c].op = "delete" /\ ~missed -> [google EXCEPT ![e] = "deleted"]
                         [] OTHER -> google
          /\ apart' = IF missed /\ google[e] \in Account THEN apart \cup {e} ELSE apart
          /\ call' = [call EXCEPT ![c].at = "persist", ![c].fresh = client.fresh]
  /\ Kept /\ UNCHANGED <<integration, granted, appointments, faults>>

\* The call fails and so does the request: no way in, or an error of the network, on
\* its way there or back.
Throw(c) == Ends(c) /\ UNCHANGED <<google, appointments, apart>>
GoogleFails(c) ==
  /\ At(c, "google") /\ (Clients(call[c].tokens) = {} \/ faults < MaxFaults)
  /\ faults' = IF Clients(call[c].tokens) = {} THEN faults ELSE faults + 1
  /\ IF call[c].op = "delete" THEN Throw(c) ELSE Ends(c) /\ UNCHANGED <<google, appointments, apart>>
  /\ Kept /\ UNCHANGED <<integration, granted>>
AnswerLost(c) ==
  /\ At(c, "google") /\ call[c].op \in {"create", "delete"} /\ faults < MaxFaults /\ faults' = faults + 1
  /\ \E client \in Clients(call[c].tokens) :
       google' = [google EXCEPT ![call[c].on] =
                    IF call[c].op = "create" THEN client.as ELSE IF @ = client.as THEN "deleted" ELSE @]
  /\ apart' = apart \cup {call[c].on} /\ Ends(c)
  /\ Kept /\ UNCHANGED <<integration, granted, appointments>>

\* persistRefresh: the access token alone, into whatever connection is stored by now;
\* without one it throws, after Google has done its part.
Persist(c) ==
  /\ At(c, "persist") /\ Kept /\ UNCHANGED <<granted, google, appointments, faults>>
  /\ IF call[c].fresh # None /\ integration = None
     THEN Ends(c) /\ apart' = apart \cup ({call[c].on} \cap Appointment) /\ UNCHANGED integration
     ELSE /\ integration' = IF call[c].fresh = None THEN integration ELSE [integration EXCEPT !.access = call[c].fresh]
          /\ IF call[c].op = "list" THEN Ends(c) ELSE Go(c, "row")
          /\ UNCHANGED apart

\* The row at last; a delete finds that another request has deleted it.
WriteRow(c) ==
  /\ At(c, "row") /\ Ends(c)
  /\ IF call[c].op = "create"
     THEN appointments' = appointments \cup {call[c].on} /\ UNCHANGED apart
     ELSE /\ appointments' = appointments \ {call[c].on}
          /\ apart' = IF google[call[c].on] \in Account THEN apart ELSE apart \ {call[c].on}
  /\ Kept /\ UNCHANGED <<integration, granted, google, faults>>
RowFails(c) ==
  /\ At(c, "row") /\ Ends(c) /\ faults < MaxFaults /\ faults' = faults + 1 /\ apart' = apart \cup {call[c].on}
  /\ Kept /\ UNCHANGED <<integration, granted, google, appointments>>

-----------------------------------------------------------------------------
\* The consent screen of an account, and the upsert of what it gave.
Consent(c) ==
  /\ At(c, "done") /\ connects < MaxConnects /\ connects' = connects + 1
  /\ \E a \in Account :
       /\ granted' = granted \cup {a}
       /\ call' = [call EXCEPT ![c] = [Resting EXCEPT !.op = "connect", !.at = "upsert",
                                                      !.tokens = [access |-> a, refresh |-> a]]]
  /\ UNCHANGED <<integration, google, appointments, calls, faults, apart>>
Connect(c) ==
  /\ At(c, "upsert") /\ integration' = call[c].tokens /\ Ends(c)
  /\ Kept /\ UNCHANGED <<granted, google, appointments, faults, apart>>

\* disconnect: what was read is revoked, as well as that goes, and whatever is stored deleted.
Disconnect(c) ==
  /\ integration # None /\ Ask(c, "disconnect", None, "revoke")
ReadToRevoke(c) ==
  /\ At(c, "revoke")
  /\ call' = [call EXCEPT ![c].at = IF integration = None THEN "drop" ELSE "revoking", ![c].tokens = integration]
  /\ Kept /\ UNCHANGED <<integration, granted, google, appointments, faults, apart>>
Revoke(c) ==
  /\ At(c, "revoking") /\ Go(c, "drop")
  /\ \E done \in BOOLEAN : granted' = IF done THEN granted \ {call[c].tokens.refresh} ELSE granted
  /\ Kept /\ UNCHANGED <<integration, google, appointments, faults, apart>>
DropIntegration(c) ==
  /\ At(c, "drop") /\ integration' = None /\ Ends(c)
  /\ Kept /\ UNCHANGED <<granted, google, appointments, faults, apart>>

\* Somebody deletes the event in Google Calendar itself.
DeletedInGoogle ==
  \E e \in Appointment :
    /\ google[e] \in Account /\ google' = [google EXCEPT ![e] = "deleted"] /\ apart' = apart \cup {e}
    /\ faults < MaxFaults /\ faults' = faults + 1
    /\ Kept /\ UNCHANGED <<integration, granted, appointments, call>>

CalendarNext ==
  \/ \E c \in Caller :
       \/ Create(c) \/ Delete(c) \/ ListRange(c) \/ FindAppointment(c) \/ ReadIntegration(c)
       \/ CallGoogle(c) \/ GoogleFails(c) \/ AnswerLost(c) \/ Persist(c) \/ WriteRow(c) \/ RowFails(c)
       \/ Consent(c) \/ Connect(c) \/ Disconnect(c) \/ ReadToRevoke(c) \/ Revoke(c) \/ DropIntegration(c)
  \/ DeletedInGoogle

CalendarSpec == CalendarInit /\ [][CalendarNext]_calendarVars

-----------------------------------------------------------------------------
\* An appointment is in the table exactly while it is in Google Calendar (schema.prisma
\* 785-787), whenever no request is at work on it: through failed calls, connections that
\* change under a request and appointments deleted twice.  The code cannot tell what
\* apart lists: an answer or a row lost after Google did its part, an event deleted
\* elsewhere, or one in an account that is not connected now.
CalendarAgrees ==
  \A e \in Appointment \ apart :
    (\A c \in Caller : call[c].on # e) => (e \in appointments <=> google[e] \in Account)
=============================================================================
