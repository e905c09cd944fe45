---------------------------- MODULE Integrations ----------------------------
(***************************************************************************)
(* The lines of a company and the keys that open its API: the master key,  *)
(* the child key each POS device gets, the keys made in the panel.  Every  *)
(* request reads first and writes later; two may overlap.                  *)
(***************************************************************************)
EXTENDS Naturals, FiniteSets

CONSTANTS
  MaxLines,   \* bound: instances ever created
  MaxKeys,    \* bound: credentials ever created
  MaxHash,    \* bound: AUTH KEYs ever generated
  MaxRequests,\* bound: requests
  Null,
  Gone        \* a row deleted: its id does not come back

Line == 1..MaxLines
Key == 1..MaxKeys
Hash == 1..MaxHash
Device == {"pos"}      \* posClientKey: domain and phone of a POS
PRINCIPAL == 0         \* the name of the credential made at registration
Name == 1..(MaxKeys + 1)   \* "BrainPOS Maestro", with a number or without
LineRow == [device : Device \cup {Null}, active : BOOLEAN, channel : BOOLEAN, used : BOOLEAN]
KeyRow == [line : Line \cup {Null}, hash : Hash, active : BOOLEAN, name : Name \cup {PRINCIPAL, Null}]

IntegrationAssumption ==
  /\ MaxLines \in Nat /\ MaxKeys \in Nat /\ MaxHash \in Nat \ {0} /\ MaxRequests \in Nat
  /\ Null # Gone /\ {Null, Gone} \cap (Nat \cup Device \cup LineRow \cup KeyRow) = {}

VARIABLES
  line,     \* [Line -> the instance's row, Null, or Gone]
  key,      \* [Key -> the credential's row, Null, or Gone]
  hashes,   \* AUTH KEYs generated so far
  request,  \* requests between their reads and their writes
  asked,    \* how many so far
  retired,  \* history: AUTH KEYs of masters revoked or regenerated
  crossed   \* history: what an overlap, or a row written on an archived line, broke

integrationVars == <<line, key, hashes, request, asked, retired, crossed>>

Lines == {l \in Line : line[l] \notin {Null, Gone}}
Keys == {k \in Key : key[k] \notin {Null, Gone}}
KeysOf(l) == {k \in Keys : key[k].line = l}
ActiveMasters == {k \in Keys : key[k].line = Null /\ key[k].active}
NextLine(l) == line[l] = Null /\ \A m \in Line : m < l => line[m] # Null
NextKey(k) == key[k] = Null /\ \A j \in Key : j < k => key[j] # Null
NewKey(l, h, name) == [line |-> l, hash |-> h, active |-> TRUE, name |-> name]
NewHash == hashes < MaxHash /\ hashes' = hashes + 1

\* A request between its read and its write.
Requests ==
  [id : Nat, op : {"findName"}] \cup [id : Nat, op : {"master"}, name : Name] \cup [id : Nat, op : {"create"}, line : Line]
    \cup [id : Nat, op : {"revoke", "regenerate"}, key : Key, hash : Hash]
    \cup [id : Nat, op : {"device"}, device : Device, key : Key, line : Line \cup {Null}]
    \cup [id : Nat, op : {"provision"}, device : Device, hash : Hash]
    \cup [id : Nat, op : {"line"}, channel : BOOLEAN] \cup [id : Nat, op : {"remove"}, line : Line, used : BOOLEAN]

IntegrationTypeOK ==
  /\ line \in [Line -> LineRow \cup {Null, Gone}] /\ key \in [Key -> KeyRow \cup {Null, Gone}]
  /\ hashes \in 1..MaxHash /\ asked \in 0..MaxRequests /\ request \subseteq Requests
  /\ retired \subseteq 1..hashes /\ \A k \in Keys : key[k].hash <= hashes

\* A company as registration left it, or with a line of its own in use, or archived.
IntegrationInit ==
  /\ \E first \in {Null} \cup [device : {Null}, active : BOOLEAN, channel : BOOLEAN, used : BOOLEAN] :
       line = [l \in Line |-> IF l = 1 THEN first ELSE Null]
  /\ \E registered \in BOOLEAN :
       key = [k \in Key |-> IF k = 1 /\ registered THEN NewKey(Null, 1, PRINCIPAL) ELSE Null]
  /\ hashes = 1 /\ request = {} /\ asked = 0 /\ retired = {} /\ crossed = {}

Ask(r) == asked < MaxRequests /\ asked' = asked + 1 /\ request' = request \cup {r}
Done(r) == request' = request \ {r}
Removing(l) == \E r \in request : r.op = "remove" /\ r.line = l
Reads == UNCHANGED <<line, key, hashes, retired, crossed>>

-----------------------------------------------------------------------------
(* ApiCredentialsService *)

\* ensureMaster: an active master, or a free name for a new one.
EnsureMaster == ActiveMasters = {} /\ Ask([id |-> asked, op |-> "findName"]) /\ Reads
FindName(r) ==
  /\ r.op = "findName"
  /\ LET taken == {key[k].name : k \in Keys}
     IN \E n \in Name \ taken :
          /\ \A m \in 1..(n - 1) : m \in taken
          /\ request' = (request \ {r}) \cup {[id |-> r.id, op |-> "master", name |-> n]}
  /\ UNCHANGED <<line, key, hashes, asked, retired, crossed>>
WriteMaster(r) ==
  /\ r.op = "master" /\ Done(r)
  /\ IF \E k \in Keys : key[k].name = r.name
     THEN UNCHANGED <<key, hashes, crossed>>
     ELSE /\ NewHash /\ \E k \in Key : NextKey(k) /\ key' = [key EXCEPT ![k] = NewKey(Null, hashes + 1, r.name)]
          /\ crossed' = IF ActiveMasters = {} THEN crossed ELSE crossed \cup {<<"masters", 0>>}
  /\ UNCHANGED <<line, asked, retired>>

\* create, for an instance the panel names: active or not.
CreateKey(l) == l \in Lines /\ KeysOf(l) = {} /\ Ask([id |-> asked, op |-> "create", line |-> l]) /\ Reads
WriteKey(r) ==
  /\ r.op = "create" /\ Done(r)
  /\ IF r.line \in Lines /\ KeysOf(r.line) = {}
     THEN /\ NewHash /\ \E k \in Key : NextKey(k) /\ key' = [key EXCEPT ![k] = NewKey(r.line, hashes + 1, Null)]
          /\ crossed' = IF line[r.line].active /\ ~Removing(r.line) THEN crossed ELSE crossed \cup {<<"line", r.line>>}
     ELSE UNCHANGED <<key, hashes, crossed>>
  /\ UNCHANGED <<line, asked, retired>>

OnlyItself(k, h) == {k}
\* revoke and regenerate: a master takes along the keys with the same AUTH KEY.
Family(k, h) == IF key[k].line = Null THEN {j \in Keys : j = k \/ key[j].hash = h} ELSE {k}
ChangeKey(k, op) == k \in Keys /\ op \in {"revoke", "regenerate"} /\ Ask([id |-> asked, op |-> op, key |-> k, hash |-> key[k].hash]) /\ Reads
WriteChange(r) ==
  /\ r.op \in {"revoke", "regenerate"} /\ Done(r)
  /\ IF r.key \in Keys
     THEN LET family == Family(r.key, r.hash)
              fresh == r.op = "regenerate"
          IN /\ IF fresh THEN NewHash ELSE UNCHANGED hashes
             /\ key' = [k \in Key |-> IF k \notin family THEN key[k]
                                      ELSE IF fresh THEN [key[k] EXCEPT !.hash = hashes + 1, !.active = TRUE]
                                      ELSE [key[k] EXCEPT !.active = FALSE]]
             /\ retired' = IF key[r.key].line = Null THEN retired \cup {r.hash, key[r.key].hash} ELSE retired
             /\ crossed' = crossed
                  \cup (IF fresh /\ key[r.key].line = Null /\ ActiveMasters \ {r.key} # {} THEN {<<"masters", 0>>} ELSE {})
                  \cup (IF key[r.key].line = Null /\ key[r.key].hash # r.hash THEN {<<"hashes", 0>>} ELSE {})
     ELSE UNCHANGED <<key, hashes, retired, crossed>>
  /\ UNCHANGED <<line, asked>>

\* remove: a master cannot be removed.
RemoveKey(k) ==
  /\ k \in Keys /\ key[k].line # Null /\ asked < MaxRequests /\ asked' = asked + 1
  /\ key' = [key EXCEPT ![k] = Gone]
  /\ UNCHANGED <<line, hashes, request, retired, crossed>>

-----------------------------------------------------------------------------
(* UserDeviceService *)

\* authenticateByToken: the active master with that AUTH KEY, else a child with it.
Bearer(h) == LET own == {k \in Keys : key[k].active /\ key[k].hash = h}
                 masters == own \cap ActiveMasters
             IN IF masters # {} THEN masters ELSE own

\* createDevice: with the key of one line, that line; with the master's, the line of the
\* device, made or woken up in a transaction with the hash the master has by then.
CreateDevice(h, d) ==
  \E k \in Bearer(h) : Ask([id |-> asked, op |-> "device", device |-> d, key |-> k, line |-> key[k].line]) /\ Reads

OwnedDevice(r) ==
  /\ r.op = "device" /\ r.line # Null /\ Done(r)
  /\ line' = IF r.line \in Lines /\ line[r.line].active THEN [line EXCEPT ![r.line].used = TRUE] ELSE line
  /\ UNCHANGED <<key, hashes, asked, retired, crossed>>

ReadMaster(r) ==
  /\ r.op = "device" /\ r.line = Null
  /\ request' = (request \ {r}) \cup {[id |-> r.id, op |-> "provision", device |-> r.device, hash |-> key[r.key].hash]}
  /\ UNCHANGED <<line, key, hashes, asked, retired, crossed>>

Provision(r) ==
  /\ r.op = "provision" /\ Done(r)
  /\ LET known == {l \in Lines : line[l].device = r.device}
     IN \E l \in IF known = {} THEN {m \in Line : NextLine(m)} ELSE known :
          /\ line' = [line EXCEPT ![l] = [device |-> r.device, active |-> TRUE, channel |-> FALSE, used |-> TRUE]]
          /\ \E k \in IF KeysOf(l) = {} THEN {j \in Key : NextKey(j)} ELSE KeysOf(l) :
               key' = [key EXCEPT ![k] = IF key[k] = Null THEN NewKey(l, r.hash, Null) ELSE [key[k] EXCEPT !.hash = r.hash, !.active = TRUE]]
          /\ crossed' = crossed \cup (IF r.hash \in retired THEN {<<"hashes", 0>>} ELSE {})
                                \cup (IF Removing(l) THEN {<<"line", l>>} ELSE {})
  /\ UNCHANGED <<hashes, asked, retired>>

-----------------------------------------------------------------------------
(* InstancesService *)

ActiveChannels == {l \in Lines : line[l].channel /\ line[l].active}

\* create: one Clienera channel per company; a WhatsApp line whenever asked.
CreateLine(channel) ==
  /\ channel => ActiveChannels = {}
  /\ Ask([id |-> asked, op |-> "line", channel |-> channel]) /\ Reads
WriteLine(r) ==
  /\ r.op = "line" /\ Done(r)
  /\ \E l \in Line : NextLine(l) /\ line' = [line EXCEPT ![l] = [device |-> Null, active |-> TRUE, channel |-> r.channel, used |-> FALSE]]
  /\ crossed' = IF r.channel /\ ActiveChannels # {} THEN crossed \cup {<<"channels", 0>>} ELSE crossed
  /\ UNCHANGED <<key, hashes, asked, retired>>

\* A session is opened, or a message goes or comes.
UseLine(l) ==
  /\ l \in Lines /\ line[l].active /\ ~line[l].used
  /\ line' = [line EXCEPT ![l].used = TRUE]
  /\ UNCHANGED <<key, hashes, request, asked, retired, crossed>>

\* remove: not with a credential; archived if it was ever used, else deleted.
RemoveLine(l) ==
  /\ l \in Lines /\ line[l].active /\ KeysOf(l) = {}
  /\ Ask([id |-> asked, op |-> "remove", line |-> l, used |-> line[l].used]) /\ Reads
WriteRemoval(r) ==
  /\ r.op = "remove" /\ Done(r)
  /\ IF r.line \notin Lines THEN UNCHANGED <<line, key>>
     ELSE IF r.used THEN line' = [line EXCEPT ![r.line].active = FALSE] /\ UNCHANGED key
     ELSE /\ line' = [line EXCEPT ![r.line] = Gone]
          /\ key' = [k \in Key |-> IF k \in KeysOf(r.line) THEN Gone ELSE key[k]]
  /\ UNCHANGED <<hashes, asked, retired, crossed>>

IntegrationNext ==
  \/ EnsureMaster
  \/ \E l \in Line : CreateKey(l) \/ UseLine(l) \/ RemoveLine(l)
  \/ \E k \in Key : RemoveKey(k) \/ \E op \in {"revoke", "regenerate"} : ChangeKey(k, op)
  \/ \E h \in 1..hashes, d \in Device : CreateDevice(h, d)
  \/ \E channel \in BOOLEAN : CreateLine(channel)
  \/ \E r \in request :
       \/ FindName(r) \/ WriteMaster(r) \/ WriteKey(r) \/ WriteChange(r)
       \/ OwnedDevice(r) \/ ReadMaster(r) \/ Provision(r) \/ WriteLine(r) \/ WriteRemoval(r)

IntegrationSpec == IntegrationInit /\ [][IntegrationNext]_integrationVars

-----------------------------------------------------------------------------
\* An AUTH KEY revoked or replaced opens nothing any more, device keys made from it
\* included, unless a device was being made with it at the time.
RetiredKeysAreDead == <<"hashes", 0>> \in crossed \/ \A k \in Keys : key[k].active => key[k].hash \notin retired

\* One active master and one active channel, unless requests overlapped or a revoked
\* master was brought back; and no archived line with a key, which could not be used,
\* unless the panel made it for the archived line or while it was being archived.
LinesAreSound ==
  /\ <<"masters", 0>> \in crossed \/ Cardinality(ActiveMasters) <= 1
  /\ <<"channels", 0>> \in crossed \/ Cardinality(ActiveChannels) <= 1
  /\ \A k \in Keys : key[k].line # Null =>
       key[k].line \in Lines /\ (<<"line", key[k].line>> \in crossed \/ line[key[k].line].active)

\* What opens a company's lines: no retired key, and no line or master too many.
AccessIsSound == IntegrationTypeOK /\ RetiredKeysAreDead /\ LinesAreSound
=============================================================================
