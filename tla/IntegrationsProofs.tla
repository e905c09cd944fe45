-------------------------- MODULE IntegrationsProofs -------------------------
(***************************************************************************)
(* What two of the services promise, for any number of requests at once:   *)
(* the integrations, that lines and keys are sound, and the visitor's      *)
(* page, that it shows the thread as it is stored.  Requests hold what     *)
(* they read, and the page has still to hear of what is written: the       *)
(* invariants say what is true meanwhile.                                  *)
(***************************************************************************)
EXTENDS Integrations, VisitorPage, FiniteSetTheorems, SequenceTheorems, TLAPS

-----------------------------------------------------------------------------
(* The integrations. *)

Sole(S) == \A x, y \in S : x = y

OneMaster == <<"masters", 0>> \in crossed \/ Sole(ActiveMasters)
OneChannel == <<"channels", 0>> \in crossed \/ Sole(ActiveChannels)
KeyLines ==
  \A k \in Keys : key[k].line # Null =>
    key[k].line \in Lines /\ (<<"line", key[k].line>> \in crossed \/ line[key[k].line].active)

IsMaster(k) == k \in Keys /\ key[k].line = Null

\* Two masters have AUTH KEYs of their own.
MastersApart == \A j, k \in Key : IsMaster(j) /\ IsMaster(k) /\ key[j].hash = key[k].hash => j = k

\* What a request read, as far as it holds until it writes: no other master has the hash of
\* the master it changes, a master is never removed, and a line being archived has no key
\* but by an overlap.
Held(r) ==
  /\ r.op \in {"revoke", "regenerate"} =>
       /\ key[r.key] # Null /\ r.hash <= hashes
       /\ IsMaster(r.key) => \A j \in Key : IsMaster(j) /\ key[j].hash = r.hash => j = r.key
  /\ r.op = "device" => (r.line = Null => IsMaster(r.key))
  /\ r.op = "provision" => r.hash <= hashes
  /\ r.op = "remove" => line[r.line] # Null /\ (KeysOf(r.line) = {} \/ <<"line", r.line>> \in crossed)

IntegrationInv ==
  /\ IntegrationTypeOK /\ RetiredKeysAreDead /\ OneMaster /\ OneChannel /\ KeyLines /\ MastersApart
  /\ \A r \in request : Held(r)

-----------------------------------------------------------------------------
(* What every step does to the tables. *)

\* An id is given once, a key keeps its line, and at most one master gets a new hash.
KeyStep ==
  /\ \A k \in Key : key[k] = Gone => key'[k] = Gone
  /\ \A k \in Keys : \/ k \in Keys' /\ key'[k].line = key[k].line
                     \/ key'[k] = Gone /\ key[k].line # Null
  /\ \A k \in Keys' : key'[k].line = Null =>
       \/ k \in Keys /\ key[k].line = Null /\ key'[k].hash = key[k].hash
       \/ key'[k].hash = hashes + 1
  /\ \A j, k \in Keys' : key'[j].line = Null /\ key'[k].line = Null
                           /\ key'[j].hash = hashes + 1 /\ key'[k].hash = hashes + 1 => j = k
  /\ hashes <= hashes'

\* A line that is being archived gets no key unnoticed.
LineStep ==
  /\ \A l \in Line : line[l] # Null => line'[l] # Null
  /\ \A l \in Line : Removing(l) => (\A k \in Keys' : key'[k].line = l => k \in Keys /\ key[k].line = l) \/ <<"line", l>> \in crossed'
  /\ crossed \subseteq crossed'

\* A key is a row, and a line.
LEMMA Rows ==
  ASSUME IntegrationTypeOK
  PROVE  /\ \A k \in Keys : k \in Key /\ key[k] \in KeyRow /\ key[k].hash \in Hash /\ key[k].hash <= hashes
                              /\ key[k].line \in Line \cup {Null} /\ key[k].active \in BOOLEAN
         /\ \A l \in Lines : l \in Line /\ line[l] \in LineRow /\ line[l].active \in BOOLEAN /\ line[l].channel \in BOOLEAN
         /\ hashes \in Nat /\ hashes \in 1..MaxHash
BY DEF IntegrationTypeOK, Keys, Lines, KeyRow, LineRow

LEMMA Kept ==
  ASSUME IntegrationAssumption, IntegrationInv, IntegrationTypeOK', KeyStep, LineStep
  PROVE  MastersApart' /\ \A r \in request : Held(r)'
<1>1. \A k \in Keys : key[k].hash \in Nat /\ key[k].hash <= hashes
  BY Rows DEF IntegrationInv, Hash
<1>2. hashes \in Nat
  BY Rows DEF IntegrationInv
<1>3. ASSUME NEW j \in Key, IsMaster(j)'
      PROVE  (IsMaster(j) /\ key'[j].hash = key[j].hash) \/ key'[j].hash = hashes + 1
  BY <1>3 DEF IsMaster, KeyStep
<1>4. MastersApart'
  <2> SUFFICES ASSUME NEW j \in Key, NEW k \in Key, IsMaster(j)', IsMaster(k)', key'[j].hash = key'[k].hash
               PROVE  j = k
    BY DEF MastersApart
  <2>1. CASE key'[j].hash = hashes + 1
    BY <2>1 DEF IsMaster, KeyStep
  <2>2. CASE key'[j].hash # hashes + 1
    BY <2>2, <1>3 DEF IntegrationInv, MastersApart
  <2> QED BY <2>1, <2>2
<1>5. ASSUME NEW r \in request PROVE Held(r)'
  <2>0. Held(r) /\ r \in Requests
    BY DEF IntegrationInv, IntegrationTypeOK
  <2>1. ASSUME r.op \in {"revoke", "regenerate"}
        PROVE  /\ key'[r.key] # Null /\ r.hash <= hashes'
               /\ IsMaster(r.key)' => \A j \in Key : IsMaster(j)' /\ key'[j].hash = r.hash => j = r.key
    <3>1. r.key \in Key /\ r.hash \in Nat
      BY <2>0, <2>1 DEF Requests, Hash
    <3>2. key[r.key] # Null /\ r.hash <= hashes
      BY <2>0, <2>1 DEF Held
    <3>3. key'[r.key] # Null
      BY <3>1, <3>2 DEF KeyStep, Keys, IntegrationAssumption
    <3>4. r.hash <= hashes'
      BY <3>1, <3>2, <1>2 DEF KeyStep, IntegrationTypeOK
    <3>5. ASSUME IsMaster(r.key)', NEW j \in Key, IsMaster(j)', key'[j].hash = r.hash PROVE j = r.key
      <4>1. r.key \in Keys
        BY <3>1, <3>2, <3>5 DEF KeyStep, Keys, IsMaster, IntegrationAssumption
      <4>2. IsMaster(r.key)
        BY <4>1, <3>5 DEF KeyStep, Keys, IsMaster
      <4>3. IsMaster(j) /\ key[j].hash = r.hash
        BY <3>1, <3>2, <3>5, <1>3, <1>2
      <4> QED BY <4>2, <4>3, <2>0, <2>1 DEF Held
    <3> QED BY <3>3, <3>4, <3>5
  <2>2. ASSUME r.op = "device", r.line = Null PROVE IsMaster(r.key)'
    BY <2>0, <2>2 DEF Held, IsMaster, KeyStep
  <2>3. ASSUME r.op = "provision" PROVE r.hash <= hashes'
    <3>1. r.hash \in Nat /\ r.hash <= hashes
      BY <2>0, <2>3 DEF Requests, Hash, Held
    <3> QED BY <3>1, <1>2 DEF KeyStep, IntegrationTypeOK
  <2>4. ASSUME r.op = "remove"
        PROVE  line'[r.line] # Null /\ (KeysOf(r.line)' = {} \/ <<"line", r.line>> \in crossed')
    <3>1. r.line \in Line /\ Removing(r.line)
      BY <2>0, <2>4 DEF Requests, Removing
    <3> QED BY <2>0, <2>4, <3>1 DEF Held, LineStep, KeysOf
  <2> QED BY <2>1, <2>2, <2>3, <2>4 DEF Held
<1> QED BY <1>4, <1>5

\* The invariant after a step, from what the step does to the tables.
LEMMA After ==
  ASSUME IntegrationAssumption, IntegrationInv, IntegrationTypeOK', KeyStep, LineStep,
         RetiredKeysAreDead', OneMaster', OneChannel', KeyLines',
         \A r \in request' : r \in request \/ Held(r)'
  PROVE  IntegrationInv'
BY Kept DEF IntegrationInv

\* A request that only reads.
LEMMA ReadsKeep ==
  ASSUME IntegrationAssumption, IntegrationInv, UNCHANGED <<line, key, hashes, retired, crossed>>,
         asked' \in 0..MaxRequests, \A r \in request' : r \in Requests /\ (r \in request \/ Held(r))
  PROVE  IntegrationInv'
<1>1. IntegrationTypeOK'
  BY DEF IntegrationInv, IntegrationTypeOK, Keys
<1>2. /\ RetiredKeysAreDead' /\ OneMaster' /\ OneChannel' /\ KeyLines' /\ MastersApart'
  BY DEF IntegrationInv, RetiredKeysAreDead, OneMaster, OneChannel, KeyLines, MastersApart, IsMaster,
         ActiveMasters, ActiveChannels, Keys, Lines, Sole
<1>3. ASSUME NEW r \in request' PROVE Held(r)'
  <2>1. Held(r)
    BY DEF IntegrationInv
  <2> QED BY <2>1 DEF Held, IsMaster, KeysOf, Keys
<1> QED BY <1>1, <1>2, <1>3 DEF IntegrationInv

\* A step that leaves the keys alone, and no line is archived or deleted by.
LEMMA LinesOnly ==
  ASSUME IntegrationAssumption, IntegrationInv, UNCHANGED <<key, hashes, retired>>,
         line' \in [Line -> LineRow \cup {Null, Gone}], asked' \in 0..MaxRequests, request' \subseteq request,
         \A l \in Line : line[l] # Null => line'[l] # Null,
         \A l \in Lines : l \in Lines' /\ line'[l].active = line[l].active,
         crossed \subseteq crossed', OneChannel'
  PROVE  IntegrationInv'
<1>1. IntegrationTypeOK'
  BY DEF IntegrationInv, IntegrationTypeOK, Keys
<1>2. RetiredKeysAreDead' /\ OneMaster'
  BY DEF IntegrationInv, RetiredKeysAreDead, OneMaster, ActiveMasters, Keys, Sole
<1>3. KeyLines'
  BY DEF IntegrationInv, KeyLines, Keys
<1>4. hashes \in Nat
  BY Rows DEF IntegrationInv
<1>5. KeyStep
  BY <1>4 DEF KeyStep, Keys, IntegrationInv, MastersApart, IsMaster
<1>6. LineStep
  BY DEF LineStep, Keys
<1> QED BY <1>1, <1>2, <1>3, <1>5, <1>6, After

\* A step that leaves the lines alone.
LEMMA KeysOnly ==
  ASSUME IntegrationAssumption, IntegrationInv, UNCHANGED line, IntegrationTypeOK',
         request' \subseteq request, KeyStep, crossed \subseteq crossed',
         \A l \in Line : Removing(l) =>
            (\A k \in Keys' : key'[k].line = l => k \in Keys /\ key[k].line = l) \/ <<"line", l>> \in crossed',
         RetiredKeysAreDead', OneMaster', KeyLines'
  PROVE  IntegrationInv'
<1>1. LineStep
  BY DEF LineStep
<1>2. OneChannel'
  BY DEF IntegrationInv, OneChannel, ActiveChannels, Lines, Sole
<1> QED BY <1>1, <1>2, After

-----------------------------------------------------------------------------
(* Requests read. *)

LEMMA Asks ==
  ASSUME IntegrationAssumption, IntegrationInv, NEW r \in Requests, Ask(r), Reads, Held(r)
  PROVE  IntegrationInv'
<1>1. asked' \in 0..MaxRequests
  BY DEF Ask, IntegrationInv, IntegrationTypeOK, IntegrationAssumption
<1>2. request' = request \cup {r} /\ request \subseteq Requests
  BY DEF Ask, IntegrationInv, IntegrationTypeOK
<1> QED BY <1>1, <1>2, ReadsKeep DEF Reads

LEMMA AskedIsNat ==
  ASSUME IntegrationInv PROVE asked \in Nat
BY DEF IntegrationInv, IntegrationTypeOK

LEMMA EnsureMasterKeeps ==
  ASSUME IntegrationAssumption, IntegrationInv, EnsureMaster PROVE IntegrationInv'
<1> DEFINE r == [id |-> asked, op |-> "findName"]
<1>1. r \in Requests /\ Held(r)
  BY AskedIsNat DEF Requests, Held
<1>2. Ask(r) /\ Reads
  BY DEF EnsureMaster
<1> HIDE DEF r
<1> QED BY <1>1, <1>2, Asks

LEMMA CreateKeyKeeps ==
  ASSUME IntegrationAssumption, IntegrationInv, NEW l \in Line, CreateKey(l) PROVE IntegrationInv'
<1> DEFINE r == [id |-> asked, op |-> "create", line |-> l]
<1>1. r \in Requests /\ Held(r)
  BY AskedIsNat DEF Requests, Held
<1>2. Ask(r) /\ Reads
  BY DEF CreateKey
<1> HIDE DEF r
<1> QED BY <1>1, <1>2, Asks

LEMMA ChangeKeyKeeps ==
  ASSUME IntegrationAssumption, IntegrationInv, NEW k \in Key, NEW op \in {"revoke", "regenerate"}, ChangeKey(k, op)
  PROVE  IntegrationInv'
<1> DEFINE r == [id |-> asked, op |-> op, key |-> k, hash |-> key[k].hash]
<1>1. k \in Keys /\ Ask(r) /\ Reads
  BY DEF ChangeKey
<1>2. key[k].hash \in Hash /\ key[k].hash <= hashes
  BY <1>1, Rows DEF IntegrationInv
<1>3. r \in Requests
  BY <1>2, AskedIsNat DEF Requests
<1>4. Held(r)
  BY <1>1, <1>2 DEF Held, IntegrationInv, MastersApart, Keys
<1> HIDE DEF r
<1> QED BY <1>1, <1>3, <1>4, Asks

LEMMA CreateDeviceKeeps ==
  ASSUME IntegrationAssumption, IntegrationInv, NEW h \in 1..hashes, NEW d \in Device, CreateDevice(h, d)
  PROVE  IntegrationInv'
<1>1. PICK k \in Bearer(h) : Ask([id |-> asked, op |-> "device", device |-> d, key |-> k, line |-> key[k].line]) /\ Reads
  BY DEF CreateDevice
<1> DEFINE r == [id |-> asked, op |-> "device", device |-> d, key |-> k, line |-> key[k].line]
<1>2. k \in Keys
  BY DEF Bearer, ActiveMasters
<1>3. k \in Key /\ key[k].line \in Line \cup {Null}
  BY <1>2, Rows DEF IntegrationInv
<1>4. r \in Requests
  BY <1>3, AskedIsNat DEF Requests
<1>5. Held(r)
  BY <1>2 DEF Held, IsMaster
<1>6. Ask(r) /\ Reads
  BY <1>1
<1> HIDE DEF r
<1> QED BY <1>4, <1>5, <1>6, Asks

LEMMA CreateLineKeeps ==
  ASSUME IntegrationAssumption, IntegrationInv, NEW channel \in BOOLEAN, CreateLine(channel)
  PROVE  IntegrationInv'
<1> DEFINE r == [id |-> asked, op |-> "line", channel |-> channel]
<1>1. r \in Requests /\ Held(r)
  BY AskedIsNat DEF Requests, Held
<1>2. Ask(r) /\ Reads
  BY DEF CreateLine
<1> HIDE DEF r
<1> QED BY <1>1, <1>2, Asks

LEMMA RemoveLineKeeps ==
  ASSUME IntegrationAssumption, IntegrationInv, NEW l \in Line, RemoveLine(l)
  PROVE  IntegrationInv'
<1> DEFINE r == [id |-> asked, op |-> "remove", line |-> l, used |-> line[l].used]
<1>1. l \in Lines /\ KeysOf(l) = {} /\ Ask(r) /\ Reads
  BY DEF RemoveLine
<1>2. line[l] \in LineRow /\ line[l] # Null
  BY <1>1, Rows DEF IntegrationInv, Lines
<1>3. r \in Requests
  BY <1>2, AskedIsNat DEF Requests, LineRow
<1>4. Held(r)
  BY <1>1, <1>2 DEF Held
<1> HIDE DEF r
<1> QED BY <1>1, <1>3, <1>4, Asks

LEMMA FindNameKeeps ==
  ASSUME IntegrationAssumption, IntegrationInv, NEW r \in request, FindName(r)
  PROVE  IntegrationInv'
<1>1. PICK n \in Name : request' = (request \ {r}) \cup {[id |-> r.id, op |-> "master", name |-> n]}
  BY DEF FindName
<1>2. r \in Requests /\ request \subseteq Requests /\ asked \in 0..MaxRequests
  BY DEF IntegrationInv, IntegrationTypeOK
<1> DEFINE new == [id |-> r.id, op |-> "master", name |-> n]
<1>3. new \in Requests
  BY <1>2 DEF Requests
<1>4. Held(new)
  BY DEF Held
<1>5. UNCHANGED <<line, key, hashes, retired, crossed, asked>>
  BY DEF FindName
<1>6. \A x \in request' : x \in request \/ x = new
  BY <1>1
<1> HIDE DEF new
<1> QED BY <1>2, <1>3, <1>4, <1>5, <1>6, ReadsKeep

LEMMA ReadMasterKeeps ==
  ASSUME IntegrationAssumption, IntegrationInv, NEW r \in request, ReadMaster(r)
  PROVE  IntegrationInv'
<1> DEFINE new == [id |-> r.id, op |-> "provision", device |-> r.device, hash |-> key[r.key].hash]
<1>1. request' = (request \ {r}) \cup {new}
  BY DEF ReadMaster
<1>2. r \in Requests /\ request \subseteq Requests /\ asked \in 0..MaxRequests /\ Held(r)
  BY DEF IntegrationInv, IntegrationTypeOK
<1>3. r.op = "device" /\ r.line = Null
  BY DEF ReadMaster
<1>4. r.id \in Nat /\ r.device \in Device /\ r.key \in Keys
  BY <1>2, <1>3 DEF Requests, Held, IsMaster
<1>5. key[r.key].hash \in Hash /\ key[r.key].hash <= hashes
  BY <1>4, Rows DEF IntegrationInv
<1>6. new \in Requests
  BY <1>4, <1>5 DEF Requests
<1>7. Held(new)
  BY <1>5 DEF Held
<1>8. UNCHANGED <<line, key, hashes, retired, crossed, asked>>
  BY DEF ReadMaster
<1>9. \A x \in request' : x \in request \/ x = new
  BY <1>1
<1> HIDE DEF new
<1> QED BY <1>2, <1>6, <1>7, <1>8, <1>9, ReadsKeep

-----------------------------------------------------------------------------
(* Lines are used and made. *)

LEMMA UsedRow ==
  ASSUME NEW v \in LineRow
  PROVE  [v EXCEPT !.used = TRUE] \in LineRow /\ [v EXCEPT !.used = TRUE].active = v.active
           /\ [v EXCEPT !.used = TRUE].channel = v.channel
BY DEF LineRow

LEMMA ArchivedRow ==
  ASSUME NEW v \in LineRow
  PROVE  [v EXCEPT !.active = FALSE] \in LineRow /\ ~[v EXCEPT !.active = FALSE].active
BY DEF LineRow

\* A row of a key that is changed: its line and its name stay.
LEMMA ChangedRow ==
  ASSUME NEW v \in KeyRow, NEW h \in Hash
  PROVE  /\ [v EXCEPT !.hash = h, !.active = TRUE] \in KeyRow
         /\ [v EXCEPT !.hash = h, !.active = TRUE].hash = h /\ [v EXCEPT !.hash = h, !.active = TRUE].line = v.line
         /\ [v EXCEPT !.active = FALSE] \in KeyRow
         /\ [v EXCEPT !.active = FALSE].hash = v.hash /\ [v EXCEPT !.active = FALSE].line = v.line
         /\ ~[v EXCEPT !.active = FALSE].active
BY DEF KeyRow

LEMMA Used ==
  ASSUME IntegrationAssumption, IntegrationInv, NEW l \in Lines, line' = [line EXCEPT ![l].used = TRUE],
         UNCHANGED <<key, hashes, retired, crossed>>, asked' \in 0..MaxRequests, request' \subseteq request
  PROVE  IntegrationInv'
<1>1. l \in Line /\ line[l] \in LineRow /\ line[l] \notin {Null, Gone} /\ line \in [Line -> LineRow \cup {Null, Gone}]
  BY Rows DEF IntegrationInv, IntegrationTypeOK, Lines
<1>2. PICK row \in LineRow : row = [line[l] EXCEPT !.used = TRUE] /\ row.active = line[l].active /\ row.channel = line[l].channel
  <2>1. PICK v \in LineRow : v = line[l]
    BY <1>1
  <2> QED BY <2>1, UsedRow
<1>3. line' = [line EXCEPT ![l] = row] /\ row \notin {Null, Gone}
  BY <1>2 DEF IntegrationAssumption
<1>4. line' \in [Line -> LineRow \cup {Null, Gone}]
  BY <1>1, <1>3
<1>5. \A m \in Line : line[m] # Null => line'[m] # Null
  BY <1>1, <1>3
<1>6. \A m \in Lines : m \in Lines' /\ line'[m].active = line[m].active
  BY <1>1, <1>2, <1>3 DEF Lines
<1>7. OneChannel'
  <2>1. ActiveChannels' \subseteq ActiveChannels
    BY <1>1, <1>2, <1>3 DEF ActiveChannels, Lines
  <2> QED BY <2>1 DEF IntegrationInv, OneChannel, Sole
<1> QED BY <1>4, <1>5, <1>6, <1>7, LinesOnly

LEMMA OwnedDeviceKeeps ==
  ASSUME IntegrationAssumption, IntegrationInv, NEW r \in request, OwnedDevice(r)
  PROVE  IntegrationInv'
<1>1. request' \subseteq request /\ UNCHANGED <<key, hashes, asked, retired, crossed>>
  BY DEF OwnedDevice, Done
<1>2. asked' \in 0..MaxRequests /\ request \subseteq Requests
  BY <1>1 DEF IntegrationInv, IntegrationTypeOK
<1>3. CASE r.line \in Lines /\ line[r.line].active
  <2>1. line' = [line EXCEPT ![r.line].used = TRUE]
    BY <1>3 DEF OwnedDevice
  <2>2. PICK l \in Lines : l = r.line
    BY <1>3
  <2> QED BY <1>1, <1>2, <2>1, <2>2, Used
<1>4. CASE ~(r.line \in Lines /\ line[r.line].active)
  <2>1. UNCHANGED line
    BY <1>4 DEF OwnedDevice
  <2>2. \A x \in request' : x \in Requests /\ x \in request
    BY <1>1, <1>2
  <2> QED BY <1>1, <1>2, <2>1, <2>2, ReadsKeep
<1> QED BY <1>3, <1>4

LEMMA UseLineKeeps ==
  ASSUME IntegrationAssumption, IntegrationInv, NEW l \in Line, UseLine(l)
  PROVE  IntegrationInv'
<1>1. l \in Lines /\ line' = [line EXCEPT ![l].used = TRUE] /\ UNCHANGED <<key, hashes, request, asked, retired, crossed>>
  BY DEF UseLine
<1>2. asked' \in 0..MaxRequests /\ request' \subseteq request
  BY <1>1 DEF IntegrationInv, IntegrationTypeOK
<1> QED BY <1>1, <1>2, Used

LEMMA WriteLineKeeps ==
  ASSUME IntegrationAssumption, IntegrationInv, NEW r \in request, WriteLine(r)
  PROVE  IntegrationInv'
<1> DEFINE row == [device |-> Null, active |-> TRUE, channel |-> r.channel, used |-> FALSE]
<1>1. PICK l \in Line : NextLine(l) /\ line' = [line EXCEPT ![l] = row]
  BY DEF WriteLine
<1>2. /\ r.op = "line" /\ request' \subseteq request /\ UNCHANGED <<key, hashes, asked, retired>>
      /\ crossed' = IF r.channel /\ ActiveChannels # {} THEN crossed \cup {<<"channels", 0>>} ELSE crossed
  BY DEF WriteLine, Done
<1>3. r.channel \in BOOLEAN /\ asked' \in 0..MaxRequests /\ line \in [Line -> LineRow \cup {Null, Gone}]
  BY <1>2 DEF IntegrationInv, IntegrationTypeOK, Requests
<1>4. row \in LineRow /\ row.active /\ row.channel = r.channel
  BY <1>3 DEF LineRow
<1>5. row \notin {Null, Gone} /\ line[l] = Null
  BY <1>1, <1>4 DEF IntegrationAssumption, NextLine
<1> HIDE DEF row
<1>6. line' \in [Line -> LineRow \cup {Null, Gone}]
  BY <1>1, <1>3, <1>4
<1>7. \A m \in Line : line[m] # Null => line'[m] # Null
  BY <1>1, <1>3, <1>5
<1>8. \A m \in Lines : m \in Lines' /\ line'[m].active = line[m].active
  BY <1>1, <1>3, <1>5 DEF Lines
<1>9. OneChannel'
  <2>1. \A m \in ActiveChannels' : m \in ActiveChannels \/ (m = l /\ r.channel)
    BY <1>1, <1>3, <1>4 DEF ActiveChannels, Lines
  <2> QED BY <1>2, <2>1 DEF IntegrationInv, OneChannel, Sole
<1>10. crossed \subseteq crossed'
  BY <1>2
<1> QED BY <1>2, <1>3, <1>6, <1>7, <1>8, <1>9, <1>10, LinesOnly

-----------------------------------------------------------------------------
(* Keys are made, changed and removed. *)

\* A new key takes a new AUTH KEY and the place of nobody.
LEMMA NewKeyKeeps ==
  ASSUME IntegrationAssumption, IntegrationInv, UNCHANGED <<line, asked, retired>>, request' \subseteq request,
         NewHash, NEW k \in Key, NextKey(k), NEW l \in Line \cup {Null}, NEW n \in Name \cup {PRINCIPAL, Null},
         key' = [key EXCEPT ![k] = NewKey(l, hashes + 1, n)], crossed \subseteq crossed',
         l = Null => ActiveMasters = {} \/ <<"masters", 0>> \in crossed',
         l # Null => l \in Lines /\ (<<"line", l>> \in crossed' \/ (line[l].active /\ ~Removing(l)))
  PROVE  IntegrationInv'
<1> DEFINE row == NewKey(l, hashes + 1, n)
<1>1. hashes \in Nat /\ hashes \in 1..MaxHash /\ hashes' = hashes + 1 /\ hashes + 1 \in Hash /\ MaxHash \in Nat
  BY Rows DEF NewHash, Hash, IntegrationInv, IntegrationAssumption
<1>2. row \in KeyRow /\ row.line = l /\ row.hash = hashes + 1 /\ row.active
  BY <1>1 DEF KeyRow, NewKey
<1>3. row \notin {Null, Gone} /\ key[k] = Null
  BY <1>2 DEF IntegrationAssumption, NextKey
<1>4. key' = [key EXCEPT ![k] = row] /\ key \in [Key -> KeyRow \cup {Null, Gone}]
  BY DEF IntegrationInv, IntegrationTypeOK
<1> HIDE DEF row
<1>5. \A j \in Key : j # k => key'[j] = key[j]
  BY <1>4
<1>6. key'[k] = row /\ k \notin Keys
  BY <1>3, <1>4 DEF Keys
<1>7. Keys' = Keys \cup {k}
  BY <1>3, <1>5, <1>6 DEF Keys
<1>8. \A j \in Keys : j \in Key /\ j # k /\ key'[j] = key[j] /\ key[j].hash \in Nat /\ key[j].hash <= hashes
  BY <1>5, <1>6, Rows DEF IntegrationInv, Hash
<1>9. retired \subseteq 1..hashes
  BY DEF IntegrationInv, IntegrationTypeOK
<1>10. IntegrationTypeOK'
  <2>1. key' \in [Key -> KeyRow \cup {Null, Gone}]
    BY <1>2, <1>4
  <2>2. \A j \in Keys' : key'[j].hash <= hashes'
    BY <1>1, <1>2, <1>6, <1>7, <1>8
  <2>3. retired' \subseteq 1..hashes' /\ hashes' \in 1..MaxHash
    BY <1>1, <1>9 DEF Hash
  <2> QED BY <2>1, <2>2, <2>3 DEF IntegrationInv, IntegrationTypeOK
<1>11. KeyStep
  <2>1. \A j \in Key : key[j] = Gone => key'[j] = Gone
    BY <1>3, <1>5 DEF IntegrationAssumption
  <2>2. hashes <= hashes'
    BY <1>1
  <2> QED BY <1>1, <1>2, <1>6, <1>7, <1>8, <2>1, <2>2 DEF KeyStep
<1>12. RetiredKeysAreDead'
  BY <1>1, <1>2, <1>6, <1>7, <1>8, <1>9 DEF IntegrationInv, RetiredKeysAreDead
<1>13. OneMaster'
  <2>1. \A j \in ActiveMasters' : j \in ActiveMasters \/ (j = k /\ l = Null)
    BY <1>2, <1>6, <1>7, <1>8 DEF ActiveMasters
  <2> QED BY <2>1 DEF IntegrationInv, OneMaster, Sole
<1>14. KeyLines'
  BY <1>2, <1>6, <1>7, <1>8 DEF IntegrationInv, KeyLines, Lines
<1>15. \A m \in Line : Removing(m) =>
         (\A j \in Keys' : key'[j].line = m => j \in Keys /\ key[j].line = m) \/ <<"line", m>> \in crossed'
  <2> SUFFICES ASSUME NEW m \in Line, Removing(m), NEW j \in Keys', key'[j].line = m, <<"line", m>> \notin crossed'
               PROVE  j \in Keys /\ key[j].line = m
    OBVIOUS
  <2>1. j # k
    BY <1>2, <1>6 DEF IntegrationAssumption, Line
  <2> QED BY <2>1, <1>7, <1>8
<1> QED BY <1>10, <1>11, <1>12, <1>13, <1>14, <1>15, KeysOnly

LEMMA WriteMasterKeeps ==
  ASSUME IntegrationAssumption, IntegrationInv, NEW r \in request, WriteMaster(r)
  PROVE  IntegrationInv'
<1>1. r.op = "master" /\ request' \subseteq request /\ UNCHANGED <<line, asked, retired>>
  BY DEF WriteMaster, Done
<1>2. r.name \in Name /\ asked' \in 0..MaxRequests /\ request \subseteq Requests
  BY <1>1 DEF IntegrationInv, IntegrationTypeOK, Requests
<1>3. CASE \E k \in Keys : key[k].name = r.name
  <2>1. UNCHANGED <<key, hashes, crossed>>
    BY <1>3 DEF WriteMaster
  <2>2. \A x \in request' : x \in Requests /\ x \in request
    BY <1>1, <1>2
  <2> QED BY <1>1, <1>2, <2>1, <2>2, ReadsKeep
<1>4. CASE ~\E k \in Keys : key[k].name = r.name
  <2>1. PICK k \in Key : NextKey(k) /\ key' = [key EXCEPT ![k] = NewKey(Null, hashes + 1, r.name)]
    BY <1>4 DEF WriteMaster
  <2>2. NewHash /\ crossed' = IF ActiveMasters = {} THEN crossed ELSE crossed \cup {<<"masters", 0>>}
    BY <1>4 DEF WriteMaster
  <2>3. crossed \subseteq crossed' /\ (ActiveMasters = {} \/ <<"masters", 0>> \in crossed')
    BY <2>2
  <2> QED BY <1>1, <1>2, <2>1, <2>2, <2>3, NewKeyKeeps
<1> QED BY <1>3, <1>4

LEMMA WriteKeyKeeps ==
  ASSUME IntegrationAssumption, IntegrationInv, NEW r \in request, WriteKey(r)
  PROVE  IntegrationInv'
<1>1. r.op = "create" /\ request' \subseteq request /\ UNCHANGED <<line, asked, retired>>
  BY DEF WriteKey, Done
<1>2. r.line \in Line /\ asked' \in 0..MaxRequests /\ request \subseteq Requests
  BY <1>1 DEF IntegrationInv, IntegrationTypeOK, Requests
<1>3. CASE ~(r.line \in Lines /\ KeysOf(r.line) = {})
  <2>1. UNCHANGED <<key, hashes, crossed>>
    BY <1>3 DEF WriteKey
  <2>2. \A x \in request' : x \in Requests /\ x \in request
    BY <1>1, <1>2
  <2> QED BY <1>1, <1>2, <2>1, <2>2, ReadsKeep
<1>4. CASE r.line \in Lines /\ KeysOf(r.line) = {}
  <2>1. PICK k \in Key : NextKey(k) /\ key' = [key EXCEPT ![k] = NewKey(r.line, hashes + 1, Null)]
    BY <1>4 DEF WriteKey
  <2>2. NewHash /\ crossed' = IF line[r.line].active /\ ~Removing(r.line) THEN crossed ELSE crossed \cup {<<"line", r.line>>}
    BY <1>4 DEF WriteKey
  <2>3. crossed \subseteq crossed' /\ (<<"line", r.line>> \in crossed' \/ (line[r.line].active /\ ~Removing(r.line)))
    BY <2>2
  <2>4. r.line # Null
    BY <1>4 DEF Lines, IntegrationAssumption, Line
  <2> QED BY <1>1, <1>2, <1>4, <2>1, <2>2, <2>3, <2>4, NewKeyKeeps
<1> QED BY <1>3, <1>4

\* A master and the keys made from it, or the one key, are closed or get a new AUTH KEY.
LEMMA WriteChangeKeeps ==
  ASSUME IntegrationAssumption, IntegrationInv, NEW r \in request, WriteChange(r)
  PROVE  IntegrationInv'
<1>1. r.op \in {"revoke", "regenerate"} /\ request' \subseteq request /\ UNCHANGED <<line, asked>>
  BY DEF WriteChange, Done
<1>2. /\ r.key \in Key /\ r.hash \in Hash /\ r.hash \in Nat /\ asked' \in 0..MaxRequests /\ request \subseteq Requests /\ Held(r)
      /\ key \in [Key -> KeyRow \cup {Null, Gone}] /\ retired \subseteq 1..hashes
  BY <1>1 DEF IntegrationInv, IntegrationTypeOK, Requests, Hash
<1>3. CASE r.key \notin Keys
  <2>1. UNCHANGED <<key, hashes, retired, crossed>>
    BY <1>3 DEF WriteChange
  <2>2. \A x \in request' : x \in Requests /\ x \in request
    BY <1>1, <1>2
  <2> QED BY <1>1, <1>2, <2>1, <2>2, ReadsKeep
<1>4. CASE r.key \in Keys
  <2> DEFINE F == Family(r.key, r.hash)
             fresh == r.op = "regenerate"
             master == key[r.key].line = Null
  <2>1. /\ IF fresh THEN NewHash ELSE UNCHANGED hashes
        /\ key' = [k \in Key |-> IF k \notin F THEN key[k]
                                 ELSE IF fresh THEN [key[k] EXCEPT !.hash = hashes + 1, !.active = TRUE]
                                 ELSE [key[k] EXCEPT !.active = FALSE]]
        /\ retired' = IF master THEN retired \cup {r.hash, key[r.key].hash} ELSE retired
        /\ crossed' = crossed
             \cup (IF fresh /\ master /\ ActiveMasters \ {r.key} # {} THEN {<<"masters", 0>>} ELSE {})
             \cup (IF master /\ key[r.key].hash # r.hash THEN {<<"hashes", 0>>} ELSE {})
    BY <1>4 DEF WriteChange
  <2>2. F \subseteq Keys /\ r.key \in F
    BY <1>4 DEF Family
  <2>3. \A k \in Keys : k \in Key /\ key[k] \in KeyRow /\ key[k].hash \in Nat /\ key[k].hash <= hashes /\ key[k].hash \in Hash
    BY Rows DEF IntegrationInv, Hash
  <2>4. hashes \in Nat /\ hashes \in Hash /\ hashes' \in Nat /\ hashes <= hashes' /\ hashes' \in 1..MaxHash
          /\ (fresh => hashes' = hashes + 1 /\ hashes + 1 \in Hash)
    <3>1. hashes \in Nat /\ hashes \in 1..MaxHash /\ MaxHash \in Nat
      BY Rows DEF IntegrationInv, IntegrationAssumption
    <3>2. IF fresh THEN hashes < MaxHash /\ hashes' = hashes + 1 ELSE hashes' = hashes
      BY <2>1 DEF NewHash
    <3> HIDE DEF fresh
    <3>3. CASE fresh
      BY <3>1, <3>2, <3>3 DEF Hash
    <3>4. CASE ~fresh
      BY <3>1, <3>2, <3>4 DEF Hash
    <3> QED BY <3>3, <3>4
  <2>5. \A k \in F : key[k].line = Null => k = r.key
    <3> SUFFICES ASSUME NEW k \in F, key[k].line = Null, k # r.key PROVE FALSE
      OBVIOUS
    <3>1. master /\ key[k].hash = r.hash /\ k \in Keys
      BY <2>2 DEF Family
    <3>2. IsMaster(k) /\ IsMaster(r.key) /\ k \in Key
      BY <1>4, <3>1, <2>3 DEF IsMaster
    <3> QED BY <1>1, <1>2, <3>1, <3>2 DEF Held
  <2>6. master => \A k \in Keys : key[k].hash = r.hash => k \in F
    BY <1>4 DEF Family
  <2> HIDE DEF F
  <2>7. \A k \in Key \ F : key'[k] = key[k]
    BY <2>1
  <2>8. ASSUME NEW k \in F
        PROVE  /\ k \in Key /\ key'[k] \in KeyRow /\ key'[k].line = key[k].line
               /\ fresh => key'[k].hash = hashes + 1
               /\ ~fresh => key'[k].hash = key[k].hash /\ ~key'[k].active
    <3>1. k \in Key /\ key[k] \in KeyRow
      BY <2>2, <2>3
    <3>2. PICK v \in KeyRow : v = key[k]
      BY <3>1
    <3>3. CASE fresh
      <4>1. PICK h \in Hash : h = hashes + 1
        BY <2>4, <3>3
      <4>2. PICK w \in KeyRow : w = [v EXCEPT !.hash = h, !.active = TRUE] /\ w.hash = h /\ w.line = v.line
        BY ChangedRow
      <4>3. key'[k] = w
        BY <2>1, <3>1, <3>2, <3>3, <4>1, <4>2
      <4> QED BY <3>1, <3>2, <3>3, <4>1, <4>2, <4>3
    <3>4. CASE ~fresh
      <4>1. key'[k] = [v EXCEPT !.active = FALSE]
        BY <2>1, <3>1, <3>2, <3>4
      <4> QED BY <3>1, <3>2, <3>4, <4>1, <2>4, ChangedRow
    <3> QED BY <3>3, <3>4
  <2>9. Keys' = Keys
    <3>1. \A k \in F : k \in Keys /\ key'[k] \notin {Null, Gone}
      BY <2>2, <2>8 DEF IntegrationAssumption
    <3> QED BY <2>7, <3>1 DEF Keys
  <2>10. ASSUME NEW k \in Keys
         PROVE  /\ k \in Key /\ key'[k].line = key[k].line
                /\ k \notin F => key'[k] = key[k]
                /\ key'[k].hash = key[k].hash \/ (fresh /\ k \in F /\ key'[k].hash = hashes + 1)
    BY <2>3, <2>7, <2>8
  <2>11. IntegrationTypeOK'
    <3>1. key' \in [Key -> KeyRow \cup {Null, Gone}]
      <4>1. \A k \in Key : key'[k] \in KeyRow \cup {Null, Gone}
        BY <1>2, <2>7, <2>8
      <4>2. DOMAIN key' = Key /\ key' = [k \in Key |-> key'[k]]
        BY <2>1
      <4> QED BY <4>1, <4>2
    <3>2. \A k \in Keys' : key'[k].hash <= hashes'
      BY <2>3, <2>4, <2>9, <2>10
    <3>3. retired' \subseteq 1..hashes'
      <4>1. r.hash \in 1..hashes' /\ key[r.key].hash \in 1..hashes'
        BY <1>1, <1>2, <1>4, <2>3, <2>4 DEF Held, Hash
      <4>2. \A h \in retired' : h \in retired \/ h = r.hash \/ h = key[r.key].hash
        BY <2>1
      <4>3. retired \subseteq 1..hashes'
        BY <1>2, <2>4
      <4> QED BY <4>1, <4>2, <4>3
    <3> QED BY <1>1, <1>2, <2>4, <3>1, <3>2, <3>3 DEF IntegrationInv, IntegrationTypeOK
  <2>12. KeyStep
    <3>1. \A k \in Key : key[k] = Gone => key'[k] = Gone
      BY <2>2, <2>7 DEF Keys
    <3>2. \A j, k \in Keys' : key'[j].line = Null /\ key'[k].line = Null
                              /\ key'[j].hash = hashes + 1 /\ key'[k].hash = hashes + 1 => j = k
      <4>1. \A k \in Keys : key'[k].line = Null /\ key'[k].hash = hashes + 1 => k = r.key
        BY <2>3, <2>4, <2>5, <2>10
      <4> QED BY <4>1, <2>9
    <3> QED BY <2>4, <2>9, <2>10, <3>1, <3>2 DEF KeyStep
  <2>13. RetiredKeysAreDead'
    <3> SUFFICES ASSUME <<"hashes", 0>> \notin crossed', NEW k \in Keys', key'[k].active, key'[k].hash \in retired'
                 PROVE  FALSE
      BY DEF RetiredKeysAreDead
    <3>1. k \in Keys /\ <<"hashes", 0>> \notin crossed /\ (master => key[r.key].hash = r.hash)
      BY <2>1, <2>9
    <3>2. CASE k \in F
      <4>1. fresh /\ key'[k].hash = hashes + 1
        BY <3>2, <2>8
      <4>2. hashes + 1 \notin retired /\ r.hash <= hashes /\ key[r.key].hash <= hashes
        BY <1>1, <1>2, <1>4, <2>3, <2>4 DEF Held
      <4>3. hashes + 1 # r.hash /\ hashes + 1 # key[r.key].hash
        BY <4>2, <1>2, <1>4, <2>3, <2>4
      <4>4. hashes + 1 \notin retired'
        BY <4>2, <4>3, <2>1
      <4> QED BY <4>1, <4>4
    <3>3. CASE k \notin F
      <4>1. key'[k] = key[k]
        BY <2>10, <3>1, <3>3
      <4>2. key[k].hash \notin retired
        BY <4>1, <3>1 DEF IntegrationInv, RetiredKeysAreDead
      <4>3. key[k].hash \in retired'
        BY <4>1
      <4>4. master /\ key[k].hash \in {r.hash, key[r.key].hash}
        BY <4>2, <4>3, <2>1
      <4>5. key[k].hash = r.hash
        BY <4>4, <3>1
      <4> QED BY <4>4, <4>5, <2>6, <3>1, <3>3
    <3> QED BY <3>2, <3>3
  <2>14. OneMaster'
    <3>1. \A k \in ActiveMasters' : k \in ActiveMasters \/ (fresh /\ master /\ k = r.key)
      BY <2>2, <2>5, <2>8, <2>9, <2>10 DEF ActiveMasters, master
    <3> QED BY <3>1, <2>1 DEF IntegrationInv, OneMaster, Sole
  <2>15. KeyLines'
    <3>1. crossed \subseteq crossed' /\ Lines' = Lines /\ line' = line
      BY <1>1, <2>1 DEF Lines
    <3>2. KeyLines
      BY DEF IntegrationInv
    <3> QED BY <3>1, <3>2, <2>9, <2>10 DEF KeyLines
  <2>16. crossed \subseteq crossed'
    BY <2>1
  <2>17. \A l \in Line : \A k \in Keys' : key'[k].line = l => k \in Keys /\ key[k].line = l
    BY <2>9, <2>10
  <2> QED BY <1>1, <2>11, <2>12, <2>13, <2>14, <2>15, <2>16, <2>17, KeysOnly
<1> QED BY <1>3, <1>4

LEMMA RemoveKeyKeeps ==
  ASSUME IntegrationAssumption, IntegrationInv, NEW k \in Key, RemoveKey(k)
  PROVE  IntegrationInv'
<1>1. /\ k \in Keys /\ key[k].line # Null /\ asked < MaxRequests /\ asked' = asked + 1
      /\ key' = [key EXCEPT ![k] = Gone] /\ UNCHANGED <<line, hashes, request, retired, crossed>>
  BY DEF RemoveKey
<1>2. key \in [Key -> KeyRow \cup {Null, Gone}] /\ asked' \in 0..MaxRequests
  BY <1>1, AskedIsNat DEF IntegrationInv, IntegrationTypeOK, IntegrationAssumption
<1>3. key'[k] = Gone /\ \A j \in Key : j # k => key'[j] = key[j]
  BY <1>1, <1>2
<1>4. Keys' = Keys \ {k}
  BY <1>3 DEF Keys
<1>5. \A j \in Keys' : j \in Keys /\ j \in Key /\ key'[j] = key[j]
  BY <1>3, <1>4 DEF Keys
<1>6. IntegrationTypeOK'
  <2>1. key' \in [Key -> KeyRow \cup {Null, Gone}]
    BY <1>1, <1>2
  <2> QED BY <1>1, <1>2, <1>5, <2>1 DEF IntegrationInv, IntegrationTypeOK
<1>7. KeyStep
  <2>1. hashes \in Nat /\ \A j \in Keys : key[j].hash \in Nat /\ key[j].hash <= hashes
    BY Rows DEF IntegrationInv, Hash
  <2>2. \A j \in Keys' : key'[j].hash # hashes + 1
    BY <1>5, <2>1
  <2> QED BY <1>1, <1>3, <1>4, <1>5, <2>1, <2>2 DEF KeyStep, Keys
<1>8. RetiredKeysAreDead' /\ KeyLines'
  BY <1>1, <1>5 DEF IntegrationInv, RetiredKeysAreDead, KeyLines, Lines
<1>9. OneMaster'
  <2>1. ActiveMasters' \subseteq ActiveMasters
    BY <1>5 DEF ActiveMasters
  <2> QED BY <1>1, <2>1 DEF IntegrationInv, OneMaster, Sole
<1> QED BY <1>1, <1>5, <1>6, <1>7, <1>8, <1>9, KeysOnly

-----------------------------------------------------------------------------
(* Lines and their keys. *)

\* The line of a device is made or woken up, and its key gets the hash the master had.
LEMMA ProvisionKeeps ==
  ASSUME IntegrationAssumption, IntegrationInv, NEW r \in request, Provision(r)
  PROVE  IntegrationInv'
<1> DEFINE known == {l \in Lines : line[l].device = r.device}
<1>1. r.op = "provision" /\ request' \subseteq request /\ UNCHANGED <<hashes, asked, retired>>
  BY DEF Provision, Done
<1>2. /\ r.device \in Device /\ r.hash \in Hash /\ r.hash <= hashes /\ asked' \in 0..MaxRequests
      /\ key \in [Key -> KeyRow \cup {Null, Gone}] /\ line \in [Line -> LineRow \cup {Null, Gone}]
  BY <1>1 DEF IntegrationInv, IntegrationTypeOK, Requests, Held
<1> DEFINE home == [device |-> r.device, active |-> TRUE, channel |-> FALSE, used |-> TRUE]
<1>3. PICK l \in IF known = {} THEN {m \in Line : NextLine(m)} ELSE known :
        /\ line' = [line EXCEPT ![l] = home]
        /\ \E k \in IF KeysOf(l) = {} THEN {j \in Key : NextKey(j)} ELSE KeysOf(l) :
             key' = [key EXCEPT ![k] = IF key[k] = Null THEN NewKey(l, r.hash, Null) ELSE [key[k] EXCEPT !.hash = r.hash, !.active = TRUE]]
        /\ crossed' = crossed \cup (IF r.hash \in retired THEN {<<"hashes", 0>>} ELSE {})
                              \cup (IF Removing(l) THEN {<<"line", l>>} ELSE {})
  BY DEF Provision
<1>4. PICK k \in IF KeysOf(l) = {} THEN {j \in Key : NextKey(j)} ELSE KeysOf(l) :
        key' = [key EXCEPT ![k] = IF key[k] = Null THEN NewKey(l, r.hash, Null) ELSE [key[k] EXCEPT !.hash = r.hash, !.active = TRUE]]
  BY <1>3
<1>5. l \in Line /\ l # Null /\ k \in Key /\ line[l] # Gone
  BY <1>3, <1>4 DEF Lines, KeysOf, Keys, NextLine, IntegrationAssumption, Line
<1>6. key[k] = Null \/ (k \in Keys /\ key[k] \in KeyRow /\ key[k].line = l)
  BY <1>4, Rows DEF KeysOf, NextKey, IntegrationInv
<1>7. home \in LineRow /\ home.active /\ ~home.channel /\ home \notin {Null, Gone}
  <2>1. home \in LineRow /\ home.active /\ ~home.channel
    BY <1>2 DEF LineRow
  <2> HIDE DEF home
  <2> QED BY <2>1 DEF IntegrationAssumption
<1>8. PICK row \in KeyRow : key' = [key EXCEPT ![k] = row] /\ row.line = l /\ row.hash = r.hash
  <2>1. CASE key[k] = Null
    <3>1. key' = [key EXCEPT ![k] = NewKey(l, r.hash, Null)]
      BY <1>4, <2>1
    <3>2. NewKey(l, r.hash, Null) \in KeyRow /\ NewKey(l, r.hash, Null).line = l /\ NewKey(l, r.hash, Null).hash = r.hash
      BY <1>2, <1>5 DEF NewKey, KeyRow
    <3> QED BY <3>1, <3>2
  <2>2. CASE key[k] # Null
    <3>1. PICK v \in KeyRow : v = key[k]
      BY <1>6, <2>2
    <3>2. PICK h \in Hash : h = r.hash
      BY <1>2
    <3>3. PICK w \in KeyRow : w = [v EXCEPT !.hash = h, !.active = TRUE] /\ w.hash = h /\ w.line = v.line
      BY ChangedRow
    <3>4. key' = [key EXCEPT ![k] = w]
      BY <1>4, <2>2, <3>1, <3>2, <3>3
    <3> QED BY <1>6, <2>2, <3>1, <3>2, <3>3, <3>4
  <2> QED BY <2>1, <2>2
<1> HIDE DEF home, known
<1>9. row \notin {Null, Gone}
  BY <1>8 DEF IntegrationAssumption
<1>10. key'[k] = row /\ \A j \in Key : j # k => key'[j] = key[j]
  BY <1>2, <1>5, <1>8
<1>11. line'[l] = home /\ \A m \in Line : m # l => line'[m] = line[m]
  BY <1>2, <1>3, <1>5
<1>12. Keys' = Keys \cup {k}
  BY <1>5, <1>9, <1>10 DEF Keys
<1>13. Lines' = Lines \cup {l}
  BY <1>5, <1>7, <1>11 DEF Lines
<1>14. crossed \subseteq crossed' /\ (r.hash \in retired => <<"hashes", 0>> \in crossed') /\ (Removing(l) => <<"line", l>> \in crossed')
  BY <1>3
<1>15. hashes \in Nat /\ \A j \in Keys : j \in Key /\ key[j].hash \in Nat /\ key[j].hash <= hashes
  BY Rows DEF IntegrationInv, Hash
<1>16. IntegrationTypeOK'
  <2>1. key' \in [Key -> KeyRow \cup {Null, Gone}]
    BY <1>2, <1>8
  <2>2. line' \in [Line -> LineRow \cup {Null, Gone}]
    BY <1>2, <1>3, <1>7
  <2>3. \A j \in Keys' : key'[j].hash <= hashes'
    BY <1>1, <1>2, <1>8, <1>10, <1>12, <1>15
  <2> QED BY <1>1, <1>2, <2>1, <2>2, <2>3 DEF IntegrationInv, IntegrationTypeOK
<1>17. KeyStep
  <2>1. \A j \in Key : key[j] = Gone => key'[j] = Gone
    BY <1>6, <1>10 DEF Keys, IntegrationAssumption
  <2>2. \A j \in Keys : j \in Keys' /\ key'[j].line = key[j].line
    BY <1>6, <1>8, <1>10, <1>12, <1>15 DEF Keys
  <2>3. \A j \in Keys' : key'[j].line = Null => j \in Keys /\ key[j].line = Null /\ key'[j].hash = key[j].hash
    BY <1>5, <1>8, <1>10, <1>12, <1>15
  <2>4. \A j \in Keys' : key'[j].line = Null => key'[j].hash # hashes + 1
    BY <2>3, <1>15
  <2> QED BY <1>1, <1>15, <2>1, <2>2, <2>3, <2>4 DEF KeyStep
<1>18. LineStep
  <2>1. \A m \in Line : line[m] # Null => line'[m] # Null
    BY <1>7, <1>11
  <2>2. ASSUME NEW m \in Line, Removing(m), <<"line", m>> \notin crossed', NEW j \in Keys', key'[j].line = m
        PROVE  j \in Keys /\ key[j].line = m
    BY <2>2, <1>8, <1>10, <1>12, <1>14, <1>15
  <2> QED BY <1>14, <2>1, <2>2 DEF LineStep
<1>19. RetiredKeysAreDead'
  BY <1>1, <1>8, <1>10, <1>12, <1>14, <1>15 DEF IntegrationInv, RetiredKeysAreDead
<1>20. OneMaster'
  <2>1. ActiveMasters' \subseteq ActiveMasters
    BY <1>5, <1>8, <1>10, <1>12, <1>15 DEF ActiveMasters
  <2> QED BY <1>14, <2>1 DEF IntegrationInv, OneMaster, Sole
<1>21. OneChannel'
  <2>1. ActiveChannels' \subseteq ActiveChannels
    BY <1>5, <1>7, <1>11, <1>13 DEF ActiveChannels, Lines
  <2> QED BY <1>14, <2>1 DEF IntegrationInv, OneChannel, Sole
<1>22. KeyLines'
  <2> SUFFICES ASSUME NEW j \in Keys', key'[j].line # Null
               PROVE  key'[j].line \in Lines' /\ (<<"line", key'[j].line>> \in crossed' \/ line'[key'[j].line].active)
    BY DEF KeyLines
  <2>1. CASE key'[j].line = l
    BY <2>1, <1>7, <1>11, <1>13
  <2>2. CASE key'[j].line # l
    <3>1. j \in Keys /\ key'[j] = key[j]
      BY <2>2, <1>8, <1>10, <1>12, <1>15
    <3>2. key[j].line \in Lines /\ (<<"line", key[j].line>> \in crossed \/ line[key[j].line].active)
      BY <3>1 DEF IntegrationInv, KeyLines
    <3>3. line'[key[j].line] = line[key[j].line]
      BY <3>1, <3>2, <2>2, <1>11 DEF Lines
    <3> QED BY <3>1, <3>2, <3>3, <1>13, <1>14
  <2> QED BY <2>1, <2>2
<1> QED BY <1>1, <1>16, <1>17, <1>18, <1>19, <1>20, <1>21, <1>22, After

\* A line that was ever used is archived; else it goes, and its key with it.
LEMMA WriteRemovalKeeps ==
  ASSUME IntegrationAssumption, IntegrationInv, NEW r \in request, WriteRemoval(r)
  PROVE  IntegrationInv'
<1>1. r.op = "remove" /\ request' \subseteq request /\ UNCHANGED <<hashes, asked, retired, crossed>>
  BY DEF WriteRemoval, Done
<1>2. /\ r.line \in Line /\ asked' \in 0..MaxRequests /\ Held(r) /\ request \subseteq Requests
      /\ key \in [Key -> KeyRow \cup {Null, Gone}] /\ line \in [Line -> LineRow \cup {Null, Gone}]
  BY <1>1 DEF IntegrationInv, IntegrationTypeOK, Requests
<1>3. KeysOf(r.line) = {} \/ <<"line", r.line>> \in crossed
  BY <1>1, <1>2 DEF Held
<1>4. hashes \in Nat /\ \A k \in Keys : k \in Key /\ key[k].hash \in Nat /\ key[k].hash <= hashes
  BY Rows DEF IntegrationInv, Hash
<1>5. r.line # Null
  BY <1>2 DEF Line, IntegrationAssumption
<1>6. CASE r.line \notin Lines
  <2>1. UNCHANGED <<line, key>>
    BY <1>6 DEF WriteRemoval
  <2>2. \A x \in request' : x \in Requests /\ x \in request
    BY <1>1, <1>2
  <2> QED BY <1>1, <1>2, <2>1, <2>2, ReadsKeep
<1>7. CASE r.line \in Lines /\ r.used
  <2>1. line' = [line EXCEPT ![r.line].active = FALSE] /\ UNCHANGED key
    BY <1>7 DEF WriteRemoval
  <2>2. PICK v \in LineRow : v = line[r.line]
    BY <1>7, Rows DEF IntegrationInv
  <2>3. PICK w \in LineRow : w = [v EXCEPT !.active = FALSE] /\ ~w.active
    BY ArchivedRow
  <2>4. line' = [line EXCEPT ![r.line] = w] /\ w \notin {Null, Gone}
    BY <2>1, <2>2, <2>3 DEF IntegrationAssumption
  <2>5. line'[r.line] = w /\ \A l \in Line : l # r.line => line'[l] = line[l]
    BY <1>2, <2>4
  <2>6. Lines' = Lines /\ Keys' = Keys
    BY <1>7, <2>1, <2>4, <2>5 DEF Lines, Keys
  <2>7. IntegrationTypeOK'
    <3>1. line' \in [Line -> LineRow \cup {Null, Gone}]
      BY <1>2, <2>4
    <3> QED BY <1>1, <1>2, <2>1, <2>6, <3>1 DEF IntegrationInv, IntegrationTypeOK
  <2>8. KeyStep
    BY <1>1, <1>4, <2>1, <2>6 DEF KeyStep
  <2>9. LineStep
    BY <1>1, <2>1, <2>4, <2>5, <2>6 DEF LineStep
  <2>10. RetiredKeysAreDead' /\ OneMaster'
    BY <1>1, <2>1, <2>6 DEF IntegrationInv, RetiredKeysAreDead, OneMaster, ActiveMasters, Sole
  <2>11. OneChannel'
    <3>1. ActiveChannels' \subseteq ActiveChannels
      BY <2>3, <2>5, <2>6 DEF ActiveChannels, Lines
    <3> QED BY <1>1, <3>1 DEF IntegrationInv, OneChannel, Sole
  <2>12. KeyLines'
    <3> SUFFICES ASSUME NEW k \in Keys, key[k].line # Null
                 PROVE  key[k].line \in Lines /\ (<<"line", key[k].line>> \in crossed \/ line'[key[k].line].active)
      BY <1>1, <2>1, <2>6 DEF KeyLines
    <3>1. key[k].line \in Lines /\ (<<"line", key[k].line>> \in crossed \/ line[key[k].line].active)
      BY DEF IntegrationInv, KeyLines
    <3>2. CASE key[k].line = r.line
      <4>1. k \in KeysOf(r.line)
        BY <3>2 DEF KeysOf
      <4> QED BY <1>3, <3>1, <3>2, <4>1
    <3>3. CASE key[k].line # r.line
      BY <2>5, <3>1, <3>3 DEF Lines
    <3> QED BY <3>2, <3>3
  <2> QED BY <1>1, <2>7, <2>8, <2>9, <2>10, <2>11, <2>12, After
<1>8. CASE r.line \in Lines /\ ~r.used
  <2>1. line' = [line EXCEPT ![r.line] = Gone] /\ key' = [k \in Key |-> IF k \in KeysOf(r.line) THEN Gone ELSE key[k]]
    BY <1>8 DEF WriteRemoval
  <2>2. line'[r.line] = Gone /\ \A l \in Line : l # r.line => line'[l] = line[l]
    BY <1>2, <2>1
  <2>3. Lines' = Lines \ {r.line}
    BY <2>2 DEF Lines
  <2>4. Keys' = Keys \ KeysOf(r.line)
    BY <2>1 DEF Keys, KeysOf
  <2>5. \A k \in Keys' : k \in Keys /\ key'[k] = key[k] /\ key[k].line # r.line
    BY <1>4, <2>1, <2>4 DEF KeysOf
  <2>6. IntegrationTypeOK'
    <3>1. line' \in [Line -> LineRow \cup {Null, Gone}]
      BY <1>2, <2>1
    <3>2. key' \in [Key -> KeyRow \cup {Null, Gone}]
      BY <1>2, <2>1
    <3> QED BY <1>1, <1>2, <2>5, <3>1, <3>2 DEF IntegrationInv, IntegrationTypeOK
  <2>7. KeyStep
    <3>1. \A k \in Key : key[k] = Gone => key'[k] = Gone
      BY <2>1
    <3>2. \A k \in Keys : (k \in Keys' /\ key'[k].line = key[k].line) \/ (key'[k] = Gone /\ key[k].line # Null)
      BY <1>4, <1>5, <2>1, <2>4, <2>5 DEF KeysOf
    <3>3. \A k \in Keys' : key'[k].hash = key[k].hash /\ key'[k].hash # hashes + 1
      BY <1>4, <2>5
    <3> QED BY <1>1, <1>4, <2>5, <3>1, <3>2, <3>3 DEF KeyStep
  <2>8. LineStep
    <3>1. \A l \in Line : line[l] # Null => line'[l] # Null
      BY <2>2 DEF IntegrationAssumption
    <3> QED BY <1>1, <2>5, <3>1 DEF LineStep
  <2>9. RetiredKeysAreDead'
    BY <1>1, <2>5 DEF IntegrationInv, RetiredKeysAreDead
  <2>10. OneMaster'
    <3>1. ActiveMasters' \subseteq ActiveMasters
      BY <2>5 DEF ActiveMasters
    <3> QED BY <1>1, <3>1 DEF IntegrationInv, OneMaster, Sole
  <2>11. OneChannel'
    <3>1. ActiveChannels' \subseteq ActiveChannels
      BY <2>2, <2>3 DEF ActiveChannels, Lines
    <3> QED BY <1>1, <3>1 DEF IntegrationInv, OneChannel, Sole
  <2>12. KeyLines'
    BY <1>1, <2>2, <2>3, <2>5 DEF IntegrationInv, KeyLines, Lines
  <2> QED BY <1>1, <2>6, <2>7, <2>8, <2>9, <2>10, <2>11, <2>12, After
<1> QED BY <1>6, <1>7, <1>8

-----------------------------------------------------------------------------
LEMMA IntegrationStarts ==
  ASSUME IntegrationAssumption, IntegrationInit PROVE IntegrationInv
<1>1. PICK first \in {Null} \cup [device : {Null}, active : BOOLEAN, channel : BOOLEAN, used : BOOLEAN] :
        line = [l \in Line |-> IF l = 1 THEN first ELSE Null]
  BY DEF IntegrationInit
<1>2. PICK registered \in BOOLEAN :
        key = [k \in Key |-> IF k = 1 /\ registered THEN NewKey(Null, 1, PRINCIPAL) ELSE Null]
  BY DEF IntegrationInit
<1>3. hashes = 1 /\ request = {} /\ asked = 0 /\ retired = {} /\ crossed = {}
  BY DEF IntegrationInit
<1>4. first = Null \/ first \in LineRow
  BY <1>1 DEF LineRow
<1>5. 1 \in Hash
  BY DEF Hash, IntegrationAssumption
<1> DEFINE row == NewKey(Null, 1, PRINCIPAL)
<1>6. row \in KeyRow /\ row.line = Null /\ row.hash = 1
  BY <1>5 DEF NewKey, KeyRow
<1> HIDE DEF row
<1>7. line \in [Line -> LineRow \cup {Null, Gone}]
  BY <1>1, <1>4
<1>8. key \in [Key -> KeyRow \cup {Null, Gone}]
  BY <1>2, <1>6 DEF row
<1>9. \A k \in Keys : k = 1 /\ key[k] = row
  BY <1>2 DEF Keys, row
<1>10. \A l \in Lines : l = 1
  BY <1>1 DEF Lines
<1>11. IntegrationTypeOK
  <2>1. \A k \in Keys : key[k].hash <= hashes
    BY <1>3, <1>6, <1>9
  <2>2. hashes \in 1..MaxHash /\ asked \in 0..MaxRequests
    BY <1>3, <1>5 DEF IntegrationAssumption, Hash
  <2> QED BY <1>3, <1>7, <1>8, <2>1, <2>2 DEF IntegrationTypeOK
<1>12. RetiredKeysAreDead
  BY <1>3 DEF RetiredKeysAreDead
<1>13. OneMaster /\ OneChannel
  BY <1>9, <1>10 DEF OneMaster, OneChannel, Sole, ActiveMasters, ActiveChannels
<1>14. KeyLines /\ MastersApart
  BY <1>6, <1>9 DEF KeyLines, MastersApart, IsMaster
<1> QED BY <1>3, <1>11, <1>12, <1>13, <1>14 DEF IntegrationInv

\* A set whose elements are all one has at most one.
LEMMA AtMostOne ==
  ASSUME NEW S, Sole(S) PROVE Cardinality(S) <= 1
<1>1. CASE S = {}
  BY <1>1, FS_EmptySet
<1>2. CASE S # {}
  <2>1. PICK x \in S : S = {x}
    BY <1>2 DEF Sole
  <2>2. Cardinality({x}) = 1
    BY FS_Singleton
  <2> QED BY <2>1, <2>2
<1> QED BY <1>1, <1>2

(* A retired AUTH KEY opens nothing, there is one active master and one    *)
(* active channel, and no key of an archived line, unless two requests     *)
(* overlapped in the ways the model names (api-credentials.service.ts,     *)
(* user-device.service.ts, instances.service.ts): for any number of lines, *)
(* of keys and of requests at once.                                        *)
THEOREM AccessHolds == ASSUME IntegrationAssumption PROVE IntegrationSpec => []AccessIsSound
<1>1. IntegrationInit => IntegrationInv
  BY IntegrationStarts
<1>2. IntegrationInv /\ [IntegrationNext]_integrationVars => IntegrationInv'
  <2> SUFFICES ASSUME IntegrationInv, [IntegrationNext]_integrationVars PROVE IntegrationInv'
    OBVIOUS
  <2>1. CASE EnsureMaster
    BY <2>1, EnsureMasterKeeps
  <2>2. CASE \E l \in Line : CreateKey(l) \/ UseLine(l) \/ RemoveLine(l)
    BY <2>2, CreateKeyKeeps, UseLineKeeps, RemoveLineKeeps
  <2>3. CASE \E k \in Key : RemoveKey(k) \/ \E op \in {"revoke", "regenerate"} : ChangeKey(k, op)
    BY <2>3, RemoveKeyKeeps, ChangeKeyKeeps
  <2>4. CASE \E h \in 1..hashes, d \in Device : CreateDevice(h, d)
    BY <2>4, CreateDeviceKeeps
  <2>5. CASE \E channel \in BOOLEAN : CreateLine(channel)
    BY <2>5, CreateLineKeeps
  <2>6. ASSUME NEW r \in request,
               \/ FindName(r) \/ WriteMaster(r) \/ WriteKey(r) \/ WriteChange(r)
               \/ OwnedDevice(r) \/ ReadMaster(r) \/ Provision(r) \/ WriteLine(r) \/ WriteRemoval(r)
        PROVE  IntegrationInv'
    BY <2>6, FindNameKeeps, WriteMasterKeeps, WriteKeyKeeps, WriteChangeKeeps, OwnedDeviceKeeps, ReadMasterKeeps,
       ProvisionKeeps, WriteLineKeeps, WriteRemovalKeeps
  <2>7. CASE UNCHANGED integrationVars
    <3>1. UNCHANGED <<line, key, hashes, request, asked, retired, crossed>>
      BY <2>7 DEF integrationVars
    <3>2. asked' \in 0..MaxRequests /\ \A r \in request' : r \in Requests /\ r \in request
      BY <3>1 DEF IntegrationInv, IntegrationTypeOK
    <3> QED BY <3>1, <3>2, ReadsKeep
  <2> QED BY <2>1, <2>2, <2>3, <2>4, <2>5, <2>6, <2>7 DEF IntegrationNext
<1>3. IntegrationInv => AccessIsSound
  BY AtMostOne DEF IntegrationInv, AccessIsSound, LinesAreSound, OneMaster, OneChannel, KeyLines
<1> QED BY <1>1, <1>2, <1>3, PTL DEF IntegrationSpec

-----------------------------------------------------------------------------
(* The visitor's page. *)

Statuses == {RECEIVED, DELIVERED, READ}
Marks == {"read", "agentDelivered", "agentRead"}
Changes == {"edit", "delete"}
Work ==
  [id : Nat, op : Sending \cup Marks \cup Changes, on : SUBSET Message,
   at : {"asked", "checked", "written", "answered", "failed"}, snap : {Blank} \cup BOOLEAN \cup Row \cup Statuses]
Event == [ev : {"created", "updated"}, on : SUBSET Message, snap : Row] \cup [ev : {"status"}, on : SUBSET Message, snap : Statuses]
Threads == [Message -> Row \cup {Blank}]

VisitorTypeOK ==
  /\ message \in Threads /\ page \in Threads /\ (history = Blank \/ history \in Threads)
  /\ chat \in BOOLEAN /\ worked \in Nat /\ work \subseteq Work /\ events \in Seq(Event)
  /\ phase \in {"closed", "loading", "open", "notFound"}

\* What cannot be on the page yet, nor be asked of it.
Early ==
  /\ ~chat => Thread = {}
  /\ \A m \in Message \ Thread : page[m] = Blank /\ (history = Blank \/ history[m] = Blank)
  /\ phase = "closed" => history = Blank
  /\ phase # "open" => \A w \in work : w.op \in Marks \cup {"reply"}

-----------------------------------------------------------------------------
(* Requests and events about the rows: a new row is as it was told until something is    *)
(* written on it.                                                                        *)

Touched(m) == message[m].st # RECEIVED \/ message[m].body # 0 \/ message[m].deleted
Fresh(m) == NewMessage(message[m].from)

Sends(w) ==
  \/ w.at \in {"asked", "checked", "failed"} /\ w.on = {}
  \/ w.at \in {"written", "answered"} /\ \E m \in Message : w.on = {m} /\ w.snap = Fresh(m)
Edits(w) ==
  /\ \E m \in Message : w.on = {m}
  /\ w.at \in {"written", "answered"} => w.snap \in Row /\ \A m \in w.on : message[m].body # 0
Deletes(w) ==
  /\ \E m \in Message : w.on = {m}
  /\ w.at # "failed"
  /\ w.at = "written" => w.snap \in Row
  /\ w.at \in {"written", "answered"} => \A m \in w.on : message[m].deleted
MarksRead(w) ==
  /\ w.at \in {"asked", "checked", "written"}
  /\ w.at = "asked" => w.on = {}
  /\ w.at = "written" => w.snap \in Statuses /\ \A m \in w.on : Touched(m)
Sensible(w) ==
  /\ w.on \subseteq Thread
  /\ w.op \in Sending => Sends(w)
  /\ w.op = "edit" => Edits(w)
  /\ w.op = "delete" => Deletes(w)
  /\ w.op \in Marks => MarksRead(w)

Telling(e) ==
  /\ e.on \subseteq Thread
  /\ e.ev = "created" => \E m \in Message : e.on = {m} /\ e.snap = Fresh(m)
  /\ e.ev # "created" => \A m \in e.on : Touched(m)

\* A row is created once.
Creates(w, m) == w.op \in Sending /\ m \in w.on
CreatedAt(i, m) == i \in 1..Len(events) /\ events[i].ev = "created" /\ m \in events[i].on
Once(m) ==
  /\ \A w, x \in work : Creates(w, m) /\ Creates(x, m) => w = x
  /\ \A i, j \in 1..Len(events) : CreatedAt(i, m) /\ CreatedAt(j, m) => i = j
  /\ \A i \in 1..Len(events), w \in work : CreatedAt(i, m) /\ Creates(w, m) => w.at # "written"

InOrder ==
  /\ \A w \in work : Sensible(w)
  /\ \A i \in 1..Len(events) : Telling(events[i])
  /\ \A m \in Message : Once(m)

-----------------------------------------------------------------------------
(* What the page hears of a message: the events on their way, and the one about to be    *)
(* published.                                                                            *)

On(s, m) == {i \in 1..Len(s) : m \in s[i].on}
Status(e) == IF e.ev = "status" THEN e.snap ELSE e.snap.st
SameCore(r, q) == r.from = q.from /\ r.body = q.body /\ r.deleted = q.deleted

\* The last that is told is true, and nothing is told before the creation.
Tells(s, m, row) ==
  /\ \A i \in On(s, m) : (\A j \in On(s, m) : j <= i) => Status(s[i]) = row.st
  /\ \A i \in On(s, m) :
       s[i].ev # "status" /\ (\A j \in On(s, m) : j > i => s[j].ev = "status") => SameCore(s[i].snap, row)
  /\ \A i, j \in On(s, m) : s[j].ev = "created" => j <= i

\* What is shown is true, but for what is still to be told, or is being deleted (going).
Shows(s, m, row, base, going) ==
  /\ base = Blank => \E i \in On(s, m) : s[i].ev = "created"
  /\ base # Blank /\ (\A i \in On(s, m) : s[i].ev # "updated") =>
       base.from = row.from /\ base.body = row.body /\ (base.deleted = row.deleted \/ (going /\ ~row.deleted))
  /\ base # Blank /\ (\A i \in On(s, m) : s[i].ev = "created") => base.st = row.st

Written(m) == {w \in work : m \in w.on /\ w.at = "written"}
Tales(m) == IF Written(m) = {} THEN {events} ELSE {Append(events, EventOf(w)) : w \in Written(m)}
Based == phase = "open" \/ (phase = "loading" /\ history # Blank)
Base(m) == IF phase = "open" THEN page[m] ELSE history[m]
Going(m) == \E w \in work : m \in w.on /\ w.op = "delete"

Answers(w) == w.op \in Sending \cup {"edit"} /\ w.at \in {"written", "answered"}
KnownBy(m) ==
  /\ \A w, x \in Written(m) : w = x
  /\ \A w \in work : m \in w.on /\ Answers(w) => w.snap = message[m]
Told(m) == \A s \in Tales(m) : Tells(s, m, message[m])
Shown(m) == Based => \A s \in Tales(m) : Shows(s, m, message[m], Base(m), Going(m))
Followed(m) == KnownBy(m) /\ Told(m) /\ Shown(m)

VisitorInv == VisitorTypeOK /\ Early /\ InOrder /\ \A m \in Thread \ missed : Followed(m)

-----------------------------------------------------------------------------
(* Tales. *)

LEMMA Events ==
  ASSUME NEW e \in Event
  PROVE  /\ e.on \subseteq Message /\ e.ev \in {"created", "updated", "status"}
         /\ e.ev = "status" => e.snap \in Statuses
         /\ e.ev # "status" => e.snap \in Row
BY DEF Event

LEMMA OnAppend ==
  ASSUME NEW s \in Seq(Event), NEW e \in Event, NEW m
  PROVE  /\ Append(s, e) \in Seq(Event) /\ Len(s) \in Nat /\ Len(Append(s, e)) = Len(s) + 1
         /\ \A i \in 1..Len(s) : Append(s, e)[i] = s[i] /\ s[i] \in Event
         /\ Append(s, e)[Len(s) + 1] = e
         /\ \A i : i \in On(Append(s, e), m) <=> i \in On(s, m) \/ (i = Len(s) + 1 /\ m \in e.on)
<1>1. /\ Append(s, e) \in Seq(Event) /\ Len(s) \in Nat /\ Len(Append(s, e)) = Len(s) + 1
      /\ \A i \in 1..Len(s) : Append(s, e)[i] = s[i] /\ s[i] \in Event
      /\ Append(s, e)[Len(s) + 1] = e
  OBVIOUS
<1>2. \A i : i \in On(Append(s, e), m) <=> i \in On(s, m) \/ (i = Len(s) + 1 /\ m \in e.on)
  BY <1>1 DEF On
<1> QED BY <1>1, <1>2

LEMMA OnTail ==
  ASSUME NEW s \in Seq(Event), s # <<>>, NEW m
  PROVE  /\ Tail(s) \in Seq(Event) /\ Head(s) = s[1] /\ Head(s) \in Event /\ Len(s) \in Nat \ {0} /\ Len(Tail(s)) = Len(s) - 1
         /\ \A i \in 1..Len(s) - 1 : Tail(s)[i] = s[i + 1] /\ s[i + 1] \in Event
         /\ \A i : i \in On(Tail(s), m) <=> i \in 1..Len(s) - 1 /\ i + 1 \in On(s, m)
<1>1. /\ Tail(s) \in Seq(Event) /\ Head(s) = s[1] /\ Head(s) \in Event /\ Len(s) \in Nat \ {0} /\ Len(Tail(s)) = Len(s) - 1
      /\ \A i \in 1..Len(s) - 1 : Tail(s)[i] = s[i + 1] /\ s[i + 1] \in Event
  OBVIOUS
<1>2. \A i : i \in On(Tail(s), m) <=> i \in 1..Len(s) - 1 /\ i + 1 \in On(s, m)
  BY <1>1 DEF On
<1> QED BY <1>1, <1>2

LEMMA AppendTail ==
  ASSUME NEW s \in Seq(Event), s # <<>>, NEW e \in Event
  PROVE  Tail(Append(s, e)) = Append(Tail(s), e)
<1> DEFINE a == Tail(Append(s, e))
           b == Append(Tail(s), e)
<1>1. Append(s, e) \in Seq(Event) /\ Append(s, e) # <<>> /\ Tail(s) \in Seq(Event) /\ Len(s) \in Nat \ {0}
  OBVIOUS
<1>2. a \in Seq(Event) /\ b \in Seq(Event) /\ Len(a) = Len(s) /\ Len(b) = Len(s)
  BY <1>1
<1>3. \A i \in 1..Len(s) : a[i] = b[i]
  <2> SUFFICES ASSUME NEW i \in 1..Len(s) PROVE a[i] = b[i]
    OBVIOUS
  <2>1. a[i] = Append(s, e)[i + 1]
    BY <1>1
  <2>2. CASE i = Len(s)
    BY <2>1, <2>2, <1>1
  <2>3. CASE i # Len(s)
    BY <2>1, <2>3, <1>1
  <2> QED BY <2>2, <2>3
<1> HIDE DEF a, b
<1>4. a = b
  BY <1>2, <1>3, SeqEqual
<1> QED BY <1>4 DEF a, b

\* Nothing is told of the message.
LEMMA Silence ==
  ASSUME NEW s, NEW m, On(s, m) = {}, NEW row, NEW base, NEW going
  PROVE  /\ Tells(s, m, row)
         /\ Shows(s, m, row, base, going) <=>
              /\ base # Blank /\ base.st = row.st
              /\ base.from = row.from /\ base.body = row.body /\ (base.deleted = row.deleted \/ (going /\ ~row.deleted))
BY DEF Tells, Shows

\* An event about others.
LEMMA OfOthers ==
  ASSUME NEW s \in Seq(Event), NEW e \in Event, NEW m, m \notin e.on, NEW row, NEW base, NEW going
  PROVE  /\ Tells(s, m, row) <=> Tells(Append(s, e), m, row)
         /\ Shows(s, m, row, base, going) <=> Shows(Append(s, e), m, row, base, going)
<1> DEFINE t == Append(s, e)
<1>1. On(t, m) = On(s, m) /\ \A i \in On(s, m) : t[i] = s[i]
  BY OnAppend DEF On
<1> HIDE DEF t
<1>2. Tells(s, m, row) <=> Tells(t, m, row)
  BY <1>1 DEF Tells
<1>3. Shows(s, m, row, base, going) <=> Shows(t, m, row, base, going)
  BY <1>1 DEF Shows
<1> QED BY <1>2, <1>3 DEF t

\* An event about the message alone.
LEMMA First ==
  ASSUME NEW s \in Seq(Event), NEW e \in Event, NEW m, m \in e.on, On(s, m) = {}, NEW row, NEW base, NEW going
  PROVE  /\ Status(e) = row.st /\ (e.ev # "status" => SameCore(e.snap, row)) => Tells(Append(s, e), m, row)
         /\ Shows(Append(s, e), m, row, base, going) <=> Shows(Append(<<>>, e), m, row, base, going)
         /\ base = Blank /\ e.ev = "created" => Shows(Append(s, e), m, row, base, going)
<1> DEFINE t == Append(s, e)
           u == Append(<<>>, e)
           n == Len(s) + 1
<1>0. <<>> \in Seq(Event) /\ On(<<>>, m) = {} /\ Len(<<>>) = 0
  BY DEF On
<1>1. (\A i : i \in On(t, m) <=> i = n) /\ t[n] = e /\ n \in Nat
  BY OnAppend DEF On
<1>2. (\A i : i \in On(u, m) <=> i = 1) /\ u[1] = e
  <2>1. /\ Append(<<>>, e)[Len(<<>>) + 1] = e
        /\ \A i : i \in On(Append(<<>>, e), m) <=> i \in On(<<>>, m) \/ (i = Len(<<>>) + 1 /\ m \in e.on)
    BY <1>0, OnAppend
  <2> QED BY <2>1, <1>0
<1> HIDE DEF t, u, n
<1>3. Status(e) = row.st /\ (e.ev # "status" => SameCore(e.snap, row)) => Tells(t, m, row)
  BY <1>1 DEF Tells
<1>4. Shows(t, m, row, base, going) <=> Shows(u, m, row, base, going)
  BY <1>1, <1>2 DEF Shows
<1>5. base = Blank /\ e.ev = "created" => Shows(t, m, row, base, going)
  BY <1>1 DEF Shows
<1> QED BY <1>3, <1>4, <1>5 DEF t, u

\* What is told of a message last is told truly.
LEMMA Only ==
  ASSUME NEW s \in Seq(Event), NEW e \in Event, NEW m, m \in e.on, NEW row, Tells(Append(s, e), m, row)
  PROVE  Status(e) = row.st /\ (e.ev # "status" => SameCore(e.snap, row))
<1> DEFINE t == Append(s, e)
           n == Len(s) + 1
<1>1. n \in On(t, m) /\ t[n] = e /\ \A j \in On(t, m) : j <= n
  BY OnAppend DEF On
<1> HIDE DEF t, n
<1>2. Tells(t, m, row)
  BY DEF t
<1>3. Status(t[n]) = row.st
  BY <1>1, <1>2 DEF Tells
<1>4. t[n].ev # "status" => SameCore(t[n].snap, row)
  <2>1. \A j \in On(t, m) : ~(j > n)
    <3>1. \A j \in On(t, m) : j \in Nat
      BY OnAppend DEF On, t
    <3>2. n \in Nat
      BY OnAppend DEF n
    <3> QED BY <1>1, <3>1, <3>2
  <2> QED BY <1>1, <1>2, <2>1 DEF Tells
<1> QED BY <1>1, <1>3, <1>4

\* An event about others that comes before the last.
LEMMA OfOthersBefore ==
  ASSUME NEW s \in Seq(Event), NEW e \in Event, NEW f \in Event, NEW m, m \notin e.on, m \in f.on, NEW row, NEW base, NEW going
  PROVE  /\ Tells(Append(s, f), m, row) => Tells(Append(Append(s, e), f), m, row)
         /\ Shows(Append(s, f), m, row, base, going) => Shows(Append(Append(s, e), f), m, row, base, going)
<1> DEFINE t == Append(s, f)
           v == Append(s, e)
           u == Append(v, f)
           n == Len(s) + 1
<1>1. (\A i : i \in On(t, m) <=> i \in On(s, m) \/ i = n) /\ t[n] = f /\ n \in Nat
  BY OnAppend
<1>2. \A i \in On(s, m) : i \in Nat /\ i < n /\ t[i] = s[i] /\ v[i] = s[i]
  BY OnAppend DEF On
<1>3. v \in Seq(Event) /\ Len(v) = n /\ On(v, m) = On(s, m)
  BY OnAppend DEF On
<1> HIDE DEF v
<1>4. (\A i : i \in On(u, m) <=> i \in On(s, m) \/ i = n + 1) /\ u[n + 1] = f
  BY <1>3, OnAppend
<1>5. \A i \in On(s, m) : u[i] = s[i]
  BY <1>2, <1>3, OnAppend DEF On
<1> HIDE DEF t, u, n
<1>6. ASSUME Tells(t, m, row) PROVE Tells(u, m, row)
  <2>1. \A i \in On(u, m) : (\A j \in On(u, m) : j <= i) => Status(u[i]) = row.st
    <3>1. Status(f) = row.st
      BY <1>1, <1>2, <1>6 DEF Tells
    <3>2. \A i \in On(s, m) : ~(n + 1 <= i)
      BY <1>1, <1>2
    <3> QED BY <1>4, <3>1, <3>2
  <2>2. \A i \in On(u, m) :
          u[i].ev # "status" /\ (\A j \in On(u, m) : j > i => u[j].ev = "status") => SameCore(u[i].snap, row)
    <3> SUFFICES ASSUME NEW i \in On(u, m), u[i].ev # "status", \A j \in On(u, m) : j > i => u[j].ev = "status"
                 PROVE  SameCore(u[i].snap, row)
      OBVIOUS
    <3>1. CASE i = n + 1
      <4>1. t[n].ev # "status" /\ \A j \in On(t, m) : ~(j > n)
        BY <3>1, <1>1, <1>2, <1>4
      <4> QED BY <4>1, <3>1, <1>1, <1>4, <1>6 DEF Tells
    <3>2. CASE i \in On(s, m)
      <4>1. \A j \in On(t, m) : j > i => t[j].ev = "status"
        BY <3>2, <1>1, <1>2, <1>4, <1>5
      <4>2. i \in On(t, m) /\ t[i] = u[i]
        BY <3>2, <1>1, <1>2, <1>5
      <4> QED BY <4>1, <4>2, <1>6 DEF Tells
    <3> QED BY <3>1, <3>2, <1>4
  <2>3. \A i, j \in On(u, m) : u[j].ev = "created" => j <= i
    <3> SUFFICES ASSUME NEW i \in On(u, m), NEW j \in On(u, m), u[j].ev = "created" PROVE j <= i
      OBVIOUS
    <3>1. CASE j = n + 1
      <4>1. t[n].ev = "created"
        BY <3>1, <1>1, <1>4
      <4>2. \A k \in On(s, m) : FALSE
        BY <4>1, <1>1, <1>2, <1>6 DEF Tells
      <4>3. i = n + 1
        BY <4>2, <1>4
      <4>4. n + 1 \in Nat
        BY <1>1
      <4> QED BY <3>1, <4>3, <4>4
    <3>2. CASE j \in On(s, m)
      <4>1. t[j].ev = "created" /\ j \in On(t, m)
        BY <3>2, <1>1, <1>2, <1>5
      <4>2. CASE i \in On(s, m)
        BY <4>1, <4>2, <1>1, <1>6 DEF Tells
      <4>3. CASE i = n + 1
        BY <4>3, <3>2, <1>1, <1>2
      <4> QED BY <4>2, <4>3, <1>4
    <3> QED BY <3>1, <3>2, <1>4
  <2> QED BY <2>1, <2>2, <2>3 DEF Tells
<1>7. ASSUME Shows(t, m, row, base, going) PROVE Shows(u, m, row, base, going)
  <2>1. (\E i \in On(t, m) : t[i].ev = "created") => \E i \in On(u, m) : u[i].ev = "created"
    BY <1>1, <1>2, <1>4, <1>5
  <2>2. (\A i \in On(u, m) : u[i].ev # "updated") => \A i \in On(t, m) : t[i].ev # "updated"
    BY <1>1, <1>2, <1>4, <1>5
  <2>3. (\A i \in On(u, m) : u[i].ev = "created") => \A i \in On(t, m) : t[i].ev = "created"
    BY <1>1, <1>2, <1>4, <1>5
  <2> QED BY <2>1, <2>2, <2>3, <1>7 DEF Shows
<1> QED BY <1>6, <1>7 DEF t, u, v

\* A true event about a message that has changed.
LEMMA News ==
  ASSUME NEW s \in Seq(Event), NEW e \in Event, NEW m, m \in e.on, e.ev # "created", NEW row, NEW new, NEW base, NEW going, NEW gone,
         Tells(s, m, row), Status(e) = new.st,
         e.ev = "updated" => SameCore(e.snap, new),
         e.ev = "status" => SameCore(row, new) /\ (going => gone)
  PROVE  /\ Tells(Append(s, e), m, new)
         /\ Shows(s, m, row, base, going) => Shows(Append(s, e), m, new, base, gone)
<1> DEFINE t == Append(s, e)
           n == Len(s) + 1
<1>1. (\A i : i \in On(t, m) <=> i \in On(s, m) \/ i = n) /\ t[n] = e /\ n \in Nat /\ n \in On(t, m)
  BY OnAppend
<1>2. \A i \in On(s, m) : i \in Nat /\ i < n /\ t[i] = s[i]
  BY OnAppend DEF On
<1>3. e.ev \in {"updated", "status"}
  BY Events
<1> HIDE DEF t, n
<1>4. ASSUME NEW i \in On(t, m), \A j \in On(t, m) : j <= i PROVE Status(t[i]) = new.st
  <2>1. n <= i
    BY <1>1, <1>4
  <2>2. i \notin On(s, m)
    <3>1. i \in On(s, m) => i < n /\ i \in Nat
      BY <1>2
    <3> QED BY <1>1, <2>1, <3>1
  <2>3. t[i] = e
    BY <1>1, <2>2
  <2> QED BY <2>3
<1>5. \A i \in On(t, m) :
        t[i].ev # "status" /\ (\A j \in On(t, m) : j > i => t[j].ev = "status") => SameCore(t[i].snap, new)
  <2> SUFFICES ASSUME NEW i \in On(t, m), t[i].ev # "status", \A j \in On(t, m) : j > i => t[j].ev = "status"
               PROVE  SameCore(t[i].snap, new)
    OBVIOUS
  <2>1. CASE i = n
    BY <2>1, <1>1, <1>3
  <2>2. CASE i \in On(s, m)
    <3>1. e.ev = "status" /\ t[i] = s[i]
      BY <2>2, <1>1, <1>2
    <3>2. \A j \in On(s, m) : j > i => s[j].ev = "status"
      BY <1>1, <1>2
    <3>3. SameCore(s[i].snap, row)
      BY <2>2, <3>1, <3>2 DEF Tells
    <3> QED BY <3>1, <3>3 DEF SameCore
  <2> QED BY <2>1, <2>2, <1>1
<1>6. \A i, j \in On(t, m) : t[j].ev = "created" => j <= i
  <2> SUFFICES ASSUME NEW i \in On(t, m), NEW j \in On(t, m), t[j].ev = "created" PROVE j <= i
    OBVIOUS
  <2>1. j \in On(s, m) /\ s[j].ev = "created"
    BY <1>1, <1>2
  <2> QED BY <2>1, <1>1, <1>2 DEF Tells
<1>7. ASSUME Shows(s, m, row, base, going) PROVE Shows(t, m, new, base, gone)
  <2>1. base = Blank => \E i \in On(t, m) : t[i].ev = "created"
    BY <1>7, <1>1, <1>2 DEF Shows
  <2>2. base # Blank /\ (\A i \in On(t, m) : t[i].ev # "updated") =>
          base.from = new.from /\ base.body = new.body /\ (base.deleted = new.deleted \/ (gone /\ ~new.deleted))
    <3> SUFFICES ASSUME base # Blank, \A i \in On(t, m) : t[i].ev # "updated"
                 PROVE  base.from = new.from /\ base.body = new.body /\ (base.deleted = new.deleted \/ (gone /\ ~new.deleted))
      OBVIOUS
    <3>1. e.ev = "status"
      BY <1>1, <1>3
    <3>2. \A i \in On(s, m) : s[i].ev # "updated"
      BY <1>1, <1>2
    <3>3. base.from = row.from /\ base.body = row.body /\ (base.deleted = row.deleted \/ (going /\ ~row.deleted))
      BY <3>2, <1>7 DEF Shows
    <3> QED BY <3>1, <3>3 DEF SameCore
  <2>3. base # Blank /\ (\A i \in On(t, m) : t[i].ev = "created") => base.st = new.st
    BY <1>1
  <2> QED BY <2>1, <2>2, <2>3 DEF Shows
<1>8. Tells(t, m, new)
  BY <1>4, <1>5, <1>6 DEF Tells
<1> QED BY <1>7, <1>8 DEF t

\* The page takes the first event: a tale goes on as true as it was.
Taken(base, e, m) ==
  IF m \notin e.on THEN base
  ELSE IF e.ev = "created" THEN IF base = Blank THEN e.snap ELSE base
  ELSE IF base = Blank THEN Blank
  ELSE IF e.ev = "status" THEN [base EXCEPT !.st = e.snap] ELSE e.snap

LEMMA TailTells ==
  ASSUME NEW s \in Seq(Event), s # <<>>, NEW m, NEW row, Tells(s, m, row)
  PROVE  Tells(Tail(s), m, row)
<1> DEFINE t == Tail(s)
<1>1. \A i \in On(t, m) : i \in Nat /\ i > 0 /\ i + 1 \in On(s, m) /\ t[i] = s[i + 1]
  BY OnTail
<1>2. \A j \in On(s, m) : j \in Nat /\ (j = 1 \/ (j - 1 \in On(t, m) /\ t[j - 1] = s[j]))
  BY OnTail DEF On
<1> HIDE DEF t
<1>3. \A i \in On(t, m) : (\A j \in On(t, m) : j <= i) => Status(t[i]) = row.st
  <2> SUFFICES ASSUME NEW i \in On(t, m), \A j \in On(t, m) : j <= i PROVE Status(t[i]) = row.st
    OBVIOUS
  <2>1. \A j \in On(s, m) : j <= i + 1
    BY <1>1, <1>2
  <2> QED BY <2>1, <1>1 DEF Tells
<1>4. \A i \in On(t, m) :
        t[i].ev # "status" /\ (\A j \in On(t, m) : j > i => t[j].ev = "status") => SameCore(t[i].snap, row)
  <2> SUFFICES ASSUME NEW i \in On(t, m), t[i].ev # "status", \A j \in On(t, m) : j > i => t[j].ev = "status"
               PROVE  SameCore(t[i].snap, row)
    OBVIOUS
  <2>1. \A j \in On(s, m) : j > i + 1 => s[j].ev = "status"
    BY <1>1, <1>2
  <2> QED BY <2>1, <1>1 DEF Tells
<1>5. \A i, j \in On(t, m) : t[j].ev = "created" => j <= i
  BY <1>1 DEF Tells
<1> QED BY <1>3, <1>4, <1>5 DEF Tells, t

LEMMA TailShows ==
  ASSUME NEW s \in Seq(Event), s # <<>>, NEW m, NEW row \in Row, NEW base \in Row \cup {Blank}, NEW going, Blank \notin Row,
         Tells(s, m, row), Shows(s, m, row, base, going)
  PROVE  Shows(Tail(s), m, row, Taken(base, Head(s), m), going)
<1> DEFINE t == Tail(s)
           e == Head(s)
           new == Taken(base, e, m)
<1>1. \A i \in On(t, m) : i \in Nat /\ i > 0 /\ i + 1 \in On(s, m) /\ t[i] = s[i + 1]
  BY OnTail
<1>2. \A j \in On(s, m) : j \in Nat /\ j >= 1 /\ (j = 1 \/ (j - 1 \in On(t, m) /\ t[j - 1] = s[j]))
  BY OnTail DEF On
<1>3. e = s[1] /\ e \in Event /\ (m \in e.on <=> 1 \in On(s, m))
  BY OnTail DEF On
<1>4. /\ e.ev \in {"created", "updated", "status"}
      /\ e.ev = "status" => e.snap \in Statuses
      /\ e.ev # "status" => e.snap \in Row
  BY <1>3, Events
<1> HIDE DEF t, e
<1>5. ASSUME m \notin e.on PROVE Shows(t, m, row, new, going)
  <2>1. new = base /\ 1 \notin On(s, m)
    BY <1>5, <1>3 DEF Taken
  <2>2. \A j \in On(s, m) : j - 1 \in On(t, m) /\ t[j - 1] = s[j]
    BY <2>1, <1>2
  <2> HIDE DEF new
  <2> QED BY <2>1, <2>2, <1>1 DEF Shows
<1>6. ASSUME m \in e.on, e.ev = "created" PROVE Shows(t, m, row, new, going)
  <2>1. \A j \in On(s, m) : s[j].ev = "created" => j = 1
    BY <1>6, <1>3, <1>2 DEF Tells
  <2>2. \A i \in On(t, m) : t[i].ev # "created"
    BY <1>1, <2>1
  <2>3. new # Blank
    BY <1>4, <1>6 DEF Taken
  <2>4. ASSUME \A i \in On(t, m) : t[i].ev # "updated"
        PROVE  new.from = row.from /\ new.body = row.body /\ (new.deleted = row.deleted \/ (going /\ ~row.deleted))
    <3>1. \A j \in On(s, m) : s[j].ev # "updated"
      BY <2>4, <1>2, <1>6, <1>3
    <3>2. CASE base # Blank
      BY <3>1, <3>2, <1>6 DEF Shows, Taken
    <3>3. CASE base = Blank
      <4>0. \A j \in On(t, m) : t[j] \in Event
        BY OnTail DEF t, On
      <4>1. \A j \in On(s, m) : j > 1 => s[j].ev = "status"
        BY <4>0, <2>2, <2>4, <1>2, Events
      <4>2. SameCore(e.snap, row)
        BY <4>1, <1>6, <1>3 DEF Tells
      <4> QED BY <4>2, <3>3, <1>6 DEF SameCore, Taken
    <3> QED BY <3>2, <3>3
  <2>5. ASSUME \A i \in On(t, m) : t[i].ev = "created"
        PROVE  new.st = row.st
    <3>1. \A j \in On(s, m) : j = 1
      BY <2>5, <2>2, <1>2
    <3>2. CASE base # Blank
      BY <3>1, <3>2, <1>6, <1>3 DEF Shows, Taken
    <3>3. CASE base = Blank
      BY <3>1, <3>3, <1>6, <1>3 DEF Tells, Status, Taken
    <3> QED BY <3>2, <3>3
  <2> HIDE DEF new
  <2> QED BY <2>3, <2>4, <2>5 DEF Shows
<1>7. ASSUME m \in e.on, e.ev # "created" PROVE Shows(t, m, row, new, going)
  <2>1. \A j \in On(s, m) : s[j].ev # "created"
    <3>1. \A j \in On(s, m) : s[j].ev = "created" => j = 1
      BY <1>7, <1>3, <1>2 DEF Tells
    <3> QED BY <3>1, <1>7, <1>3
  <2>2. base # Blank
    BY <2>1 DEF Shows
  <2>3. \A i \in On(t, m) : t[i].ev # "created"
    BY <2>1, <1>1
  <2>4. new # Blank /\ (e.ev = "status" => new.from = base.from /\ new.body = base.body /\ new.deleted = base.deleted /\ new.st = e.snap)
    <3>1. base \in Row
      BY <2>2
    <3>2. CASE e.ev = "status"
      <4>1. new = [base EXCEPT !.st = e.snap]
        BY <3>2, <2>2, <1>7 DEF Taken
      <4> HIDE DEF new
      <4>2. new \in Row
        BY <4>1, <3>1, <3>2, <1>4 DEF Row, Statuses
      <4> QED BY <4>1, <4>2, <3>1 DEF Row
    <3>3. CASE e.ev # "status"
      BY <3>3, <2>2, <1>4, <1>7 DEF Taken
    <3> QED BY <3>2, <3>3
  <2>5. e.ev = "updated" => new = e.snap
    BY <2>2, <1>7 DEF Taken
  <2> HIDE DEF new
  <2>6. ASSUME \A i \in On(t, m) : t[i].ev # "updated"
        PROVE  new.from = row.from /\ new.body = row.body /\ (new.deleted = row.deleted \/ (going /\ ~row.deleted))
    <3>0. \A j \in On(t, m) : t[j] \in Event
      BY OnTail DEF t, On
    <3>1. \A j \in On(s, m) : j > 1 => s[j].ev = "status"
      BY <3>0, <2>3, <2>6, <1>2, Events
    <3>2. CASE e.ev = "status"
      <4>1. \A j \in On(s, m) : s[j].ev # "updated"
        BY <3>1, <3>2, <1>2, <1>3
      <4> QED BY <4>1, <2>2, <2>4, <3>2 DEF Shows
    <3>3. CASE e.ev = "updated"
      <4>1. SameCore(e.snap, row)
        BY <3>1, <3>3, <1>7, <1>3 DEF Tells
      <4> QED BY <4>1, <2>5, <3>3 DEF SameCore
    <3> QED BY <3>2, <3>3, <1>4, <1>7
  <2>7. ASSUME \A i \in On(t, m) : t[i].ev = "created"
        PROVE  new.st = row.st
    <3>1. \A j \in On(s, m) : j = 1
      BY <2>7, <2>3, <1>2
    <3>2. Status(e) = row.st
      BY <3>1, <1>7, <1>3 DEF Tells
    <3> QED BY <3>2, <2>4, <2>5, <1>4, <1>7 DEF Status
  <2> QED BY <2>4, <2>6, <2>7 DEF Shows
<1>8. QED
  BY <1>5, <1>6, <1>7 DEF t, e

-----------------------------------------------------------------------------
(* Requests. *)

LEMMA Marking ==
  /\ DOMAIN Bumps = Marks
  /\ \A op \in Marks : Bumps[op].to \in {DELIVERED, READ} /\ Bumps[op].who \in {"agent", "visitor"}
<1>1. DOMAIN Bumps = Marks
  BY DEF Bumps, Marks
<1>2. Bumps["read"] = [who |-> "agent", from |-> {RECEIVED, DELIVERED}, to |-> READ]
  BY DEF Bumps
<1>3. Bumps["agentDelivered"] = [who |-> "visitor", from |-> {RECEIVED}, to |-> DELIVERED]
  BY DEF Bumps
<1>4. Bumps["agentRead"] = [who |-> "visitor", from |-> {RECEIVED, DELIVERED}, to |-> READ]
  BY DEF Bumps
<1>5. \A op \in Marks : Bumps[op].to \in {DELIVERED, READ} /\ Bumps[op].who \in {"agent", "visitor"}
  BY <1>2, <1>3, <1>4 DEF Marks
<1> QED BY <1>1, <1>5

LEMMA Kinds ==
  ASSUME NEW w \in Work
  PROVE  /\ w.id \in Nat /\ w.on \subseteq Message
         /\ w.op \in {"text", "file", "reply", "edit", "delete", "read", "agentDelivered", "agentRead"}
         /\ w.op \in Sending <=> w.op \in {"text", "file", "reply"}
         /\ w.op \in Marks <=> w.op \in {"read", "agentDelivered", "agentRead"}
         /\ w.at \in {"asked", "checked", "written", "answered", "failed"}
         /\ w.snap \in {Blank} \cup BOOLEAN \cup Row \cup Statuses
BY DEF Work, Sending, Marks, Changes

LEMMA Moved ==
  ASSUME NEW w \in Work, NEW a, NEW o, NEW s
  PROVE  /\ [w EXCEPT !.at = a] = [id |-> w.id, op |-> w.op, on |-> w.on, at |-> a, snap |-> w.snap]
         /\ [w EXCEPT !.at = a, !.snap = s] = [id |-> w.id, op |-> w.op, on |-> w.on, at |-> a, snap |-> s]
         /\ [w EXCEPT !.at = a, !.on = o] = [id |-> w.id, op |-> w.op, on |-> o, at |-> a, snap |-> w.snap]
         /\ [w EXCEPT !.at = a, !.on = o, !.snap = s] = [id |-> w.id, op |-> w.op, on |-> o, at |-> a, snap |-> s]
<1> DEFINE v == [w EXCEPT !.at = a]
           u == [v EXCEPT !.on = o]
<1>1. v = [id |-> w.id, op |-> w.op, on |-> w.on, at |-> a, snap |-> w.snap]
  BY DEF Work
<1>2. /\ [w EXCEPT !.at = a, !.snap = s] = [v EXCEPT !.snap = s]
      /\ [w EXCEPT !.at = a, !.on = o] = u
      /\ [w EXCEPT !.at = a, !.on = o, !.snap = s] = [u EXCEPT !.snap = s]
  OBVIOUS
<1> HIDE DEF v
<1>3. [v EXCEPT !.snap = s] = [id |-> w.id, op |-> w.op, on |-> w.on, at |-> a, snap |-> s]
  BY <1>1
<1>4. u = [id |-> w.id, op |-> w.op, on |-> o, at |-> a, snap |-> w.snap]
  BY <1>1
<1> HIDE DEF u
<1>5. [u EXCEPT !.snap = s] = [id |-> w.id, op |-> w.op, on |-> o, at |-> a, snap |-> s]
  BY <1>4
<1>6. [w EXCEPT !.at = a] = v
  BY DEF v
<1> QED BY <1>1, <1>2, <1>3, <1>4, <1>5, <1>6

\* What a request becomes is a request.
LEMMA MovedOn ==
  ASSUME NEW w \in Work, NEW a \in {"asked", "checked", "written", "answered", "failed"}, NEW o \in SUBSET Message,
         NEW s \in {Blank} \cup BOOLEAN \cup Row \cup Statuses
  PROVE  [id |-> w.id, op |-> w.op, on |-> o, at |-> a, snap |-> s] \in Work
BY DEF Work

LEMMA NewRow ==
  ASSUME NEW who \in {"visitor", "agent"}
  PROVE  NewMessage(who) \in Row /\ NewMessage(who) = [from |-> who, body |-> 0, deleted |-> FALSE, st |-> RECEIVED]
BY DEF NewMessage, Row

LEMMA ThreadRows ==
  ASSUME VisitorAssumption, VisitorTypeOK
  PROVE  /\ Thread \subseteq Message
         /\ \A m \in Message : m \in Thread <=> message[m] # Blank
         /\ \A m \in Thread : message[m] \in Row /\ message[m].from \in {"visitor", "agent"} /\ message[m].body \in Nat
              /\ message[m].deleted \in BOOLEAN /\ message[m].st \in Statuses
         /\ \A m \in Thread : Fresh(m) \in Row /\ Fresh(m).st = RECEIVED /\ Fresh(m).body = 0 /\ Fresh(m).deleted = FALSE
<1>1. Thread \subseteq Message /\ \A m \in Message : m \in Thread <=> message[m] # Blank
  BY DEF Thread
<1>2. ASSUME NEW m \in Thread PROVE message[m] \in Row
  BY DEF Thread, VisitorTypeOK, Threads
<1>3. \A m \in Thread : message[m].from \in {"visitor", "agent"} /\ message[m].body \in Nat
              /\ message[m].deleted \in BOOLEAN /\ message[m].st \in Statuses
  BY <1>2 DEF Row, Statuses
<1>4. \A m \in Thread : Fresh(m) \in Row /\ Fresh(m).st = RECEIVED /\ Fresh(m).body = 0 /\ Fresh(m).deleted = FALSE
  BY <1>3, NewRow DEF Fresh
<1> QED BY <1>1, <1>2, <1>3, <1>4

\* What is published of a request.
LEMMA Publishing ==
  ASSUME VisitorAssumption, VisitorTypeOK, NEW w \in work, Sensible(w), w.at = "written"
  PROVE  /\ EventOf(w) \in Event /\ EventOf(w).on = w.on /\ EventOf(w).snap = w.snap /\ Telling(EventOf(w))
         /\ EventOf(w).ev = "created" <=> w.op \in Sending
         /\ EventOf(w).ev = "status" <=> w.op \in Marks
<1> DEFINE e == EventOf(w)
<1>0. w \in Work
  BY DEF VisitorTypeOK
<1>1. w.on \in SUBSET Message /\ w.on \subseteq Thread
  BY ThreadRows DEF Sensible
<1>2. CASE w.op \in Sending
  <2>1. e = [ev |-> "created", on |-> w.on, snap |-> w.snap]
    BY <1>2 DEF EventOf
  <2>2. \E m \in Message : w.on = {m} /\ w.snap = Fresh(m)
    BY <1>2 DEF Sensible, Sends
  <2>3. w.snap \in Row
    BY <2>2, <1>1, ThreadRows
  <2> HIDE DEF e
  <2>4. e \in Event
    BY <2>1, <2>3, <1>1 DEF Event
  <2> QED BY <2>1, <2>2, <2>4, <1>0, <1>1, <1>2, Kinds DEF Telling, e
<1>3. CASE w.op \in Marks
  <2>1. e = [ev |-> "status", on |-> w.on, snap |-> w.snap]
    BY <1>3, <1>0, Kinds, Marking DEF EventOf
  <2>2. w.snap \in Statuses /\ \A m \in w.on : Touched(m)
    BY <1>3 DEF Sensible, MarksRead
  <2> HIDE DEF e
  <2>4. e \in Event
    BY <2>1, <2>2, <1>1 DEF Event
  <2> QED BY <2>1, <2>2, <2>4, <1>0, <1>1, <1>3, Kinds DEF Telling, e
<1>4. CASE w.op \notin Sending \cup Marks
  <2>1. e = [ev |-> "updated", on |-> w.on, snap |-> w.snap]
    BY <1>4, Marking DEF EventOf
  <2>2. w.op = "edit" \/ w.op = "delete"
    BY <1>0, <1>4, Kinds
  <2>3. w.snap \in Row /\ \A m \in w.on : Touched(m)
    BY <2>2 DEF Sensible, Edits, Deletes, Touched
  <2> HIDE DEF e
  <2>4. e \in Event
    BY <2>1, <2>3, <1>1 DEF Event
  <2> QED BY <2>1, <2>3, <2>4, <1>1, <1>4 DEF Telling, e
<1> QED BY <1>2, <1>3, <1>4

-----------------------------------------------------------------------------
(* What every step leaves in order. *)

\* A row stays of whom it is, and what was written on it stays written.
RowsGrow ==
  \A m \in Thread :
    /\ m \in Thread' /\ message'[m].from = message[m].from
    /\ Touched(m) => Touched(m)'
    /\ message[m].body # 0 => message'[m].body # 0
    /\ message[m].deleted => message'[m].deleted

LEMMA StillSensible ==
  ASSUME RowsGrow, NEW w, Sensible(w)
  PROVE  Sensible(w)'
<1>1. w.on \subseteq Thread /\ w.on \subseteq Thread'
  BY DEF Sensible, RowsGrow
<1>2. w.op \in Sending => Sends(w)'
  BY <1>1 DEF Sensible, Sends, RowsGrow, Fresh
<1>3. w.op = "edit" => Edits(w)'
  BY <1>1 DEF Sensible, Edits, RowsGrow
<1>4. w.op = "delete" => Deletes(w)'
  BY <1>1 DEF Sensible, Deletes, RowsGrow
<1>5. w.op \in Marks => MarksRead(w)'
  BY <1>1 DEF Sensible, MarksRead, RowsGrow
<1> QED BY <1>1, <1>2, <1>3, <1>4, <1>5 DEF Sensible

LEMMA StillTelling ==
  ASSUME RowsGrow, NEW e, Telling(e)
  PROVE  Telling(e)'
<1>1. e.on \subseteq Thread /\ e.on \subseteq Thread'
  BY DEF Telling, RowsGrow
<1>2. e.ev = "created" => \E m \in Message : e.on = {m} /\ e.snap = Fresh(m)'
  BY <1>1 DEF Telling, RowsGrow, Fresh
<1>3. e.ev # "created" => \A m \in e.on : Touched(m)'
  BY <1>1 DEF Telling, RowsGrow
<1> QED BY <1>1, <1>2, <1>3 DEF Telling

\* Events are taken from the front or lost, and a request that is new is sensible and creates
\* nothing but a new row.
LEMMA OrderKept ==
  ASSUME InOrder, RowsGrow, NEW d \in Nat,
         \A i \in 1..Len(events') : i + d \in 1..Len(events) /\ events'[i] = events[i + d],
         \A w \in work' : w \in work \/ (Sensible(w)' /\ (w.op \in Sending => w.on \cap Thread = {})),
         \A w, x \in work' \ work : w.op \in Sending /\ w.on # {} /\ x.op \in Sending /\ x.on # {} => w = x
  PROVE  InOrder'
<1>1. \A w \in work' : Sensible(w)'
  BY StillSensible DEF InOrder
<1>2. (\A i \in 1..Len(events) : Telling(events[i]))'
  <2> SUFFICES ASSUME NEW i \in 1..Len(events') PROVE Telling(events[i])'
    OBVIOUS
  <2>1. PICK e : e = events[i + d]
    OBVIOUS
  <2>2. Telling(e)
    BY <2>1 DEF InOrder
  <2>3. Telling(e)' /\ events'[i] = e
    BY <2>1, <2>2, StillTelling
  <2> QED BY <2>3 DEF Telling, Touched, Fresh
<1>3. ASSUME NEW m \in Message PROVE Once(m)'
  <2>0. Once(m)
    BY DEF InOrder
  <2>1. \A w \in work : Creates(w, m) => m \in Thread
    BY DEF InOrder, Sensible, Creates
  <2>2. \A w \in work' : Creates(w, m) /\ w \notin work => m \notin Thread
    BY DEF Creates
  <2>3. \A w, x \in work' : Creates(w, m) /\ Creates(x, m) => w = x
    BY <2>0, <2>1, <2>2 DEF Once, Creates
  <2>4. \A i \in 1..Len(events') : CreatedAt(i, m)' => CreatedAt(i + d, m) /\ m \in Thread
    BY DEF CreatedAt, InOrder, Telling
  <2>5. \A i, j \in 1..Len(events') : CreatedAt(i, m)' /\ CreatedAt(j, m)' => i = j
    <3> SUFFICES ASSUME NEW i \in 1..Len(events'), NEW j \in 1..Len(events'), CreatedAt(i, m)', CreatedAt(j, m)'
                 PROVE  i = j
      OBVIOUS
    <3>1. i + d = j + d
      BY <2>0, <2>4 DEF Once, CreatedAt
    <3>2. i \in Int /\ j \in Int
      OBVIOUS
    <3> QED BY <3>1, <3>2
  <2>6. \A i \in 1..Len(events'), w \in work' : CreatedAt(i, m)' /\ Creates(w, m) => w.at # "written"
    BY <2>0, <2>2, <2>4 DEF Once, CreatedAt
  <2> QED BY <2>3, <2>5, <2>6 DEF Once, Creates
<1> QED BY <1>1, <1>2, <1>3 DEF InOrder

\* Nothing new is told of a message, and no answer about it is new.
LEMMA Unheard ==
  ASSUME NEW m \in Message, KnownBy(m), Told(m), UNCHANGED events, message'[m] = message[m],
         \A w \in work' : m \in w.on => w \in work \/ (w.at # "written" /\ ~Answers(w)),
         \A w \in work : m \in w.on /\ w.at = "written" => w \in work'
  PROVE  KnownBy(m)' /\ Told(m)' /\ Written(m)' = Written(m) /\ Tales(m)' = Tales(m)
<1>1. Written(m)' = Written(m)
  BY DEF Written
<1>2. Tales(m)' = Tales(m)
  BY <1>1 DEF Tales
<1>3. KnownBy(m)'
  BY <1>1 DEF KnownBy, Answers
<1>4. Told(m)'
  BY <1>2 DEF Told
<1> QED BY <1>1, <1>2, <1>3, <1>4

\* Nor is it shown in another way.
LEMMA ShownAsWas ==
  ASSUME NEW m \in Message, Shown(m), Tales(m)' = Tales(m), message'[m] = message[m],
         Going(m) /\ ~message[m].deleted => Going(m)',
         Based' => Based /\ Base(m)' = Base(m)
  PROVE  Shown(m)'
<1> SUFFICES ASSUME Based', NEW s \in Tales(m) PROVE Shows(s, m, message[m], Base(m), Going(m)')
  BY DEF Shown
<1>1. Shows(s, m, message[m], Base(m), Going(m))
  BY DEF Shown
<1> QED BY <1>1 DEF Shows

\* Requests that come, are checked or fail.
LEMMA Quietly ==
  ASSUME VisitorAssumption, VisitorInv, UNCHANGED <<message, chat, events, phase, page, history, missed>>, worked' \in Nat,
         \A w \in work' : w \in work \/
           /\ w \in Work /\ Sensible(w) /\ w.at # "written" /\ ~Answers(w)
           /\ w.op \in Sending => w.on = {}
           /\ phase # "open" => w.op \in Marks \cup {"reply"},
         \A w \in work : w \in work' \/ w.at # "written",
         \A w \in work : w.op = "delete" => \E x \in work' : x.op = "delete" /\ x.on = w.on
  PROVE  VisitorInv'
<1>1. VisitorTypeOK'
  BY DEF VisitorInv, VisitorTypeOK
<1>2. Thread' = Thread
  BY DEF Thread
<1>3. Early'
  BY <1>2 DEF VisitorInv, Early
<1>4. RowsGrow
  BY <1>2 DEF RowsGrow, Touched
<1>5. \A w : Sensible(w) => Sensible(w)'
  BY <1>4, StillSensible
<1>6. InOrder'
  <2>1. events \in Seq(Event)
    BY DEF VisitorInv, VisitorTypeOK
  <2>2. \A i \in 1..Len(events') : i + 0 \in 1..Len(events) /\ events'[i] = events[i + 0]
    BY <2>1
  <2>3. \A w \in work' : w \in work \/ (Sensible(w)' /\ (w.op \in Sending => w.on = {}))
    BY <1>5
  <2> QED BY <1>4, <2>2, <2>3, OrderKept DEF VisitorInv
<1>7. ASSUME NEW m \in Thread' \ missed' PROVE Followed(m)'
  <2>1. m \in Message /\ Followed(m)
    BY <1>2 DEF VisitorInv, Thread
  <2>2. KnownBy(m)' /\ Told(m)' /\ Tales(m)' = Tales(m)
    BY <2>1, Unheard DEF Followed
  <2>3. Going(m) => Going(m)'
    BY DEF Going
  <2>4. (Based' <=> Based) /\ Base(m)' = Base(m)
    BY DEF Based, Base
  <2>5. Shown(m)'
    BY <2>1, <2>2, <2>3, <2>4, ShownAsWas DEF Followed
  <2> QED BY <2>2, <2>5 DEF Followed
<1> QED BY <1>1, <1>3, <1>6, <1>7 DEF VisitorInv

\* A request that comes.
LEMMA Comes ==
  ASSUME VisitorAssumption, VisitorInv, UNCHANGED <<message, chat, events, phase, page, history, missed>>, worked' \in Nat,
         NEW op, NEW on, New(op, on),
         \/ op \in Sending \cup Marks /\ on = {}
         \/ op = "edit" /\ \E m \in Thread : on = {m},
         phase # "open" => op \in Marks \cup {"reply"}
  PROVE  VisitorInv'
<1> DEFINE new == [id |-> worked, op |-> op, on |-> on, at |-> "asked", snap |-> Blank]
<1>1. work' = work \cup {new}
  BY DEF New
<1>2. on \subseteq Thread /\ on \in SUBSET Message
  BY DEF Thread
<1>3. new \in Work
  BY <1>2 DEF Work, VisitorInv, VisitorTypeOK, Changes
<1>4. new.op = op /\ new.on = on /\ new.at = "asked"
  OBVIOUS
<1> HIDE DEF new
<1>5. Sensible(new)
  BY <1>2, <1>3, <1>4, Kinds DEF Sensible, Sends, Edits, Deletes, MarksRead, Thread
<1>6. new.at # "written" /\ ~Answers(new)
  BY <1>4 DEF Answers
<1>7. new.op \in Sending => new.on = {}
  BY <1>3, <1>4, Kinds
<1> QED
  BY <1>1, <1>3, <1>4, <1>5, <1>6, <1>7, Quietly

LEMMA Rests ==
  ASSUME VisitorAssumption, VisitorInv, UNCHANGED <<message, chat, events, phase, page, history, missed, work>>, worked' \in Nat
  PROVE  VisitorInv'
BY Quietly

LEMMA AskedAnew ==
  ASSUME VisitorAssumption, VisitorInv
  PROVE  /\ Connect => VisitorInv'
         /\ Join => VisitorInv'
         /\ ComeBack => VisitorInv'
         /\ \A kind \in {"text", "file"} : WriteMessage(kind) => VisitorInv'
         /\ \A op \in {"reply", "agentDelivered", "agentRead"} : AgentActs(op) => VisitorInv'
         /\ \A m \in Message : Change(m, "edit") => VisitorInv'
         /\ UNCHANGED visitorVars => VisitorInv'
<1>0. worked \in Nat /\ worked + 1 \in Nat
  BY DEF VisitorInv, VisitorTypeOK
<1>1. ASSUME Connect PROVE VisitorInv'
  <2>1. New("read", {}) /\ worked' = worked /\ UNCHANGED <<message, chat, events, phase, page, history, missed>>
    BY <1>1 DEF Connect, server, screen
  <2> QED BY <2>1, <1>0, Comes DEF Marks
<1>2. ASSUME Join PROVE VisitorInv'
  <2>1. worked' = worked /\ UNCHANGED <<message, chat, events, phase, page, history, missed, work>>
    BY <1>2 DEF Join, server, screen
  <2> QED BY <2>1, <1>0, Rests
<1>3. ASSUME ComeBack PROVE VisitorInv'
  <2>1. New("read", {}) /\ worked' = worked + 1 /\ UNCHANGED <<message, chat, events, phase, page, history, missed>>
    BY <1>3 DEF ComeBack, Begin, server, screen, wire
  <2> QED BY <2>1, <1>0, Comes DEF Marks
<1>4. ASSUME NEW kind \in {"text", "file"}, WriteMessage(kind) PROVE VisitorInv'
  <2>1. New(kind, {}) /\ phase = "open" /\ worked' = worked + 1 /\ UNCHANGED <<message, chat, events, phase, page, history, missed>>
    BY <1>4 DEF WriteMessage, Begin, server, screen, wire
  <2> QED BY <2>1, <1>0, Comes DEF Sending
<1>5. ASSUME NEW op \in {"reply", "agentDelivered", "agentRead"}, AgentActs(op) PROVE VisitorInv'
  <2>1. New(op, {}) /\ worked' = worked + 1 /\ UNCHANGED <<message, chat, events, phase, page, history, missed>>
    BY <1>5 DEF AgentActs, Begin, server, screen, wire
  <2> QED BY <2>1, <1>0, Comes DEF Sending, Marks
<1>6. ASSUME NEW m \in Message, Change(m, "edit") PROVE VisitorInv'
  <2>1. New("edit", {m}) /\ phase = "open" /\ page[m] # Blank /\ worked' = worked + 1
          /\ UNCHANGED <<message, chat, events, phase, page, history, missed>>
    BY <1>6 DEF Change, Begin, server, wire
  <2>2. m \in Thread
    BY <2>1 DEF VisitorInv, Early
  <2>3. \E n \in Thread : {m} = {n}
    BY <2>2
  <2> QED BY <2>1, <2>3, <1>0, Comes
<1>7. ASSUME UNCHANGED visitorVars PROVE VisitorInv'
  BY <1>7, <1>0, Rests DEF visitorVars
<1> QED BY <1>1, <1>2, <1>3, <1>4, <1>5, <1>6, <1>7

\* A request that goes on and has written nothing.
LEMMA Turns ==
  ASSUME VisitorAssumption, VisitorInv, UNCHANGED <<message, chat, events, phase, page, history, missed>>, worked' \in Nat,
         NEW w \in work, w.at # "written",
         NEW new \in Work, Step(w, new), new.op = w.op, w.op = "delete" => new.on = w.on, Sensible(new), new.at # "written",
         ~Answers(new), w.op \in Sending => new.on = {}
  PROVE  VisitorInv'
<1>1. work' = (work \ {w}) \cup {new}
  BY DEF Step
<1>2. phase # "open" => new.op \in Marks \cup {"reply"}
  BY DEF VisitorInv, Early
<1>3. \A x \in work : x.op = "delete" => \E y \in work' : y.op = "delete" /\ y.on = x.on
  BY <1>1
<1>4. \A x \in work : x \in work' \/ x.at # "written"
  BY <1>1
<1>5. \A x \in work' : x \in work \/
         /\ x \in Work /\ Sensible(x) /\ x.at # "written" /\ ~Answers(x)
         /\ x.op \in Sending => x.on = {}
         /\ phase # "open" => x.op \in Marks \cup {"reply"}
  BY <1>1, <1>2
<1> QED BY <1>3, <1>4, <1>5, Quietly

\* What the handler reads.
LEMMA LooksUp ==
  ASSUME VisitorAssumption, VisitorInv, NEW w \in work, LookUp(w)
  PROVE  VisitorInv'
<1>0. /\ UNCHANGED <<message, chat, events, phase, page, history, missed>> /\ worked' \in Nat
      /\ w.at = "asked" /\ w \in Work /\ Sensible(w) /\ w.on \in SUBSET Message /\ w.on \subseteq Thread
  BY DEF LookUp, server, screen, wire, VisitorInv, VisitorTypeOK, InOrder, Sensible, Work
<1>1. ASSUME work' = work \ {w}, w.op \in Marks PROVE VisitorInv'
  <2>1. w.op # "delete"
    BY <1>0, <1>1, Kinds
  <2> QED BY <1>0, <1>1, <2>1, Quietly
<1>2. ASSUME NEW new \in Work, Step(w, new), new.op = w.op, w.op = "delete" => new.on = w.on, Sensible(new), new.at # "written",
             ~Answers(new), w.op \in Sending => new.on = {}
      PROVE  VisitorInv'
  BY <1>0, <1>2, Turns
<1>3. CASE w.op \in Sending
  <2> DEFINE new == [w EXCEPT !.at = "checked", !.snap = chat]
  <2>1. Step(w, new)
    BY <1>3 DEF LookUp
  <2>2. new = [id |-> w.id, op |-> w.op, on |-> w.on, at |-> "checked", snap |-> chat]
    BY <1>0, Moved
  <2>3. new \in Work
    BY <2>2, <1>0, MovedOn DEF VisitorInv, VisitorTypeOK
  <2>4. w.on = {}
    BY <1>0, <1>3 DEF Sensible, Sends
  <2>5. new.op = w.op /\ new.on = w.on /\ new.at = "checked"
    BY <2>2
  <2> HIDE DEF new
  <2>6. Sensible(new)
    BY <2>4, <2>5, <1>0, <1>3, Kinds DEF Sensible, Sends
  <2> QED BY <2>1, <2>3, <2>4, <2>5, <2>6, <1>2 DEF Answers
<1>4. CASE w.op \notin Sending /\ w.op \in Changes
  <2>0. w.op \in {"edit", "delete"} /\ w.op \notin Marks
    BY <1>4, <1>0, Kinds DEF Changes
  <2>1. ASSUME NEW a \in {"checked", "failed", "answered"}, Step(w, [w EXCEPT !.at = a]),
               a = "failed" => w.op = "edit",
               a = "answered" => w.op = "delete" /\ \A m \in w.on : message[m].deleted
        PROVE  VisitorInv'
    <3> DEFINE new == [w EXCEPT !.at = a]
    <3>1. new = [id |-> w.id, op |-> w.op, on |-> w.on, at |-> a, snap |-> w.snap]
      BY <1>0, Moved
    <3>2. new \in Work
      <4>1. a \in {"asked", "checked", "written", "answered", "failed"} /\ w.snap \in {Blank} \cup BOOLEAN \cup Row \cup Statuses
        BY <1>0, Kinds
      <4>2. [id |-> w.id, op |-> w.op, on |-> w.on, at |-> a, snap |-> w.snap] \in Work
        BY <4>1, <1>0, MovedOn
      <4> QED BY <3>1, <4>2
    <3>3. new.op = w.op /\ new.on = w.on /\ new.at = a
      BY <3>1
    <3>4. Step(w, new)
      BY <2>1
    <3> HIDE DEF new
    <3>5. Sensible(new)
      BY <3>3, <2>0, <2>1, <1>0, <1>4 DEF Sensible, Edits, Deletes
    <3>6. ~Answers(new)
      BY <3>3, <2>0, <2>1, <1>4 DEF Answers
    <3> QED BY <3>2, <3>3, <3>4, <3>5, <3>6, <2>0, <2>1, <1>2, <1>4
  <2>2. \/ w.op = "edit" /\ GivesUp(w)
        \/ w.op = "delete" /\ (\A m \in w.on : message[m].deleted) /\ Step(w, [w EXCEPT !.at = "answered"])
        \/ Step(w, [w EXCEPT !.at = "checked"])
    BY <2>0, <1>4 DEF LookUp
  <2> QED BY <2>1, <2>2 DEF GivesUp
<1>5. CASE w.op \in Marks
  <2>0. w.op \notin Sending /\ w.op # "edit" /\ w.op # "delete"
    BY <1>5, <1>0, Kinds
  <2> DEFINE b == Bumps[w.op]
             ids == IF b.who = "agent" /\ link # "joined" THEN {} ELSE {m \in From(b.who) : message[m].st \in b.from}
             new == [w EXCEPT !.at = "checked", !.on = ids]
  <2>1. IF ids = {} THEN work' = work \ {w} ELSE Step(w, new)
    BY <2>0 DEF LookUp
  <2>2. ids \subseteq Thread /\ ids \in SUBSET Message
    BY DEF From, Thread
  <2> HIDE DEF ids
  <2>3. new = [id |-> w.id, op |-> w.op, on |-> ids, at |-> "checked", snap |-> w.snap]
    BY <1>0, Moved
  <2>4. new \in Work
    BY <2>2, <2>3, <1>0, MovedOn, Kinds
  <2>5. new.op = w.op /\ new.on = ids /\ new.at = "checked"
    BY <2>3
  <2> HIDE DEF new
  <2>6. Sensible(new)
    BY <2>2, <2>5, <2>0, <1>5 DEF Sensible, MarksRead
  <2> QED BY <2>0, <2>1, <2>4, <2>5, <2>6, <1>1, <1>2, <1>5 DEF Answers
<1> QED BY <1>0, <1>3, <1>4, <1>5, Kinds DEF Changes

-----------------------------------------------------------------------------
(* The page. *)

\* What is shown of a message whose row was read is as it will be told.
LEMMA ReadIsTrue ==
  ASSUME NEW s, NEW m, NEW row, row # Blank, NEW going
  PROVE  Shows(s, m, row, row, going)
BY DEF Shows

\* Nothing is asked or told, and the page may change.
LEMMA Looks ==
  ASSUME VisitorAssumption, VisitorInv, UNCHANGED <<message, chat, events, work, worked>>,
         VisitorTypeOK', Early',
         \A m \in Thread \ missed' : KnownBy(m) /\ Told(m) /\ Shown(m)'
  PROVE  VisitorInv'
<1>1. Thread' = Thread
  BY DEF Thread
<1>2. InOrder'
  BY <1>1 DEF VisitorInv, InOrder, Sensible, Sends, Edits, Deletes, MarksRead, Telling, Once, Creates, CreatedAt, Touched, Fresh
<1>3. ASSUME NEW m \in Thread' \ missed' PROVE Followed(m)'
  <2>1. Written(m)' = Written(m)
    BY DEF Written
  <2>2. Tales(m)' = Tales(m)
    BY <2>1 DEF Tales
  <2> QED BY <1>1, <2>1, <2>2 DEF Followed, KnownBy, Told
<1> QED BY <1>2, <1>3 DEF VisitorInv

LEMMA SameTales ==
  ASSUME NEW m, UNCHANGED <<events, work>>
  PROVE  Tales(m)' = Tales(m) /\ Going(m)' = Going(m)
<1>1. Written(m)' = Written(m) /\ Going(m)' = Going(m)
  BY DEF Written, Going
<1> QED BY <1>1 DEF Tales

LEMMA Opens ==
  ASSUME VisitorAssumption, VisitorInv, OpenPage
  PROVE  VisitorInv'
<1>1. /\ UNCHANGED <<message, chat, events, work, worked, page, history, missed>>
      /\ phase = "closed" /\ phase' = (IF chat THEN "loading" ELSE "open")
  BY DEF OpenPage, server, wire
<1>2. VisitorTypeOK' /\ history = Blank
  BY <1>1 DEF VisitorInv, VisitorTypeOK, Early
<1>3. Thread' = Thread
  BY <1>1 DEF Thread
<1>4. Early'
  BY <1>1, <1>3 DEF VisitorInv, Early
<1>5. ASSUME NEW m \in Thread \ missed' PROVE KnownBy(m) /\ Told(m) /\ Shown(m)'
  <2>1. Followed(m)
    BY <1>1, <1>5 DEF VisitorInv
  <2>2. phase' = "loading" /\ history' = Blank
    BY <1>1, <1>2 DEF VisitorInv, Early
  <2> QED BY <2>1, <2>2 DEF Followed, Shown, Based
<1> QED BY <1>1, <1>2, <1>4, <1>5, Looks

LEMMA LoadsHistory ==
  ASSUME VisitorAssumption, VisitorInv, ReadHistory
  PROVE  VisitorInv'
<1>1. /\ UNCHANGED <<message, chat, events, work, worked, page, phase, missed>>
      /\ phase = "loading" /\ history' = message
  BY DEF ReadHistory, server, wire
<1>2. VisitorTypeOK'
  BY <1>1 DEF VisitorInv, VisitorTypeOK
<1>3. Thread' = Thread
  BY <1>1 DEF Thread
<1>4. Early'
  BY <1>1, <1>3 DEF VisitorInv, Early, Thread
<1>5. ASSUME NEW m \in Thread \ missed' PROVE KnownBy(m) /\ Told(m) /\ Shown(m)'
  <2>1. Followed(m) /\ message[m] # Blank
    BY <1>1, <1>5 DEF VisitorInv, Thread
  <2>2. Base(m)' = message[m]
    BY <1>1 DEF Base
  <2>3. Shown(m)'
    BY <1>1, <2>1, <2>2, ReadIsTrue DEF Shown
  <2> QED BY <2>1, <2>3 DEF Followed
<1> QED BY <1>1, <1>2, <1>4, <1>5, Looks

\* What was missed is made good, if the history is as the row and nobody tells of it any more.
LEMMA Displays ==
  ASSUME VisitorAssumption, VisitorInv, ShowHistory
  PROVE  VisitorInv'
<1>1. /\ UNCHANGED <<message, chat, events, work, worked>>
      /\ phase = "loading" /\ history # Blank /\ phase' = "open" /\ page' = history /\ history' = Blank
      /\ missed' = {m \in missed : history[m] # message[m] \/ m \in Pending}
  BY DEF ShowHistory, server, wire
<1>2. VisitorTypeOK'
  BY <1>1 DEF VisitorInv, VisitorTypeOK
<1>3. Thread' = Thread
  BY <1>1 DEF Thread
<1>4. Early'
  BY <1>1, <1>3 DEF VisitorInv, Early
<1>5. ASSUME NEW m \in Thread \ missed' PROVE KnownBy(m) /\ Told(m) /\ Shown(m)'
  <2>1. Base(m)' = history[m] /\ Tales(m)' = Tales(m) /\ Going(m)' = Going(m) /\ message[m] # Blank
    BY <1>1, SameTales DEF Base, Thread
  <2>2. CASE m \notin missed
    <3>1. Followed(m)
      BY <2>2 DEF VisitorInv
    <3>2. Based /\ Base(m) = history[m]
      BY <1>1 DEF Based, Base
    <3> QED BY <1>1, <2>1, <3>1, <3>2 DEF Followed, Shown
  <2>3. CASE m \in missed
    <3>1. history[m] = message[m] /\ m \notin Pending
      BY <2>3, <1>1, <1>5
    <3>2. (\A w \in work : m \notin w.on) /\ On(events, m) = {}
      BY <3>1 DEF Pending, Coming, On
    <3>3. KnownBy(m) /\ Written(m) = {}
      BY <3>2 DEF KnownBy, Written
    <3>4. Tales(m) = {events}
      BY <3>3 DEF Tales
    <3>5. Told(m)
      BY <3>2, <3>4, Silence DEF Told
    <3>6. Shown(m)'
      BY <1>1, <2>1, <3>1, <3>4, ReadIsTrue DEF Shown
    <3> QED BY <3>3, <3>5, <3>6
  <2> QED BY <2>2, <2>3
<1> QED BY <1>1, <1>2, <1>4, <1>5, Looks

LEMMA GetsNothing ==
  ASSUME VisitorAssumption, VisitorInv, LoadFails
  PROVE  VisitorInv'
<1>1. /\ UNCHANGED <<message, chat, events, work, worked, page, missed>>
      /\ phase = "loading" /\ phase' = "notFound" /\ history' = Blank
  BY DEF LoadFails, server, wire
<1>2. VisitorTypeOK'
  BY <1>1 DEF VisitorInv, VisitorTypeOK
<1>3. Thread' = Thread
  BY <1>1 DEF Thread
<1>4. Early'
  BY <1>1, <1>3 DEF VisitorInv, Early
<1>5. ASSUME NEW m \in Thread \ missed' PROVE KnownBy(m) /\ Told(m) /\ Shown(m)'
  <2>1. Followed(m)
    BY <1>1, <1>5 DEF VisitorInv
  <2> QED BY <2>1, <1>1 DEF Followed, Shown, Based
<1> QED BY <1>1, <1>2, <1>4, <1>5, Looks

-----------------------------------------------------------------------------
(* The socket. *)

\* A request that is being told is told whole, whatever else is on its way.
LEMMA Alone ==
  ASSUME VisitorAssumption, VisitorInv, NEW m \in Thread, NEW w \in Written(m)
  PROVE  w \in work /\ m \in w.on /\ Sensible(w) /\ EventOf(w) \in Event /\ EventOf(w).on = w.on /\ Telling(EventOf(w))
<1>1. w \in work /\ m \in w.on /\ w.at = "written" /\ Sensible(w)
  BY DEF Written, VisitorInv, InOrder
<1> QED BY <1>1, Publishing DEF VisitorInv

\* A tale of a message with one request writing, or with none.
LEMMA OneTale ==
  ASSUME NEW m, KnownBy(m)
  PROVE  /\ Written(m) = {} => Tales(m) = {events}
         /\ \A w \in Written(m) : Written(m) = {w} /\ Tales(m) = {Append(events, EventOf(w))}
BY DEF KnownBy, Tales

LEMMA Drops ==
  ASSUME VisitorAssumption, VisitorInv, Disconnect
  PROVE  VisitorInv'
<1>1. /\ UNCHANGED <<message, chat, work, worked, phase, page, history>>
      /\ events' = <<>> /\ missed' = missed \cup Coming
  BY DEF Disconnect, server, screen
<1>2. VisitorTypeOK' /\ events \in Seq(Event) /\ <<>> \in Seq(Event)
  BY <1>1 DEF VisitorInv, VisitorTypeOK
<1>3. Thread' = Thread
  BY <1>1 DEF Thread
<1>4. Early'
  BY <1>1, <1>3 DEF VisitorInv, Early
<1>5. InOrder'
  <2>1. RowsGrow
    BY <1>1, <1>3 DEF RowsGrow, Touched
  <2>2. \A i \in 1..Len(events') : i + 0 \in 1..Len(events) /\ events'[i] = events[i + 0]
    BY <1>1
  <2> QED BY <1>1, <2>1, <2>2, OrderKept DEF VisitorInv
<1>6. ASSUME NEW m \in Thread' \ missed' PROVE Followed(m)'
  <2>1. m \in Thread /\ Followed(m) /\ m \notin Coming
    BY <1>1, <1>3 DEF VisitorInv
  <2>2. On(events, m) = {} /\ On(<<>>, m) = {}
    BY <2>1 DEF Coming, On
  <2>3. Written(m)' = Written(m) /\ KnownBy(m)' /\ KnownBy(m)
    BY <1>1, <2>1 DEF Written, KnownBy, Followed
  <2>4. Going(m)' = Going(m) /\ Based' = Based /\ Base(m)' = Base(m)
    BY <1>1 DEF Going, Based, Base
  <2>5. CASE Written(m) = {}
    <3>1. Tales(m) = {events} /\ Tales(m)' = {<<>>}
      BY <1>1, <2>3, <2>5 DEF Tales
    <3>2. Told(m)'
      BY <3>1, <2>2, Silence DEF Told
    <3>3. Based => Shows(events, m, message[m], Base(m), Going(m))
      BY <3>1, <2>1 DEF Followed, Shown
    <3>4. Based => Shows(<<>>, m, message[m], Base(m), Going(m))
      BY <3>3, <2>2, Silence
    <3>5. Shown(m)'
      BY <3>1, <3>4, <2>4, <1>1 DEF Shown
    <3> QED BY <2>3, <3>2, <3>5 DEF Followed
  <2>6. ASSUME NEW w \in Written(m) PROVE Followed(m)'
    <3> DEFINE e == EventOf(w)
    <3>0. e \in Event /\ m \in e.on /\ e' = e
      BY <2>1, Alone DEF EventOf
    <3>1. Tales(m) = {Append(events, e)} /\ Tales(m)' = {Append(<<>>, e)}
      BY <1>1, <2>3, <2>6, OneTale, <3>0 DEF Tales, KnownBy
    <3> HIDE DEF e
    <3>2. Tells(Append(events, e), m, message[m])
      BY <3>1, <2>1 DEF Followed, Told
    <3>3. Status(e) = message[m].st /\ (e.ev # "status" => SameCore(e.snap, message[m]))
      BY <3>0, <3>2, <2>2, <1>2, Only
    <3>4. Tells(Append(<<>>, e), m, message[m])
      BY <3>0, <3>3, <2>2, <1>2, First
    <3>5. Based => Shows(Append(<<>>, e), m, message[m], Base(m), Going(m))
      BY <3>0, <3>1, <2>1, <2>2, <1>2, First DEF Followed, Shown
    <3>6. Told(m)' /\ Shown(m)'
      BY <3>1, <3>4, <3>5, <2>4, <1>1 DEF Told, Shown
    <3> QED BY <2>3, <3>6 DEF Followed
  <2> QED BY <2>5, <2>6
<1> QED BY <1>2, <1>4, <1>5, <1>6 DEF VisitorInv

\* The page shows a message deleted before it is.
LEMMA Hides ==
  ASSUME VisitorAssumption, VisitorInv, NEW m \in Message, Change(m, "delete")
  PROVE  VisitorInv'
<1>0. PICK new : new = [id |-> worked, op |-> "delete", on |-> {m}, at |-> "asked", snap |-> Blank]
  OBVIOUS
<1>1. /\ UNCHANGED <<message, chat, events, phase, history, missed>>
      /\ worked \in Nat /\ worked' = worked + 1 /\ work' = work \cup {new}
      /\ phase = "open" /\ page[m] # Blank /\ page' = [page EXCEPT ![m].deleted = TRUE] /\ page \in Threads
  BY <1>0 DEF Change, Begin, New, server, wire, VisitorInv, VisitorTypeOK
<1>2. m \in Thread /\ Thread' = Thread
  BY <1>1 DEF VisitorInv, Early, Thread
<1>3. new \in Work /\ new.op = "delete" /\ new.on = {m} /\ new.at = "asked"
  BY <1>0, <1>1 DEF Work, Changes
<1>4. new.op \notin Sending /\ new.op \notin Marks /\ new.op # "edit"
  BY <1>3, Kinds
<1>5. Sensible(new)
  BY <1>2, <1>3, <1>4 DEF Sensible, Deletes
<1>6. page[m] \in Row
  BY <1>1 DEF Threads
<1>7. page' \in Threads /\ page'[m] = [page[m] EXCEPT !.deleted = TRUE] /\ \A n \in Message : n # m => page'[n] = page[n]
  <2>1. [page[m] EXCEPT !.deleted = TRUE] \in Row
    BY <1>6 DEF Row
  <2> QED BY <1>1, <2>1 DEF Threads
<1>8. VisitorTypeOK'
  BY <1>1, <1>3, <1>7 DEF VisitorInv, VisitorTypeOK
<1>9. Early'
  BY <1>1, <1>2, <1>7 DEF VisitorInv, Early
<1>10. InOrder'
  <2>1. RowsGrow
    BY <1>1, <1>2 DEF RowsGrow, Touched
  <2>2. \A i \in 1..Len(events') : i + 0 \in 1..Len(events) /\ events'[i] = events[i + 0]
    BY <1>1 DEF VisitorInv, VisitorTypeOK
  <2>3. Sensible(new)'
    BY <1>5, <2>1, StillSensible
  <2> QED BY <1>1, <1>3, <1>4, <2>1, <2>2, <2>3, OrderKept DEF VisitorInv
<1>11. ASSUME NEW n \in Thread' \ missed' PROVE Followed(n)'
  <2>1. n \in Message /\ Followed(n)
    BY <1>1, <1>2, <1>11 DEF VisitorInv, Thread
  <2>2. KnownBy(n)' /\ Told(n)' /\ Tales(n)' = Tales(n)
    <3>1. \A w \in work' : w \in work \/ (w.at # "written" /\ ~Answers(w))
      BY <1>1, <1>3 DEF Answers
    <3> QED BY <1>1, <2>1, <3>1, Unheard DEF Followed
  <2>3. Going(n) => Going(n)'
    BY <1>1 DEF Going
  <2>4. Based /\ Base(n) = page[n] /\ Base(n)' = page'[n]
    BY <1>1 DEF Based, Base
  <2>5. CASE n # m
    <3>1. Shown(n)'
      BY <1>1, <1>7, <2>1, <2>2, <2>3, <2>4, <2>5, ShownAsWas DEF Followed
    <3> QED BY <2>2, <3>1 DEF Followed
  <2>6. CASE n = m
    <3>1. Going(m)'
      BY <1>1, <1>3 DEF Going
    <3> DEFINE r == page'[m]
    <3>2. r # Blank /\ r.from = page[m].from /\ r.body = page[m].body /\ r.st = page[m].st /\ r.deleted = TRUE
      <4>1. r \in Row
        BY <1>6, <1>7 DEF Row
      <4> QED BY <4>1, <1>6, <1>7 DEF Row, VisitorAssumption
    <3> HIDE DEF r
    <3>3. message[m].deleted \in BOOLEAN
      BY <1>2, ThreadRows DEF VisitorInv
    <3>4. ASSUME NEW s \in Tales(m) PROVE Shows(s, m, message[m], r, TRUE)
      <4>1. Shows(s, m, message[m], page[m], Going(m))
        BY <2>1, <2>4, <2>6 DEF Followed, Shown
      <4> QED BY <4>1, <3>2, <3>3, <1>1 DEF Shows
    <3>5. Shown(m)'
      BY <1>1, <2>2, <2>4, <2>6, <3>1, <3>4 DEF Shown, r
    <3> QED BY <2>2, <2>6, <3>5 DEF Followed
  <2> QED BY <2>5, <2>6
<1> QED BY <1>8, <1>9, <1>10, <1>11 DEF VisitorInv

\* The page takes an event.
LEMMA Takes ==
  ASSUME VisitorAssumption, VisitorInv, NEW visible \in BOOLEAN, TakeEvent(visible)
  PROVE  VisitorInv'
<1>0. PICK new : new = [id |-> worked, op |-> "read", on |-> {}, at |-> "asked", snap |-> Blank]
  OBVIOUS
<1> DEFINE e == Head(events)
           added == e.ev = "created" /\ \A m \in e.on : page[m] = Blank
<1>1. /\ UNCHANGED <<message, chat, worked, phase, history>>
      /\ events # <<>> /\ events' = Tail(events) /\ events \in Seq(Event) /\ worked \in Nat /\ page \in Threads
      /\ work' \in {work, work \cup {new}}
      /\ missed' = IF phase = "loading" THEN missed \cup e.on ELSE missed
  BY <1>0 DEF TakeEvent, New, server, VisitorInv, VisitorTypeOK
<1>2. page' = [m \in Message |->
             IF m \notin e.on THEN page[m]
             ELSE IF added THEN e.snap
             ELSE IF page[m] = Blank \/ e.ev = "created" THEN page[m]
             ELSE IF e.ev = "status" THEN [page[m] EXCEPT !.st = e.snap] ELSE e.snap]
  BY DEF TakeEvent
<1>3. Thread' = Thread
  BY <1>1 DEF Thread
<1>4. new \in Work /\ new.op = "read" /\ new.on = {} /\ new.at = "asked"
  BY <1>0, <1>1 DEF Work, Marks
<1>5. e \in Event /\ Telling(e) /\ events' \in Seq(Event)
  <2>1. e = events[1] /\ 1 \in 1..Len(events)
    BY <1>1, OnTail
  <2> QED BY <1>1, <2>1, OnTail DEF VisitorInv, InOrder
<1> HIDE DEF e
<1>6. ASSUME NEW m \in Message PROVE page'[m] = Taken(page[m], e, m)
  <2>1. e.ev = "created" /\ m \in e.on => e.on = {m}
    BY <1>5 DEF Telling
  <2>2. m \in e.on /\ e.ev = "created" => (added <=> page[m] = Blank)
    BY <2>1
  <2>3. e.ev # "created" => ~added
    OBVIOUS
  <2> HIDE DEF added
  <2> QED BY <1>2, <2>2, <2>3 DEF Taken
<1>7. ASSUME NEW m \in Message PROVE page'[m] \in Row \cup {Blank} /\ (m \notin Thread => page'[m] = page[m])
  <2>1. page[m] \in Row \cup {Blank}
    BY <1>1 DEF Threads
  <2>2. e.ev # "status" => e.snap \in Row
    BY <1>5, Events
  <2>3. page[m] \in Row /\ e.ev = "status" => [page[m] EXCEPT !.st = e.snap] \in Row
    BY <1>5, Events DEF Row, Statuses
  <2>4. m \notin Thread => m \notin e.on
    BY <1>5 DEF Telling
  <2> QED BY <1>6, <2>1, <2>2, <2>3, <2>4 DEF Taken
<1>8. page' \in Threads
  BY <1>2, <1>7 DEF Threads
<1>9. VisitorTypeOK'
  BY <1>1, <1>4, <1>5, <1>8 DEF VisitorInv, VisitorTypeOK
<1>10. Early'
  BY <1>1, <1>3, <1>4, <1>7 DEF VisitorInv, Early, Marks
<1>11. InOrder'
  <2>1. RowsGrow
    BY <1>1, <1>3 DEF RowsGrow, Touched
  <2>2. \A i \in 1..Len(events') : i + 1 \in 1..Len(events) /\ events'[i] = events[i + 1]
    BY <1>1, OnTail
  <2>3. new.op \notin Sending /\ Sensible(new)
    BY <1>4, Kinds DEF Sensible, MarksRead
  <2>4. Sensible(new)'
    BY <2>1, <2>3, StillSensible
  <2> QED BY <1>1, <2>1, <2>2, <2>3, <2>4, OrderKept DEF VisitorInv
<1>12. ASSUME NEW m \in Thread' \ missed' PROVE Followed(m)'
  <2>1. m \in Message /\ m \in Thread /\ Followed(m) /\ (phase = "loading" => m \notin e.on)
    BY <1>1, <1>3, <1>12 DEF VisitorInv, Thread
  <2>2. Written(m)' = Written(m) /\ Going(m)' = Going(m)
    BY <1>1, <1>4 DEF Written, Going
  <2>3. KnownBy(m)'
    BY <1>1, <1>4, <2>1, <2>2 DEF Followed, KnownBy
  <2>4. ASSUME NEW s, s \in Tales(m)
        PROVE  s \in Seq(Event) /\ s # <<>> /\ Head(s) = e /\ (Written(m) = {} => Tail(s) = Tail(events))
                 /\ \A w \in Written(m) : s = Append(events, EventOf(w)) => Tail(s) = Append(Tail(events), EventOf(w))
    <3>1. CASE Written(m) = {}
      BY <3>1, <2>4, <1>1 DEF Tales, e
    <3>2. CASE Written(m) # {}
      <4>1. PICK w \in Written(m) : s = Append(events, EventOf(w))
        BY <3>2, <2>4 DEF Tales
      <4>2. EventOf(w) \in Event
        BY <2>1, Alone
      <4>3. \A v \in Event : Append(events, v) \in Seq(Event) /\ Append(events, v) # <<>> /\ Head(Append(events, v)) = Head(events)
                /\ Tail(Append(events, v)) = Append(Tail(events), v)
        <5> SUFFICES ASSUME NEW v \in Event
                     PROVE  Append(events, v) \in Seq(Event) /\ Append(events, v) # <<>> /\ Head(Append(events, v)) = Head(events)
                              /\ Tail(Append(events, v)) = Append(Tail(events), v)
          OBVIOUS
        <5>1. Append(events, v) \in Seq(Event) /\ Append(events, v) # <<>>
          BY <1>1
        <5>2. Head(Append(events, v)) = Head(events)
          BY <1>1
        <5>3. Tail(Append(events, v)) = Append(Tail(events), v)
          BY <1>1, AppendTail
        <5> QED BY <5>1, <5>2, <5>3
      <4>4. \A x \in Written(m) : x = w
        BY <2>1 DEF Followed, KnownBy
      <4> QED BY <4>1, <4>2, <4>3, <4>4, <3>2 DEF e
    <3> QED BY <3>1, <3>2
  <2>5. \A t \in Tales(m)' : \E s \in Tales(m) : t = Tail(s)
    <3>1. CASE Written(m) = {}
      BY <3>1, <2>2, <2>4, <1>1 DEF Tales
    <3>2. CASE Written(m) # {}
      <4>1. Tales(m)' = {Append(Tail(events), EventOf(w)) : w \in Written(m)}
        BY <3>2, <2>2, <1>1 DEF Tales, EventOf
      <4>2. Tales(m) = {Append(events, EventOf(w)) : w \in Written(m)}
        BY <3>2 DEF Tales
      <4> QED BY <4>1, <4>2, <2>4
    <3> QED BY <3>1, <3>2
  <2>6. message[m] \in Row /\ Blank \notin Row
    BY <2>1, ThreadRows DEF VisitorInv, VisitorAssumption
  <2>7. Told(m)'
    <3> SUFFICES ASSUME NEW t \in Tales(m)' PROVE Tells(t, m, message[m])
      BY <1>1 DEF Told
    <3>1. PICK s \in Tales(m) : t = Tail(s)
      BY <2>5
    <3>2. Tells(s, m, message[m]) /\ s \in Seq(Event) /\ s # <<>>
      BY <2>1, <2>4 DEF Followed, Told
    <3> QED BY <3>1, <3>2, TailTells
  <2>8. Shown(m)'
    <3> SUFFICES ASSUME Based', NEW t \in Tales(m)' PROVE Shows(t, m, message[m], Base(m)', Going(m))
      BY <1>1, <2>2 DEF Shown
    <3>1. PICK s \in Tales(m) : t = Tail(s)
      BY <2>5
    <3>2. Based
      BY <1>1 DEF Based
    <3>3. Tells(s, m, message[m]) /\ Shows(s, m, message[m], Base(m), Going(m)) /\ s \in Seq(Event) /\ s # <<>> /\ Head(s) = e
      BY <2>1, <2>4, <3>2 DEF Followed, Told, Shown
    <3>4. Base(m) \in Row \cup {Blank}
      BY <2>1, <3>2 DEF Base, Based, VisitorInv, VisitorTypeOK, Threads
    <3>5. Base(m)' = Taken(Base(m), e, m)
      BY <1>1, <1>6, <2>1, <3>2 DEF Base, Based, Taken
    <3> QED BY <3>1, <3>3, <3>4, <3>5, <2>6, TailShows
  <2> QED BY <2>3, <2>7, <2>8 DEF Followed
<1> QED BY <1>9, <1>10, <1>11, <1>12 DEF VisitorInv

-----------------------------------------------------------------------------
(* The handlers. *)

\* A new row, of a message nobody knows yet.
LEMMA Creating ==
  ASSUME VisitorAssumption, VisitorInv, NEW w \in work, WriteNew(w)
  PROVE  VisitorInv'
<1>0. /\ UNCHANGED <<worked, events, phase, page, history, missed>> /\ worked' \in Nat
      /\ w.op \in Sending /\ w.at = "checked" /\ w \in Work /\ Sensible(w)
  BY DEF WriteNew, screen, wire, VisitorInv, VisitorTypeOK, InOrder
<1>1. w.on = {} /\ w.op \notin Marks /\ w.op # "edit" /\ w.op # "delete"
  BY <1>0, Kinds DEF Sensible, Sends
<1>2. CASE chat # w.snap
  <2>1. PICK new : new = [w EXCEPT !.at = "failed"]
    OBVIOUS
  <2>2. Step(w, new) /\ UNCHANGED <<message, chat>>
    BY <1>2, <2>1 DEF WriteNew, GivesUp, server
  <2>3. new = [id |-> w.id, op |-> w.op, on |-> w.on, at |-> "failed", snap |-> w.snap]
    BY <1>0, <2>1, Moved
  <2>4. new \in Work
    BY <1>0, <2>3, MovedOn, Kinds
  <2>5. new.op = w.op /\ new.on = {} /\ new.at = "failed"
    BY <1>1, <2>3
  <2>6. Sensible(new)
    BY <1>0, <1>1, <2>5 DEF Sensible, Sends
  <2> QED BY <1>0, <1>1, <2>2, <2>4, <2>5, <2>6, Turns DEF Answers
<1>3. CASE chat = w.snap
  <2>1. PICK row : row = NewMessage(IF w.op = "reply" THEN "agent" ELSE "visitor")
    OBVIOUS
  <2>2. PICK m \in Message : NextMessage(m) /\ message' = [message EXCEPT ![m] = row]
                               /\ Step(w, [w EXCEPT !.at = "written", !.on = {m}, !.snap = row])
    BY <1>3, <2>1 DEF WriteNew
  <2>3. PICK new : new = [w EXCEPT !.at = "written", !.on = {m}, !.snap = row]
    OBVIOUS
  <2>4. work' = (work \ {w}) \cup {new} /\ chat' = TRUE
    BY <1>3, <2>2, <2>3 DEF WriteNew, Step
  <2>5. row \in Row /\ row.st = RECEIVED /\ row = NewMessage(row.from)
    <3>1. PICK who \in {"visitor", "agent"} : row = NewMessage(who)
      BY <2>1
    <3> QED BY <3>1, NewRow
  <2>6. new = [id |-> w.id, op |-> w.op, on |-> {m}, at |-> "written", snap |-> row]
    BY <1>0, <2>3, Moved
  <2>7. new \in Work
    BY <1>0, <2>5, <2>6, MovedOn
  <2>8. new.op = w.op /\ new.on = {m} /\ new.at = "written" /\ new.snap = row
    BY <2>6
  <2>9. message' \in Threads /\ message'[m] = row /\ \A n \in Message : n # m => message'[n] = message[n]
    BY <2>2, <2>5 DEF VisitorInv, VisitorTypeOK, Threads
  <2>10. m \notin Thread /\ Thread' = Thread \cup {m}
    BY <2>2, <2>5, <2>9 DEF NextMessage, Thread, VisitorAssumption
  <2>11. VisitorTypeOK'
    BY <1>0, <2>4, <2>7, <2>9 DEF VisitorInv, VisitorTypeOK
  <2>12. Early'
    BY <1>0, <2>4, <2>8, <2>10 DEF VisitorInv, Early
  <2>13. RowsGrow
    BY <2>9, <2>10 DEF RowsGrow, Touched, Thread
  <2>14. Sensible(new)'
    BY <1>0, <1>1, <2>2, <2>5, <2>8, <2>9, <2>10 DEF Sensible, Sends, Fresh
  <2>15. InOrder'
    <3>1. \A i \in 1..Len(events') : i + 0 \in 1..Len(events) /\ events'[i] = events[i + 0]
      BY <1>0 DEF VisitorInv, VisitorTypeOK
    <3>2. new.on \cap Thread = {}
      BY <2>8, <2>10
    <3> QED BY <2>4, <2>13, <2>14, <3>1, <3>2, OrderKept DEF VisitorInv
  <2>16. ASSUME NEW n \in Thread' \ missed' PROVE Followed(n)'
    <3>1. Based' = Based /\ Base(n)' = Base(n)
      BY <1>0 DEF Based, Base
    <3>2. CASE n = m
      <4>1. On(events, m) = {}
        BY <2>10 DEF VisitorInv, InOrder, Telling, On
      <4>2. \A x \in work : m \notin x.on
        BY <2>10 DEF VisitorInv, InOrder, Sensible
      <4>3. Written(m)' = {new}
        BY <2>4, <2>8, <4>2 DEF Written
      <4>4. PICK e : e = EventOf(new)
        OBVIOUS
      <4>5. e = [ev |-> "created", on |-> {m}, snap |-> row]
        BY <1>0, <2>8, <4>4 DEF EventOf
      <4>6. e \in Event /\ e.on = {m} /\ e.ev = "created" /\ e.snap = row
        BY <2>5, <4>5 DEF Event
      <4>7. Tales(m)' = {Append(events, e)}
        BY <1>0, <4>3, <4>4 DEF Tales, EventOf
      <4>8. events \in Seq(Event)
        BY DEF VisitorInv, VisitorTypeOK
      <4>9. Tells(Append(events, e), m, row)
        BY <4>1, <4>6, <4>8, First DEF Status, SameCore
      <4>10. ASSUME Based PROVE Base(m) = Blank
        BY <2>10, <4>10 DEF Based, Base, VisitorInv, Early
      <4>11. ASSUME Based PROVE Shows(Append(events, e), m, row, Base(m), Going(m)')
        BY <4>1, <4>6, <4>8, <4>10, <4>11, First
      <4>12. KnownBy(m)'
        BY <2>4, <2>8, <2>9, <4>2, <4>3 DEF KnownBy
      <4>13. Told(m)' /\ Shown(m)'
        BY <2>9, <3>1, <3>2, <4>7, <4>9, <4>11 DEF Told, Shown
      <4> QED BY <3>2, <4>12, <4>13 DEF Followed
    <3>3. CASE n # m
      <4>1. n \in Message /\ Followed(n) /\ message'[n] = message[n]
        BY <1>0, <2>9, <2>10, <2>16, <3>3 DEF VisitorInv, Thread
      <4>2. \A x \in work' : n \in x.on => x \in work
        BY <2>4, <2>8, <3>3
      <4>3. \A x \in work : n \in x.on => x \in work'
        BY <2>4, <1>1
      <4>4. KnownBy(n)' /\ Told(n)' /\ Tales(n)' = Tales(n)
        BY <1>0, <4>1, <4>2, <4>3, Unheard DEF Followed
      <4>5. Going(n) => Going(n)'
        BY <4>3 DEF Going
      <4>6. Shown(n)'
        BY <3>1, <4>1, <4>4, <4>5, ShownAsWas DEF Followed
      <4> QED BY <4>4, <4>6 DEF Followed
    <3> QED BY <3>2, <3>3
  <2> QED BY <2>11, <2>12, <2>15, <2>16 DEF VisitorInv
<1> QED BY <1>2, <1>3

\* A request writes rows, and has yet to tell of it.
LEMMA Writing ==
  ASSUME VisitorAssumption, VisitorInv, UNCHANGED <<chat, worked, events, phase, page, history>>,
         NEW w \in work, w.at = "checked", w.op \notin Sending, w.on \subseteq Thread,
         NEW new \in Work, Step(w, new), new.op = w.op, new.on = w.on, new.at = "written",
         message' \in Threads, \A n \in Message \ w.on : message'[n] = message[n],
         \A n \in w.on : message'[n] \in Row, RowsGrow, Sensible(new)',
         NEW e \in Event, EventOf(new) = e, e.ev # "created", e.on = w.on,
         \A n \in w.on :
           /\ Status(e) = message'[n].st
           /\ e.ev = "updated" => SameCore(e.snap, message'[n])
           /\ e.ev = "status" => SameCore(message[n], message'[n]) /\ w.op # "delete"
           /\ Answers(new) => new.snap = message'[n],
         missed' = missed \cup Overlapped(w, w.on)
  PROVE  VisitorInv'
<1>1. work' = (work \ {w}) \cup {new}
  BY DEF Step
<1>2. Thread' = Thread
  BY DEF Thread, VisitorAssumption
<1>3. VisitorTypeOK'
  BY <1>1 DEF VisitorInv, VisitorTypeOK
<1>4. Early'
  BY <1>1, <1>2 DEF VisitorInv, Early
<1>5. InOrder'
  <2>1. \A i \in 1..Len(events') : i + 0 \in 1..Len(events) /\ events'[i] = events[i + 0]
    BY DEF VisitorInv, VisitorTypeOK
  <2> QED BY <1>1, <2>1, OrderKept DEF VisitorInv
<1>6. ASSUME NEW n \in Thread' \ missed' PROVE Followed(n)'
  <2>1. n \in Message /\ n \in Thread /\ Followed(n) /\ n \notin Overlapped(w, w.on)
    BY <1>2, <1>6 DEF VisitorInv, Thread
  <2>2. Based' = Based /\ Base(n)' = Base(n)
    BY DEF Based, Base
  <2>3. CASE n \notin w.on
    <3>1. \A x \in work' : n \in x.on => x \in work
      BY <1>1, <2>3
    <3>2. \A x \in work : n \in x.on => x \in work'
      BY <1>1, <2>3
    <3>3. KnownBy(n)' /\ Told(n)' /\ Tales(n)' = Tales(n)
      BY <2>1, <2>3, <3>1, <3>2, Unheard DEF Followed
    <3>4. Going(n) => Going(n)'
      BY <3>2 DEF Going
    <3>5. Shown(n)'
      BY <2>1, <2>2, <2>3, <3>3, <3>4, ShownAsWas DEF Followed
    <3> QED BY <3>3, <3>5 DEF Followed
  <2>4. CASE n \in w.on
    <3>1. \A x \in work \ {w} : n \in x.on => x.at = "asked"
      BY <2>1, <2>4 DEF Overlapped
    <3>2. Written(n) = {} /\ Written(n)' = {new}
      BY <1>1, <2>4, <3>1 DEF Written
    <3>3. Tales(n) = {events} /\ Tales(n)' = {Append(events, e)}
      BY <3>2 DEF Tales, EventOf
    <3>4. KnownBy(n)'
      <4>1. \A x \in work' : n \in x.on /\ Answers(x) => x.snap = message'[n]
        BY <1>1, <2>4, <3>1 DEF Answers
      <4> QED BY <3>2, <4>1 DEF KnownBy
    <3>5. Tells(events, n, message[n]) /\ (Based => Shows(events, n, message[n], Base(n), Going(n))) /\ events \in Seq(Event)
      BY <2>1, <3>3 DEF Followed, Told, Shown, VisitorInv, VisitorTypeOK
    <3>6. e.ev = "status" => (Going(n) => Going(n)')
      BY <1>1, <2>4 DEF Going
    <3>7. /\ Status(e) = message'[n].st
          /\ e.ev = "updated" => SameCore(e.snap, message'[n])
          /\ e.ev = "status" => SameCore(message[n], message'[n]) /\ (Going(n) => Going(n)')
      BY <2>4, <3>6
    <3>8. Tells(Append(events, e), n, message'[n])
      BY <2>4, <3>5, <3>7, News
    <3>9. Based => Shows(Append(events, e), n, message'[n], Base(n), Going(n)')
      BY <2>4, <3>5, <3>7, News
    <3>10. Told(n)' /\ Shown(n)'
      BY <2>2, <3>3, <3>8, <3>9 DEF Told, Shown
    <3> QED BY <3>4, <3>10 DEF Followed
  <2> QED BY <2>3, <2>4
<1> QED BY <1>3, <1>4, <1>5, <1>6 DEF VisitorInv

LEMMA Changing ==
  ASSUME VisitorAssumption, VisitorInv, NEW w \in work, ApplyChange(w)
  PROVE  VisitorInv'
<1>0. /\ UNCHANGED <<chat, worked, events, phase, page, history>>
      /\ w.op \in {"edit", "delete"} /\ w.at = "checked" /\ w \in Work /\ Sensible(w)
      /\ missed' = missed \cup Overlapped(w, w.on) /\ w.on \subseteq Thread /\ w.id \in Nat
  BY DEF ApplyChange, ChangeTelling, screen, wire, VisitorInv, VisitorTypeOK, InOrder, Sensible, Work
<1>1. w.op \notin Sending /\ w.op \notin Marks
  BY <1>0, Kinds
<1>2. PICK m \in w.on : message' = [message EXCEPT ![m] = Changed(w, m)]
                          /\ Step(w, [w EXCEPT !.at = "written", !.snap = [n \in w.on |-> Changed(w, n)][m]])
  BY DEF ApplyChange, ChangeTelling
<1>3. w.on = {m} /\ m \in Thread /\ m \in Message
  BY <1>0, <1>2 DEF Sensible, Edits, Deletes, Thread
<1>4. PICK row : row = Changed(w, m)
  OBVIOUS
<1>5. message[m] \in Row
  BY <1>3, ThreadRows DEF VisitorInv
<1>6. /\ row \in Row /\ row.from = message[m].from /\ row.st = message[m].st
      /\ w.op = "edit" => row.body # 0 /\ row.deleted = message[m].deleted
      /\ w.op = "delete" => row.deleted /\ row.body = message[m].body
  <2>1. CASE w.op = "edit"
    <3>1. row = [message[m] EXCEPT !.body = w.id + 1]
      BY <1>4, <2>1 DEF Changed
    <3>2. w.id + 1 \in Nat /\ w.id + 1 # 0
      BY <1>0
    <3>3. row = [from |-> message[m].from, body |-> w.id + 1, deleted |-> message[m].deleted, st |-> message[m].st]
      BY <1>5, <3>1 DEF Row
    <3>4. row \in Row
      BY <1>5, <3>1, <3>2 DEF Row
    <3> QED BY <2>1, <3>2, <3>3, <3>4
  <2>2. CASE w.op = "delete"
    <3>1. row = [message[m] EXCEPT !.deleted = TRUE]
      BY <1>4, <2>2 DEF Changed
    <3>2. row = [from |-> message[m].from, body |-> message[m].body, deleted |-> TRUE, st |-> message[m].st]
      BY <1>5, <3>1 DEF Row
    <3>3. row \in Row
      BY <1>5, <3>1 DEF Row
    <3> QED BY <2>2, <3>2, <3>3
  <2> QED BY <1>0, <2>1, <2>2
<1>7. PICK new : new = [w EXCEPT !.at = "written", !.snap = row]
  OBVIOUS
<1>8. Step(w, new)
  BY <1>2, <1>4, <1>7
<1>9. new = [id |-> w.id, op |-> w.op, on |-> w.on, at |-> "written", snap |-> row]
  BY <1>0, <1>7, Moved
<1>10. new \in Work
  BY <1>0, <1>6, <1>9, MovedOn, Kinds
<1>11. new.op = w.op /\ new.on = w.on /\ new.at = "written" /\ new.snap = row
  BY <1>9
<1>12. message' \in Threads /\ message'[m] = row /\ \A n \in Message \ w.on : message'[n] = message[n]
  BY <1>2, <1>3, <1>4, <1>6 DEF VisitorInv, VisitorTypeOK, Threads
<1>13. RowsGrow
  <2>1. \A n \in Thread : n # m => message'[n] = message[n]
    BY <1>3, <1>12 DEF Thread
  <2>2. \A n \in Thread : n \in Thread'
    BY <1>3, <1>6, <1>12, <2>1 DEF Thread, VisitorAssumption
  <2>3. message[m].deleted \in BOOLEAN
    BY <1>5 DEF Row
  <2> QED BY <1>0, <1>6, <1>12, <2>1, <2>2, <2>3 DEF RowsGrow, Touched
<1>14. Sensible(new)'
  <2>1. w.on \subseteq Thread'
    BY <1>0, <1>13 DEF RowsGrow
  <2> QED BY <1>0, <1>1, <1>3, <1>6, <1>11, <1>12, <2>1 DEF Sensible, Edits, Deletes
<1>15. PICK e : e = EventOf(new)
  OBVIOUS
<1>16. e = [ev |-> "updated", on |-> w.on, snap |-> row]
  BY <1>1, <1>11, <1>15, Marking DEF EventOf
<1>17. e \in Event /\ e.ev = "updated" /\ e.on = w.on /\ e.snap = row
  BY <1>3, <1>6, <1>16 DEF Event
<1>18. \A n \in w.on :
           /\ Status(e) = message'[n].st
           /\ e.ev = "updated" => SameCore(e.snap, message'[n])
           /\ e.ev = "status" => SameCore(message[n], message'[n]) /\ w.op # "delete"
           /\ Answers(new) => new.snap = message'[n]
  BY <1>3, <1>11, <1>12, <1>17 DEF Status, SameCore
<1>19. \A n \in w.on : message'[n] \in Row
  BY <1>3, <1>6, <1>12
<1>20. w.op \notin Sending /\ e.ev # "created"
  BY <1>1, <1>17
<1> QED
  BY <1>0, <1>8, <1>10, <1>11, <1>12, <1>13, <1>14, <1>15, <1>17, <1>18, <1>19, <1>20, Writing

LEMMA MarkingRead ==
  ASSUME VisitorAssumption, VisitorInv, NEW w \in work, WriteStatus(w)
  PROVE  VisitorInv'
<1>0. /\ UNCHANGED <<chat, worked, events, phase, page, history>>
      /\ w.op \in Marks /\ w.at = "checked" /\ w \in Work /\ Sensible(w)
      /\ missed' = missed \cup Overlapped(w, w.on) /\ w.on \subseteq Thread /\ w.on \in SUBSET Message
  BY Marking DEF WriteStatus, screen, wire, VisitorInv, VisitorTypeOK, InOrder, Sensible, Work
<1>1. w.op \notin Sending /\ w.op # "edit" /\ w.op # "delete"
  BY <1>0, Kinds
<1>2. PICK to : to = Bumps[w.op].to
  OBVIOUS
<1>3. to \in {DELIVERED, READ} /\ to \in Statuses /\ to # RECEIVED
  BY <1>0, <1>2, Marking DEF Statuses, RECEIVED, DELIVERED, READ
<1>4. message' = [m \in Message |-> IF m \in w.on THEN [message[m] EXCEPT !.st = to] ELSE message[m]]
  BY <1>2 DEF WriteStatus
<1>5. PICK new : new = [w EXCEPT !.at = "written", !.snap = to]
  OBVIOUS
<1>6. Step(w, new)
  BY <1>2, <1>5 DEF WriteStatus
<1>7. new = [id |-> w.id, op |-> w.op, on |-> w.on, at |-> "written", snap |-> to]
  BY <1>0, <1>5, Moved
<1>8. new \in Work
  BY <1>0, <1>3, <1>7, MovedOn
<1>9. new.op = w.op /\ new.on = w.on /\ new.at = "written" /\ new.snap = to
  BY <1>7
<1>10. ASSUME NEW m \in w.on
       PROVE  message'[m] \in Row /\ message'[m].st = to /\ SameCore(message[m], message'[m])
  <2>1. message[m] \in Row
    BY <1>0, ThreadRows DEF VisitorInv
  <2>2. message'[m] = [message[m] EXCEPT !.st = to]
    BY <1>0, <1>4
  <2>3. message'[m] \in Row
    BY <1>3, <2>1, <2>2 DEF Row, Statuses
  <2>4. message'[m] = [from |-> message[m].from, body |-> message[m].body, deleted |-> message[m].deleted, st |-> to]
    BY <2>1, <2>2 DEF Row
  <2> QED BY <2>3, <2>4 DEF SameCore
<1>11. \A m \in Message \ w.on : message'[m] = message[m]
  BY <1>4
<1>12. message' \in Threads
  BY <1>4, <1>10, <1>11 DEF VisitorInv, VisitorTypeOK, Threads
<1>13. RowsGrow
  <2>1. \A n \in Thread : n \in Thread'
    BY <1>0, <1>10, <1>11 DEF Thread, VisitorAssumption
  <2>2. \A n \in Thread : n \notin w.on => message'[n] = message[n]
    BY <1>11 DEF Thread
  <2> QED BY <1>3, <1>10, <2>1, <2>2 DEF RowsGrow, Touched, SameCore
<1>14. Sensible(new)'
  <2>1. w.on \subseteq Thread'
    BY <1>0, <1>13 DEF RowsGrow
  <2>2. \A m \in w.on : Touched(m)'
    BY <1>3, <1>10 DEF Touched
  <2> QED BY <1>0, <1>1, <1>3, <1>9, <2>1, <2>2 DEF Sensible, MarksRead
<1>15. PICK e : e = EventOf(new)
  OBVIOUS
<1>16. e = [ev |-> "status", on |-> w.on, snap |-> to]
  BY <1>0, <1>1, <1>9, <1>15, Marking DEF EventOf
<1>17. e \in Event /\ e.ev = "status" /\ e.on = w.on /\ e.snap = to
  BY <1>0, <1>3, <1>16 DEF Event
<1>18. \A n \in w.on :
           /\ Status(e) = message'[n].st
           /\ e.ev = "updated" => SameCore(e.snap, message'[n])
           /\ e.ev = "status" => SameCore(message[n], message'[n]) /\ w.op # "delete"
           /\ Answers(new) => new.snap = message'[n]
  BY <1>1, <1>9, <1>10, <1>17 DEF Status, Answers
<1>19. e.ev # "created" /\ \A n \in w.on : message'[n] \in Row
  BY <1>10, <1>17
<1> QED
  BY <1>0, <1>1, <1>6, <1>8, <1>9, <1>11, <1>12, <1>13, <1>14, <1>15, <1>17, <1>18, <1>19, Writing

\* Publishing leaves a request answered, or done.
LEMMA PublishedInOrder ==
  ASSUME VisitorInv, UNCHANGED message, NEW w \in work, w.at = "written", NEW new, new.op = w.op, new.on = w.on,
         new.at = "answered", new \in work' => Sensible(new), work' \subseteq (work \ {w}) \cup {new},
         NEW e \in Event, Telling(e), e.on = w.on, e.ev = "created" <=> w.op \in Sending,
         events' \in {events, Append(events, e)}
  PROVE  InOrder'
<1>1. RowsGrow /\ events \in Seq(Event) /\ InOrder
  BY DEF RowsGrow, Thread, Touched, VisitorInv, VisitorTypeOK
<1>2. \A x \in work' : Sensible(x)'
  BY <1>1, StillSensible DEF InOrder
<1>3. \A i \in 1..Len(events') : (i \in 1..Len(events) /\ events'[i] = events[i]) \/ (i = Len(events) + 1 /\ events'[i] = e /\ events' # events)
  <2>1. CASE events' = events
    BY <2>1
  <2>2. CASE events' # events
    <3>1. events' = Append(events, e)
      BY <2>2
    <3> QED BY <1>1, <2>2, <3>1
  <2> QED BY <2>1, <2>2
<1>4. (\A i \in 1..Len(events) : Telling(events[i]))'
  <2> SUFFICES ASSUME NEW i \in 1..Len(events') PROVE Telling(events[i])'
    OBVIOUS
  <2>1. PICK f : f = events'[i]
    OBVIOUS
  <2>2. Telling(f)
    BY <1>1, <1>3, <2>1 DEF InOrder
  <2>3. Telling(f)'
    BY <1>1, <2>2, StillTelling
  <2> QED BY <2>1, <2>3 DEF Telling, Touched, Fresh
<1>5. ASSUME NEW m \in Message PROVE Once(m)'
  <2>0. Once(m)
    BY <1>1 DEF InOrder
  <2>1. \A x \in work' : x # new => x \in work /\ x # w
    OBVIOUS
  <2>2. Creates(new, m) <=> Creates(w, m)
    BY DEF Creates
  <2>3. \A x, y \in work' : Creates(x, m) /\ Creates(y, m) => x = y
    BY <2>0, <2>1, <2>2 DEF Once
  <2>4. \A i \in 1..Len(events') : CreatedAt(i, m)' => CreatedAt(i, m) \/ (i = Len(events) + 1 /\ Creates(w, m))
    BY <1>3 DEF CreatedAt, Creates
  <2>5. \A i \in 1..Len(events) : CreatedAt(i, m) => ~Creates(w, m)
    BY <2>0 DEF Once
  <2>6. \A i, j \in 1..Len(events') : CreatedAt(i, m)' /\ CreatedAt(j, m)' => i = j
    <3> SUFFICES ASSUME NEW i \in 1..Len(events'), NEW j \in 1..Len(events'), CreatedAt(i, m)', CreatedAt(j, m)'
                 PROVE  i = j
      OBVIOUS
    <3>1. CASE CreatedAt(i, m) /\ CreatedAt(j, m)
      BY <2>0, <3>1 DEF Once, CreatedAt
    <3>2. CASE ~CreatedAt(i, m) \/ ~CreatedAt(j, m)
      BY <2>4, <2>5, <3>2 DEF CreatedAt
    <3> QED BY <3>1, <3>2
  <2>7. \A i \in 1..Len(events'), x \in work' : CreatedAt(i, m)' /\ Creates(x, m) => x.at # "written"
    <3> SUFFICES ASSUME NEW i \in 1..Len(events'), NEW x \in work', CreatedAt(i, m)', Creates(x, m), x.at = "written"
                 PROVE  FALSE
      OBVIOUS
    <3>1. x \in work /\ x # w
      BY <2>1
    <3>2. CASE CreatedAt(i, m)
      BY <2>0, <3>1, <3>2 DEF Once, CreatedAt
    <3>3. CASE Creates(w, m)
      BY <2>0, <3>1, <3>3 DEF Once
    <3> QED BY <2>4, <3>2, <3>3
  <2> QED BY <2>3, <2>6, <2>7 DEF Once, Creates
<1> QED BY <1>2, <1>4, <1>5 DEF InOrder

LEMMA Publishes ==
  ASSUME VisitorAssumption, VisitorInv, NEW w \in work, Publish(w)
  PROVE  VisitorInv'
<1>0. /\ UNCHANGED <<message, chat, worked, phase, page, history>>
      /\ w.at = "written" /\ w \in Work /\ Sensible(w) /\ w.on \in SUBSET Message /\ w.on \subseteq Thread
      /\ VisitorTypeOK /\ Early /\ events \in Seq(Event)
  BY DEF Publish, server, screen, VisitorInv, VisitorTypeOK, InOrder, Sensible, Work
<1>1. PICK e : e = EventOf(w)
  OBVIOUS
<1>2. /\ e \in Event /\ e.on = w.on /\ Telling(e)
      /\ e.ev = "created" <=> w.op \in Sending
  BY <1>0, <1>1, Publishing
<1>3. PICK new : new = [w EXCEPT !.at = "answered"]
  OBVIOUS
<1>4. new = [id |-> w.id, op |-> w.op, on |-> w.on, at |-> "answered", snap |-> w.snap]
  BY <1>0, <1>3, Moved
<1>5. new.op = w.op /\ new.on = w.on /\ new.at = "answered" /\ new.snap = w.snap
  BY <1>4
<1>6. /\ events' = IF link = "joined" THEN Append(events, e) ELSE events
      /\ missed' = IF link = "joined" THEN missed ELSE missed \cup w.on
      /\ IF w.op \in Marks \cup {"reply"} THEN work' = work \ {w} ELSE work' = (work \ {w}) \cup {new}
  BY <1>1, <1>3, Marking DEF Publish, Step
<1>7. new \in Work
  <2>1. w.snap \in {Blank} \cup BOOLEAN \cup Row \cup Statuses
    BY <1>0, Kinds
  <2> QED BY <1>0, <1>4, <2>1, MovedOn
<1>8. VisitorTypeOK'
  <2>1. events' \in Seq(Event)
    BY <1>0, <1>2, <1>6
  <2> QED BY <1>0, <1>6, <1>7, <2>1 DEF VisitorTypeOK
<1>9. Thread' = Thread
  BY <1>0 DEF Thread
<1>10. Early'
  <2>1. phase' # "open" => \A x \in work' : x.op \in Marks \cup {"reply"}
    BY <1>0, <1>5, <1>6 DEF Early
  <2> QED BY <1>0, <1>9, <2>1 DEF Early
<1>11. InOrder'
  <2>1. w.op \notin Marks => Sensible(new)
    BY <1>0, <1>5 DEF Sensible, Sends, Edits, Deletes
  <2>2. new \in work' => Sensible(new)
    <3>1. CASE w.op \in Marks
      <4>1. new \notin work
        BY <3>1, <1>0, <1>5 DEF InOrder, Sensible, MarksRead, VisitorInv
      <4> QED BY <3>1, <4>1, <1>6
    <3> QED BY <2>1, <3>1
  <2>3. work' \subseteq (work \ {w}) \cup {new} /\ events' \in {events, Append(events, e)}
    BY <1>6
  <2> QED BY <1>0, <1>2, <1>5, <2>2, <2>3, PublishedInOrder
<1>12. ASSUME NEW n \in Thread' \ missed' PROVE Followed(n)'
  <2>1. n \in Message /\ n \in Thread /\ n \notin missed /\ (n \in w.on => link = "joined")
    BY <1>6, <1>9, <1>12 DEF Thread
  <2>2. Followed(n)
    BY <2>1 DEF VisitorInv
  <2>3. Based' = Based /\ Base(n)' = Base(n) /\ message'[n] = message[n]
    BY <1>0 DEF Based, Base
  <2>4. Going(n) => Going(n)'
    <3> SUFFICES ASSUME NEW x \in work, n \in x.on, x.op = "delete" PROVE Going(n)'
      BY DEF Going
    <3>1. CASE x # w
      <4>1. x \in work'
        BY <3>1, <1>6
      <4> QED BY <4>1 DEF Going
    <3>2. CASE x = w
      <4>1. new \in work' /\ new.op = "delete" /\ n \in new.on
        BY <3>2, <1>0, <1>5, <1>6, Kinds
      <4> QED BY <4>1 DEF Going
    <3> QED BY <3>1, <3>2
  <2>5. \A x \in work' : x \in work \/ x = new
    BY <1>6
  <2>6. \A x \in work : x \in work' \/ x = w
    BY <1>6
  <2>7. CASE n \in w.on
    <3>1. w \in Written(n)
      BY <2>7, <1>0 DEF Written
    <3>2. Written(n) = {w} /\ Tales(n) = {Append(events, e)}
      BY <3>1, <2>2, <1>1, OneTale DEF Followed
    <3>3. Written(n)' = {}
      <4>1. \A x \in Written(n)' : x \in work' /\ n \in x.on /\ x.at = "written"
        BY DEF Written
      <4>2. w \notin work'
        BY <1>0, <1>5, <1>6
      <4> QED BY <3>2, <4>1, <4>2, <2>5, <1>5 DEF Written
    <3>4. Tales(n)' = Tales(n)
      BY <3>2, <3>3, <2>1, <2>7, <1>6 DEF Tales
    <3>5. KnownBy(n)'
      <4>1. ASSUME NEW x \in work', n \in x.on, Answers(x) PROVE x.snap = message'[n]
        <5>1. CASE x \in work
          BY <4>1, <5>1, <2>2, <2>3 DEF Followed, KnownBy
        <5>2. CASE x = new
          <6>1. Answers(w)
            BY <4>1, <5>2, <1>0, <1>5 DEF Answers
          <6>2. w.snap = message[n]
            BY <6>1, <2>2, <2>7 DEF Followed, KnownBy
          <6> QED BY <5>2, <6>2, <2>3, <1>5
        <5> QED BY <5>1, <5>2, <2>5
      <4> QED BY <3>3, <4>1 DEF KnownBy, Answers
    <3>6. Told(n)'
      BY <3>4, <2>2, <2>3 DEF Followed, Told
    <3>7. Shown(n)'
      BY <3>4, <2>1, <2>2, <2>3, <2>4, ShownAsWas DEF Followed
    <3> QED BY <3>5, <3>6, <3>7 DEF Followed
  <2>8. CASE n \notin w.on
    <3>1. \A x \in work' : n \in x.on => x \in work
      BY <2>5, <2>8, <1>5
    <3>2. \A x \in work : n \in x.on => x \in work'
      BY <2>6, <2>8
    <3>3. Written(n)' = Written(n)
      BY <3>1, <3>2 DEF Written
    <3>4. KnownBy(n)'
      BY <3>1, <3>3, <2>2, <2>3 DEF Followed, KnownBy, Answers
    <3>5. CASE link # "joined"
      <4>1. Tales(n)' = Tales(n)
        BY <3>3, <3>5, <1>6 DEF Tales
      <4>2. Told(n)'
        BY <4>1, <2>2, <2>3 DEF Followed, Told
      <4>3. Shown(n)'
        BY <4>1, <2>1, <2>2, <2>3, <2>4, ShownAsWas DEF Followed
      <4> QED BY <3>4, <4>2, <4>3 DEF Followed
    <3>6. CASE link = "joined"
      <4>0. events' = Append(events, e)
        BY <3>6, <1>6
      <4>1. ASSUME NEW s, NEW t, Tales(n) = {s}, Tales(n)' = {t},
                   Tells(s, n, message[n]) => Tells(t, n, message[n]),
                   Shows(s, n, message[n], Base(n), Going(n)) => Shows(t, n, message[n], Base(n), Going(n))
            PROVE  Followed(n)'
        <5>1. Tells(s, n, message[n]) /\ (Based => Shows(s, n, message[n], Base(n), Going(n)))
          BY <4>1, <2>2 DEF Followed, Told, Shown
        <5>2. Told(n)'
          BY <4>1, <5>1, <2>3 DEF Told
        <5>3. Based => Shows(t, n, message[n], Base(n), Going(n)')
          BY <4>1, <5>1, <2>4 DEF Shows
        <5>4. Shown(n)'
          BY <4>1, <5>3, <2>3 DEF Shown
        <5> QED BY <5>2, <5>4, <3>4 DEF Followed
      <4>2. CASE Written(n) = {}
        <5>1. Tales(n) = {events} /\ Tales(n)' = {Append(events, e)}
          BY <4>0, <4>2, <3>3 DEF Tales
        <5>2. Tells(events, n, message[n]) => Tells(Append(events, e), n, message[n])
          BY <1>0, <1>2, <2>8, OfOthers
        <5>3. Shows(events, n, message[n], Base(n), Going(n)) => Shows(Append(events, e), n, message[n], Base(n), Going(n))
          BY <1>0, <1>2, <2>8, OfOthers
        <5> QED BY <4>1, <5>1, <5>2, <5>3
      <4>3. ASSUME NEW x \in Written(n) PROVE Followed(n)'
        <5>0. PICK f : f = EventOf(x)
          OBVIOUS
        <5>1. f \in Event /\ n \in f.on
          BY <5>0, <2>1, Alone DEF Written
        <5>2. Tales(n) = {Append(events, f)}
          BY <5>0, <2>2, OneTale DEF Followed
        <5>3. Written(n)' = {x}
          BY <2>2, <3>3, OneTale DEF Followed
        <5>4. Tales(n)' = {Append(Append(events, e), f)}
          BY <5>0, <5>3, <4>0 DEF Tales, EventOf
        <5>5. Tells(Append(events, f), n, message[n]) => Tells(Append(Append(events, e), f), n, message[n])
          BY <1>0, <1>2, <2>8, <5>1, OfOthersBefore
        <5>6. Shows(Append(events, f), n, message[n], Base(n), Going(n))
                => Shows(Append(Append(events, e), f), n, message[n], Base(n), Going(n))
          BY <1>0, <1>2, <2>8, <5>1, OfOthersBefore
        <5> QED BY <4>1, <5>2, <5>4, <5>5, <5>6
      <4> QED BY <4>2, <4>3
    <3> QED BY <3>5, <3>6
  <2> QED BY <2>7, <2>8
<1> QED BY <1>8, <1>10, <1>11, <1>12 DEF VisitorInv

\* A message that nobody has changed, and that is not being sent: there is nothing to tell of
\* it but its creation.
LEMMA Untold ==
  ASSUME VisitorAssumption, VisitorInv, NEW m \in Thread, ~Touched(m), NEW w \in work, Creates(w, m), w.at # "written"
  PROVE  /\ Written(m) = {} /\ Told(m)
         /\ \A x \in work \ {w} : m \in x.on => ~Answers(x)
<1>0. m \in Message /\ Once(m) /\ message[m] \in Row /\ message[m] = Fresh(m) /\ InOrder /\ events \in Seq(Event)
  <2>1. m \in Message /\ message[m] \in Row /\ message[m].st = RECEIVED /\ message[m].body = 0 /\ message[m].deleted = FALSE
    BY ThreadRows DEF VisitorInv, Touched
  <2>2. message[m] = [from |-> message[m].from, body |-> message[m].body, deleted |-> message[m].deleted, st |-> message[m].st]
    BY <2>1 DEF Row
  <2>3. message[m].from \in {"visitor", "agent"}
    BY ThreadRows DEF VisitorInv
  <2> QED BY <2>1, <2>2, <2>3, NewRow DEF Fresh, VisitorInv, VisitorTypeOK, InOrder
<1>1. ASSUME NEW x \in work, m \in x.on, x # w PROVE x.op \notin Sending /\ x.at # "written" /\ ~Answers(x)
  <2>1. x.op \notin Sending
    BY <1>0, <1>1 DEF Once, Creates
  <2>2. Sensible(x) /\ x \in Work
    BY <1>0 DEF InOrder, VisitorInv, VisitorTypeOK
  <2>3. x.at # "written"
    <3> SUFFICES ASSUME x.at = "written" PROVE FALSE
      OBVIOUS
    <3>1. Telling(EventOf(x)) /\ EventOf(x).on = x.on /\ EventOf(x).ev # "created"
      BY <2>1, <2>2, Publishing DEF VisitorInv
    <3> QED BY <3>1, <1>1 DEF Telling
  <2>4. ~Answers(x)
    <3> SUFFICES ASSUME x.op = "edit", x.at = "answered" PROVE FALSE
      BY <2>1, <2>3 DEF Answers
    <3>1. message[m].body # 0
      BY <2>2, <1>1 DEF Sensible, Edits
    <3> QED BY <3>1 DEF Touched
  <2> QED BY <2>1, <2>3, <2>4
<1>2. Written(m) = {}
  BY <1>1 DEF Written
<1>3. ASSUME NEW i \in On(events, m) PROVE CreatedAt(i, m) /\ events[i].snap = message[m]
  <2>1. i \in 1..Len(events) /\ m \in events[i].on /\ Telling(events[i])
    BY <1>0 DEF On, InOrder
  <2>2. events[i].ev = "created"
    BY <2>1 DEF Telling
  <2>3. events[i].snap = Fresh(m)
    BY <2>1, <2>2 DEF Telling
  <2> QED BY <2>1, <2>2, <2>3, <1>0 DEF CreatedAt
<1>4. \A i, j \in On(events, m) : i = j
  BY <1>0, <1>3 DEF Once, CreatedAt
<1>5. Tells(events, m, message[m])
  <2>1. \A i \in On(events, m) : events[i].ev = "created"
    BY <1>3 DEF CreatedAt
  <2>2. \A i \in On(events, m) : Status(events[i]) = message[m].st /\ SameCore(events[i].snap, message[m])
    BY <1>3, <2>1 DEF Status, SameCore
  <2>3. \A i, j \in On(events, m) : j <= i
    <3>1. \A i \in On(events, m) : i \in Nat
      BY <1>0 DEF On
    <3>2. \A i \in Nat : i <= i
      OBVIOUS
    <3> QED BY <1>4, <3>1, <3>2
  <2> QED BY <2>2, <2>3 DEF Tells
<1>6. Told(m)
  BY <1>2, <1>5 DEF Told, Tales
<1> QED BY <1>1, <1>2, <1>6

\* The answer reaches the page, or is lost.
LEMMA Answering ==
  ASSUME VisitorAssumption, VisitorInv, NEW w \in work, NEW ok \in BOOLEAN, Answer(w, ok)
  PROVE  VisitorInv'
<1>0. /\ UNCHANGED <<message, chat, worked, phase, history, events>>
      /\ w \in Work /\ Sensible(w) /\ w.on \in SUBSET Message /\ w.on \subseteq Thread
      /\ w.at \in {"answered", "failed"} /\ (w.at = "failed" => ~ok)
      /\ work' = work \ {w}
      /\ VisitorTypeOK /\ Early /\ InOrder
  BY DEF Answer, wire, server, VisitorInv, VisitorTypeOK, InOrder, Sensible, Work
<1>1. w.op \notin Marks \cup {"reply"}
  BY Marking DEF Answer
<1>2. w.op \in {"text", "file"} \/ w.op = "edit" \/ w.op = "delete"
  BY <1>0, <1>1, Kinds
<1>3. phase = "open" /\ Based /\ Based' /\ \A m \in Message : Base(m) = page[m] /\ Base(m)' = page'[m]
  BY <1>0, <1>1 DEF Early, Based, Base
<1>4. /\ \A m \in Message \ w.on : page'[m] = page[m]
      /\ \A m \in w.on :
           /\ w.op \in Sending => page'[m] = IF ok /\ page[m] = Blank THEN w.snap ELSE page[m]
           /\ w.op \notin Sending /\ page[m] = Blank => page'[m] = Blank
           /\ w.op = "edit" /\ page[m] # Blank => page'[m] = IF ok THEN w.snap ELSE page[m]
           /\ w.op = "delete" /\ page[m] # Blank => page'[m] = IF ok THEN page[m] ELSE [page[m] EXCEPT !.deleted = FALSE]
  BY <1>0, <1>2, Kinds DEF Answer
<1>5. missed' = IF ~ok /\ w.op = "delete" THEN missed \cup w.on
                ELSE IF ok /\ w.op \in Sending THEN missed \ {m \in w.on : page[m] = Blank /\ message[m] = w.snap}
                ELSE missed
  BY DEF Answer
<1>6. ASSUME NEW m \in w.on, w.op \in Sending PROVE w.at = "answered" /\ w.snap = Fresh(m) /\ w.snap \in Row
  <2>1. w.at = "answered" /\ w.snap = Fresh(m)
    BY <1>0, <1>6 DEF Sensible, Sends
  <2> QED BY <2>1, <1>0, ThreadRows
<1>7. ASSUME NEW m \in w.on, w.op = "edit", ok PROVE w.at = "answered" /\ w.snap \in Row
  BY <1>0, <1>7 DEF Sensible, Edits
<1>8. ASSUME NEW m \in Message PROVE page[m] \in Row \cup {Blank} /\ page'[m] \in Row \cup {Blank}
  <2>1. page[m] \in Row \cup {Blank}
    BY <1>0 DEF VisitorTypeOK, Threads
  <2>2. CASE m \notin w.on
    BY <2>1, <2>2, <1>4
  <2>3. CASE m \in w.on /\ w.op \in Sending
    BY <2>1, <2>3, <1>4, <1>6
  <2>4. CASE m \in w.on /\ w.op = "edit"
    <3>1. w.op \notin Sending
      BY <2>4, <1>0, Kinds
    <3> QED BY <3>1, <2>1, <2>4, <1>4, <1>7
  <2>5. CASE m \in w.on /\ w.op = "delete"
    <3>1. w.op \notin Sending
      BY <2>5, <1>0, Kinds
    <3>2. page[m] # Blank => [page[m] EXCEPT !.deleted = FALSE] \in Row
      BY <2>1 DEF Row
    <3> QED BY <3>1, <3>2, <2>1, <2>5, <1>4
  <2> QED BY <2>1, <2>2, <2>3, <2>4, <2>5, <1>0, <1>2, Kinds
<1>9. VisitorTypeOK'
  <2>1. page' = [m \in Message |-> page'[m]]
    BY DEF Answer
  <2>2. page' \in Threads
    BY <2>1, <1>8 DEF Threads
  <2> QED BY <2>2, <1>0 DEF VisitorTypeOK
<1>10. Thread' = Thread /\ Thread \subseteq Message
  BY <1>0 DEF Thread
<1>11. Early'
  BY <1>0, <1>3, <1>4, <1>10 DEF Early
<1>12. InOrder'
  <2>1. RowsGrow
    BY <1>0, <1>10 DEF RowsGrow, Touched
  <2>2. \A i \in 1..Len(events') : i + 0 \in 1..Len(events) /\ events'[i] = events[i + 0]
    BY <1>0 DEF VisitorTypeOK
  <2> QED BY <1>0, <2>1, <2>2, OrderKept
<1>13. ASSUME NEW n \in Thread' \ missed' PROVE Followed(n)'
  <2>1. n \in Message /\ n \in Thread /\ message[n] # Blank /\ message'[n] = message[n]
    BY <1>0, <1>10, <1>13 DEF Thread
  \* As long as it was not missed.
  <2>2. ASSUME n \notin missed
        PROVE  /\ KnownBy(n) /\ Shown(n) /\ KnownBy(n)' /\ Told(n)' /\ Tales(n)' = Tales(n)
               /\ page'[n] = page[n] /\ (Going(n) /\ ~message[n].deleted => Going(n)') => Followed(n)'
               /\ page'[n] = message[n] => Followed(n)'
    <3>1. Followed(n)
      BY <2>1, <2>2 DEF VisitorInv
    <3>2. KnownBy(n)' /\ Told(n)' /\ Tales(n)' = Tales(n)
      BY <1>0, <2>1, <3>1, Unheard DEF Followed
    <3>3. page'[n] = page[n] /\ (Going(n) /\ ~message[n].deleted => Going(n)') => Shown(n)'
      BY <1>3, <2>1, <3>1, <3>2, ShownAsWas DEF Followed
    <3>4. page'[n] = message[n] => Shown(n)'
      BY <1>3, <2>1, ReadIsTrue DEF Shown
    <3> QED BY <3>1, <3>2, <3>3, <3>4 DEF Followed
  <2>3. w.op # "delete" \/ n \notin w.on => (Going(n) => Going(n)')
    BY <1>0 DEF Going
  <2>4. CASE n \notin w.on
    <3>1. n \notin missed
      BY <2>4, <1>5, <1>13
    <3> QED BY <3>1, <2>1, <2>2, <2>3, <2>4, <1>4
  <2>5. CASE n \in w.on /\ w.op = "delete"
    <3>1. w.op \notin Sending
      BY <2>5, <1>0, Kinds
    <3>2. ok /\ n \notin missed
      BY <2>5, <3>1, <1>5, <1>13
    <3>3. message[n].deleted
      BY <2>5, <3>2, <1>0 DEF Sensible, Deletes
    <3>4. page'[n] = page[n]
      BY <2>5, <3>1, <3>2, <1>4
    <3> QED BY <3>2, <3>3, <3>4, <2>2
  <2>6. CASE n \in w.on /\ w.op = "edit"
    <3>1. w.op \notin Sending /\ w.op # "delete"
      BY <2>6, <1>0, Kinds
    <3>2. n \notin missed
      BY <2>6, <3>1, <1>5, <1>13
    <3>3. CASE page[n] = Blank \/ ~ok
      BY <2>2, <2>3, <2>6, <3>1, <3>2, <3>3, <1>4
    <3>4. CASE page[n] # Blank /\ ok
      <4>1. page'[n] = w.snap /\ Answers(w)
        BY <2>6, <3>4, <1>4, <1>7 DEF Answers
      <4>2. w.snap = message[n]
        BY <4>1, <2>2, <2>6, <3>2 DEF KnownBy
      <4> QED BY <4>1, <4>2, <2>2, <3>2
    <3> QED BY <3>3, <3>4
  <2>7. CASE n \in w.on /\ w.op \in Sending
    <3>0. w.op # "delete" /\ w.at = "answered" /\ Answers(w) /\ w.snap = Fresh(n)
      BY <2>7, <1>0, <1>6, Kinds DEF Answers
    <3>1. CASE page[n] # Blank \/ ~ok
      <4>1. n \notin missed /\ page'[n] = page[n]
        BY <2>7, <3>0, <3>1, <1>4, <1>5, <1>13
      <4> QED BY <4>1, <2>2, <2>3, <3>0
    <3>2. CASE page[n] = Blank /\ ok
      <4>1. page'[n] = w.snap
        BY <2>7, <3>2, <1>4
      <4>2. CASE n \notin missed
        <5>1. w.snap = message[n]
          BY <2>2, <2>7, <3>0, <4>2 DEF KnownBy
        <5> QED BY <4>1, <5>1, <2>2, <4>2
      <4>3. CASE n \in missed
        <5>1. message[n] = w.snap
          BY <2>7, <3>0, <3>2, <4>3, <1>5, <1>13
        <5>2. ~Touched(n)
          BY <5>1, <3>0, <2>1, <1>0, ThreadRows DEF Touched
        <5>3. Creates(w, n) /\ w.at # "written"
          BY <2>7, <3>0 DEF Creates
        <5>4. Written(n) = {} /\ Told(n) /\ \A x \in work \ {w} : n \in x.on => ~Answers(x)
          BY <5>2, <5>3, <2>1, Untold
        <5>5. Written(n)' = {} /\ Tales(n)' = Tales(n)
          BY <1>0, <5>4 DEF Written, Tales
        <5>6. KnownBy(n)'
          BY <1>0, <5>4, <5>5 DEF KnownBy, Answers
        <5>7. Told(n)'
          BY <5>4, <5>5, <2>1 DEF Told
        <5>8. Shown(n)'
          BY <4>1, <5>1, <1>3, <2>1, ReadIsTrue DEF Shown
        <5> QED BY <5>6, <5>7, <5>8 DEF Followed
      <4> QED BY <4>2, <4>3
    <3> QED BY <3>1, <3>2
  <2> QED BY <2>4, <2>5, <2>6, <2>7, <1>0, <1>2, Kinds
<1> QED BY <1>9, <1>11, <1>12, <1>13 DEF VisitorInv

-----------------------------------------------------------------------------
(* The theorem. *)

LEMMA VisitorStarts ==
  ASSUME VisitorAssumption, VisitorInit
  PROVE  VisitorInv
<1>1. PICK old \in {Blank} \cup {NewMessage(who) : who \in {"visitor", "agent"}} :
        message = [m \in Message |-> IF m = 1 THEN old ELSE Blank]
  BY DEF VisitorInit
<1>2. /\ chat = (message[1] # Blank) /\ work = {} /\ worked = 0 /\ phase = "closed"
      /\ history = Blank /\ page = [m \in Message |-> Blank] /\ events = <<>> /\ missed = {}
  BY DEF VisitorInit
<1>3. old \in Row \cup {Blank}
  BY NewRow
<1>4. VisitorTypeOK
  <2>1. message \in Threads
    BY <1>1, <1>3 DEF Threads
  <2>2. page \in Threads
    BY <1>2 DEF Threads
  <2>3. <<>> \in Seq(Event) /\ chat \in BOOLEAN
    BY <1>2
  <2> QED BY <1>2, <2>1, <2>2, <2>3 DEF VisitorTypeOK
<1>5. Early
  <2>1. ~chat => Thread = {}
    BY <1>1, <1>2 DEF Thread
  <2> QED BY <1>2, <2>1 DEF Early
<1>6. InOrder
  BY <1>2 DEF InOrder, Once, CreatedAt
<1>7. ASSUME NEW m \in Thread PROVE Followed(m)
  <2>1. Written(m) = {} /\ On(events, m) = {}
    BY <1>2 DEF Written, On
  <2>2. Tales(m) = {events} /\ KnownBy(m)
    BY <1>2, <2>1 DEF Tales, KnownBy
  <2>3. Told(m)
    BY <2>1, <2>2, Silence DEF Told
  <2>4. Shown(m)
    BY <1>2 DEF Shown, Based
  <2> QED BY <2>2, <2>3, <2>4 DEF Followed
<1> QED BY <1>4, <1>5, <1>6, <1>7 DEF VisitorInv

LEMMA VisitorSteps ==
  ASSUME VisitorAssumption, VisitorInv, [VisitorNext]_visitorVars
  PROVE  VisitorInv'
<1>1. CASE OpenPage
  BY <1>1, Opens
<1>2. CASE ReadHistory
  BY <1>2, LoadsHistory
<1>3. CASE ShowHistory
  BY <1>3, Displays
<1>4. CASE LoadFails
  BY <1>4, GetsNothing
<1>5. CASE Connect \/ Join \/ ComeBack \/ UNCHANGED visitorVars
  BY <1>5, AskedAnew
<1>6. CASE Disconnect
  BY <1>6, Drops
<1>7. ASSUME NEW kind \in {"text", "file"}, WriteMessage(kind) PROVE VisitorInv'
  BY <1>7, AskedAnew
<1>8. ASSUME NEW m \in Message, NEW op \in {"edit", "delete"}, Change(m, op) PROVE VisitorInv'
  <2>1. CASE op = "edit"
    BY <1>8, <2>1, AskedAnew
  <2>2. CASE op = "delete"
    BY <1>8, <2>2, Hides
  <2> QED BY <2>1, <2>2
<1>9. ASSUME NEW visible \in BOOLEAN, TakeEvent(visible) PROVE VisitorInv'
  BY <1>9, Takes
<1>10. ASSUME NEW op \in {"reply", "agentDelivered", "agentRead"}, AgentActs(op) PROVE VisitorInv'
  BY <1>10, AskedAnew
<1>11. ASSUME NEW w \in work, LookUp(w) PROVE VisitorInv'
  BY <1>11, LooksUp
<1>12. ASSUME NEW w \in work, WriteNew(w) PROVE VisitorInv'
  BY <1>12, Creating
<1>13. ASSUME NEW w \in work, ApplyChange(w) PROVE VisitorInv'
  BY <1>13, Changing
<1>14. ASSUME NEW w \in work, WriteStatus(w) PROVE VisitorInv'
  BY <1>14, MarkingRead
<1>15. ASSUME NEW w \in work, Publish(w) PROVE VisitorInv'
  BY <1>15, Publishes
<1>16. ASSUME NEW w \in work, NEW ok \in BOOLEAN, Answer(w, ok) PROVE VisitorInv'
  BY <1>16, Answering
<1> QED
  BY <1>1, <1>2, <1>3, <1>4, <1>5, <1>6, <1>7, <1>8, <1>9, <1>10, <1>11, <1>12, <1>13, <1>14, <1>15, <1>16 DEF VisitorNext

LEMMA VisitorSafe ==
  ASSUME VisitorAssumption, VisitorInv
  PROVE  VisitorThreadIsTrue
<1> SUFFICES ASSUME work = {}, events = <<>>, phase = "open", NEW m \in Thread \ missed
             PROVE  page[m] = message[m]
  BY DEF VisitorThreadIsTrue
<1>1. Followed(m) /\ m \in Message /\ message[m] \in Row
  BY ThreadRows DEF VisitorInv
<1>2. Written(m) = {} /\ On(events, m) = {} /\ ~Going(m)
  BY DEF Written, On, Going
<1>3. Tales(m) = {events} /\ Based /\ Base(m) = page[m]
  BY <1>2 DEF Tales, Based, Base
<1>4. Shows(events, m, message[m], page[m], Going(m))
  BY <1>1, <1>3 DEF Followed, Shown
<1>5. /\ page[m] # Blank /\ page[m].st = message[m].st /\ page[m].from = message[m].from
      /\ page[m].body = message[m].body /\ page[m].deleted = message[m].deleted
  BY <1>2, <1>4, Silence
<1>6. page[m] \in Row
  BY <1>1, <1>5 DEF VisitorInv, VisitorTypeOK, Threads
<1> QED BY <1>1, <1>5, <1>6 DEF Row

\* However the requests of the visitor and of the agents, their events, the loading of the
\* thread and the socket of the page interleave, a page at rest shows every message as it is
\* stored, unless it is one that was missed.
THEOREM ThreadHolds ==
  ASSUME VisitorAssumption
  PROVE  VisitorSpec => []VisitorThreadIsTrue
<1>1. VisitorInit => VisitorInv
  BY VisitorStarts
<1>2. VisitorInv /\ [VisitorNext]_visitorVars => VisitorInv'
  BY VisitorSteps
<1>3. VisitorInv => VisitorThreadIsTrue
  BY VisitorSafe
<1> QED BY <1>1, <1>2, <1>3, PTL DEF VisitorSpec
=============================================================================
